---------------------- MODULE HeteroInferRequestProofs ----------------------
(***************************************************************************)
(* Proofs about HeteroInferRequest for every number of sub-requests,       *)
(* rounds and blobs, every cut of the network that a theorem does not      *)
(* restrict, and every way in which one client and the callback may use    *)
(* the request.                                                            *)
(*                                                                         *)
(* The argument: at most one sub-request is active, with the round that    *)
(* was accepted last, and those before it have passed.  While one is       *)
(* active nobody begins a start: where the callback does not restart,      *)
(* because the flag stays up until the chain has ended, and Wait(), which  *)
(* lowers it too, goes through the sub-requests behind the active one;     *)
(* where it does, because the client starts the request only once, and the *)
(* user's callback runs when the last sub-request has ended.               *)
(*                                                                         *)
(* On the same invariant rest that the flag is never forgotten (Held), and *)
(* that nobody waits for what nobody has begun (BegunOK), so that somebody *)
(* can always go on.                                                       *)
(***************************************************************************)
EXTENDS HeteroInferRequest, FiniteSetTheorems, TLAPS

-----------------------------------------------------------------------------
(* The ways of use                                                         *)

\* One client uses the request, and its callback.
OneUser == \A u \in UsageChoices : "shared" \notin u

\* A blob that the user sets has one asker, or it goes to all who ask, and
\* nobody else reads it.
ServedTopologies ==
    \A u \in UsageChoices, w \in Topologies, n \in Names : "set" \in u =>
        /\ w[n].from = 0 => "roi" \in u \/ \E s \in Subs : w[n].to = {s}
        /\ w[n].output => w[n].to = {}

\* Who waits does not mix Infer() with inferences that fail.
NoWaitAfterFailedInfer == \A u \in UsageChoices : "wait" \in u => ~({"infer", "fail"} \subseteq u)

\* Infer() and inferences that fail are not mixed at all.
NoFailedInfer == \A u \in UsageChoices : ~({"infer", "fail"} \subseteq u)

\* Who counts on the callback sees no inference fail.
NoFailedCallback ==
    \A u \in UsageChoices : "callback" \in u /\ "infer" \notin u => "fail" \notin u

Restarts   == "restart" \in usage
InferFails == "infer" \in usage /\ "fail" \in usage

-----------------------------------------------------------------------------
(* The inductive invariant                                                 *)

User == CHOOSE c \in Clients : TRUE

U  == thread[User]
Cb == thread[Callback]

StartPlaces    == {"raising", "updating", "starting"}
InferPlaces    == {"inferUpdating", "inferStarting", "inferWaiting", "inferLowering"}
WaitPlaces     == {"waiting", "lowering"}
UserPlaces     == {"idle", "setting"} \cup WaitPlaces \cup StartPlaces \cup InferPlaces
CallbackPlaces == {"idle", "calling", "inCallback", "calledBack"} \cup StartPlaces

\* A sub-request has an inference to make, or a callback to call or to end.
IsActive(s, r) == phase[s][r] \in {"infer", "queued", "callback"}
Running        == \E s \in Subs, r \in Rounds : IsActive(s, r)

IsPassed(s, r) == phase[s][r] \in {"called", "done"} /\ Succeeded(s, r)
IsOver(r)      == phase[Length][r] \in {"called", "done", "error"}

\* The sub-requests make the last round, each one after those before it.
PhasesOK ==
    /\ \A s \in Subs, r \in Rounds : IsActive(s, r) => r = history.round
    /\ \A s \in Subs, r \in Rounds : r > history.round => phase[s][r] = "none"
    /\ \A s \in Subs, r \in Rounds : phase[s][r] # "none" => r <= current[s]
    /\ current[1] = history.round
    /\ \A s, t \in Subs, r \in Rounds : phase[s][r] # "none" /\ t < s => IsPassed(t, r)
    /\ \A s \in Subs, r \in Rounds : phase[s][r] \in {"none", "infer", "done"} => Succeeded(s, r)
    /\ \A s \in Subs, r \in Rounds : phase[s][r] = "error" => ~Succeeded(s, r)
    /\ "fail" \notin usage => history.failed = {}

\* Each thread does what it is for.
ThreadsOK ==
    /\ "shared" \notin usage
    /\ \A c \in Clients \ {User} : At(c, "idle")
    /\ U.at \in UserPlaces /\ Cb.at \in CallbackPlaces
    /\ Cb.at # "idle" => "callback" \in usage /\ history.round # 0
    /\ Cb.at \in StartPlaces \cup {"calledBack"} => Restarts
    /\ U.at \in InferPlaces => "infer" \in usage
    /\ U.at \in WaitPlaces => "wait" \in usage
    /\ U.at = "setting" => "set" \in usage /\ history.set < MaxBlobs

\* Nobody begins a start while a sub-request is active.
StartsOK ==
    /\ U.at \in StartPlaces \cup InferPlaces /\ U.at # "inferWaiting" => ~Running
    /\ U.at \in StartPlaces \cup InferPlaces /\ Restarts => Cb.at = "idle"
    /\ Cb.at \in {"calling", "inCallback"} \cup StartPlaces /\ Restarts => ~Running
    /\ Running \/ (U.at \in StartPlaces \cup InferPlaces /\ U.at # "raising") => busy \/ Restarts

\* How far the client is with Infer().
InfersOK ==
    /\ U.at = "inferUpdating" => U.sub = 1
    /\ U.at \in {"inferUpdating", "inferStarting"} =>
          U.round \in Rounds /\ U.round = IF U.sub = 1 THEN history.round + 1 ELSE history.round
    /\ U.at = "inferStarting" =>
          /\ phase[U.sub][U.round] = "none"
          /\ \A t \in Subs : t < U.sub => IsPassed(t, U.round)
    /\ U.at = "inferWaiting" =>
          /\ U.round \in Rounds /\ U.round = history.round
          /\ phase[U.sub][U.round] \in {"infer", "done", "error"}
          /\ \A t \in Subs : t > U.sub => phase[t][U.round] = "none"
          /\ ~enabled[U.sub]

\* Wait() is behind the active sub-request, and lowers the flag at the end.
WaitsOK ==
    ~Restarts =>
        /\ U.at = "waiting" => \A s \in Subs, r \in Rounds :
              IsActive(s, r) => U.sub <= s /\ history.round <= U.round
        /\ U.at = "lowering" /\ ~KeepsFlag(U.told) => ~Running

\* Only Infer() turns a callback off, unless an inference of it has failed.
EnabledOK ==
    \A s \in Subs : enabled[s] \/ InferFails \/ (U.at = "inferWaiting" /\ U.sub = s)

\* Infer() has to start the next sub-request.
InferGoesOn(s, r) ==
    /\ U.round = r
    /\ \/ U.at = "inferWaiting" /\ U.sub = s
       \/ U.at = "inferStarting" /\ U.sub = s + 1

\* Whatever passes a sub-request comes to the next one, and has not ended
\* before it passes the last one or fails.
FollowsOK ==
    ~InferFails =>
        /\ \A s \in Subs \ {Length}, r \in Rounds :
              IsPassed(s, r) => phase[s + 1][r] # "none" \/ InferGoesOn(s, r)
        /\ history.round # 0 =>
              \/ Running
              \/ U.at \in {"inferWaiting", "inferStarting"} /\ U.round = history.round
              \/ \E s \in Subs : ~Succeeded(s, history.round)
              \/ IsOver(history.round)

\* Wait() has seen the sub-requests that it has passed at their end.
SeenOK ==
    ~InferFails =>
        /\ U.at \in WaitPlaces => U.round = 0 \/ U.asked <= U.round
        /\ U.at = "waiting" => \A t \in Subs : t < U.sub =>
              \E r \in Rounds : U.asked <= r /\ phase[t][r] = "done"
        /\ U.at = "lowering" /\ U.told = "OK" => \A t \in Subs :
              \E r \in Rounds : U.asked <= r /\ phase[t][r] = "done"

\* The callbacks of the user are those of the rounds that are over.
CountOK ==
    "callback" \in usage /\ "infer" \notin usage /\ "fail" \notin usage =>
        history.round = history.called
                          + (IF Cb.at = "calling" THEN 1 ELSE 0)
                          + (IF history.round # 0 /\ ~IsOver(history.round) THEN 1 ELSE 0)

Inv == /\ TypeOK /\ PhasesOK /\ ThreadsOK /\ StartsOK /\ InfersOK
       /\ WaitsOK /\ EnabledOK /\ FollowsOK /\ SeenOK /\ CountOK

\* What is handed on is what the user has set last, and the sub-requests
\* that share a blob hold the same.
BlobsOK ==
    /\ \A n \in Names, s \in Subs : s \in Askers(n) => blobs.bound[s][n] = history.taken[n]
    /\ \A n \in Names, s \in Subs : s \in Readers(n) /\ ~IsInput(n) =>
          blobs.bound[s][n] = blobs.bound[topology[n].from][n]
    /\ \A n \in Names : "set" \notin usage \/ Askers(n) = {} => history.wanted[n] = 0
    /\ \A n \in Names : history.wanted[n] = 0 => history.taken[n] = 0
    /\ \A n \in Names : IF "roi" \in usage /\ IsInput(n)
          THEN blobs.roi[n] = history.wanted[n] /\ blobs.given[n] = 0 /\ blobs.known[n] = 0
          ELSE /\ blobs.roi[n] = 0 /\ blobs.given[n] = history.wanted[n]
               /\ blobs.known[n] = history.taken[n]

-----------------------------------------------------------------------------
(* The state and what every step does to it                                *)

Places == {"idle", "setting", "raising", "updating", "starting", "calling", "inCallback",
           "calledBack", "waiting", "lowering", "inferUpdating", "inferStarting",
           "inferWaiting", "inferLowering"}

Told == {"none", "OK", "GENERAL_ERROR", "INFER_NOT_STARTED", "RESULT_NOT_READY"}

Phases == {"none", "infer", "queued", "callback", "called", "done", "error"}

ThreadStates == [at : Places, sub : Subs, round : 0..MaxRounds, asked : 0..MaxRounds,
                 mode : Modes, told : Told]

BlobStates == [given : [Names -> Blobs], roi : [Names -> Blobs], known : [Names -> Blobs],
               bound : [Subs -> [Names -> Blobs]]]

Histories == [round : 0..MaxRounds, failed : SUBSET (Subs \X Rounds), called : Nat,
              set : Blobs, wanted : [Names -> Blobs], taken : [Names -> Blobs]]

\* The type invariant in parts.
LEMMA TypeParts ==
    TypeOK <=> /\ usage \in UsageChoices /\ topology \in Topologies
               /\ busy \in BOOLEAN
               /\ blobs \in BlobStates
               /\ phase \in [Subs -> [Rounds -> Phases]]
               /\ current \in [Subs -> 0..MaxRounds]
               /\ enabled \in [Subs -> BOOLEAN]
               /\ thread \in [Threads -> ThreadStates]
               /\ history \in Histories
BY DEF TypeOK, BlobStates, Phases, ThreadStates, Places, Told, Histories

LEMMA TypePartsNext ==
    ASSUME usage' \in UsageChoices, topology' \in Topologies,
           busy' \in BOOLEAN,
           blobs' \in BlobStates,
           phase' \in [Subs -> [Rounds -> Phases]],
           current' \in [Subs -> 0..MaxRounds],
           enabled' \in [Subs -> BOOLEAN],
           thread' \in [Threads -> ThreadStates],
           history' \in Histories
    PROVE  TypeOK'
BY DEF TypeOK, BlobStates, Phases, ThreadStates, Places, Told, Histories

\* The client is one thread, the callback another one.
LEMMA UserIs ==
    /\ User \in Clients /\ User \in Threads /\ Callback \in Threads /\ User # Callback
    /\ Callback \notin Clients
    /\ Threads = {User, Callback} \cup (Clients \ {User})
    /\ "shared" \notin usage => Users = {User}
BY HeteroAssumption DEF User, Threads, Users

LEMMA SubsAre ==
    /\ 1 \in Subs /\ Length \in Subs /\ Length \in Nat
    /\ Subs \subseteq Nat /\ Rounds \subseteq Nat /\ MaxRounds \in Nat
    /\ \A s \in Subs : 1 <= s /\ s <= Length
    /\ \A s \in Subs : s # Length => s < Length /\ s + 1 \in Subs
    /\ \A s \in Subs : s < Length => s # Length /\ s + 1 \in Subs
    /\ \A r : r \in Rounds <=> r \in 0..MaxRounds /\ r # 0
BY HeteroAssumption DEF Subs, Rounds

\* A thread that goes on keeps its locals.
LEMMA GoToKeeps ==
    ASSUME thread \in [Threads -> ThreadStates], NEW p \in Threads, NEW place \in Places,
           GoTo(p, place)
    PROVE  /\ thread' \in [Threads -> ThreadStates]
           /\ thread'[p].at = place
           /\ thread'[p].sub = thread[p].sub /\ thread'[p].round = thread[p].round
           /\ thread'[p].asked = thread[p].asked /\ thread'[p].mode = thread[p].mode
           /\ thread'[p].told = thread[p].told
           /\ \A q \in Threads \ {p} : thread'[q] = thread[q]
BY DEF GoTo, ThreadStates

\* One phase of one sub-request changes.
LEMMA PhaseChanges ==
    ASSUME phase \in [Subs -> [Rounds -> Phases]], NEW s \in Subs, NEW r \in Rounds,
           NEW p \in Phases, phase' = [phase EXCEPT ![s][r] = p]
    PROVE  /\ phase' \in [Subs -> [Rounds -> Phases]]
           /\ phase'[s][r] = p
           /\ \A t \in Subs, q \in Rounds : t # s \/ q # r => phase'[t][q] = phase[t][q]
<1>1. phase'[s] = [phase[s] EXCEPT ![r] = p] /\ \A t \in Subs \ {s} : phase'[t] = phase[t]
  OBVIOUS
<1>2. phase[s] \in [Rounds -> Phases] /\ phase'[s] \in [Rounds -> Phases]
  BY <1>1
<1>3. phase' = [t \in Subs |-> phase'[t]]
  OBVIOUS
<1> QED
  BY <1>1, <1>2, <1>3

LEMMA HistoryIs ==
    ASSUME history \in Histories
    PROVE  /\ history.round \in 0..MaxRounds /\ history.round \in Nat
           /\ history.failed \subseteq Subs \X Rounds
           /\ history.called \in Nat /\ history.set \in Blobs
           /\ history.wanted \in [Names -> Blobs] /\ history.taken \in [Names -> Blobs]
BY DEF Histories

\* A step that leaves the phases and the rounds alone.
SamePhases == /\ usage' = usage /\ phase' = phase /\ current' = current
              /\ history'.round = history.round /\ history'.failed = history.failed

LEMMA SamePhasesKeep ==
    ASSUME SamePhases
    PROVE  /\ PhasesOK => PhasesOK'
           /\ Running' <=> Running
           /\ \A s, r : IsPassed(s, r)' <=> IsPassed(s, r)
           /\ \A r : IsOver(r)' <=> IsOver(r)
           /\ \A s, r : Succeeded(s, r)' <=> Succeeded(s, r)
           /\ Restarts' <=> Restarts
           /\ InferFails' <=> InferFails
BY DEF SamePhases, PhasesOK, Running, IsActive, IsPassed, IsOver, Succeeded, Restarts, InferFails

\* Before a round is accepted nobody has made it.
LEMMA FreshRound ==
    ASSUME TypeOK, PhasesOK, NEW s \in Subs, NEW r \in Rounds, r > history.round
    PROVE  phase[s][r] = "none" /\ Succeeded(s, r)
BY DEF PhasesOK

\* At most one sub-request is active.
LEMMA OneActive ==
    ASSUME TypeOK, PhasesOK, NEW s \in Subs, NEW r \in Rounds, IsActive(s, r)
    PROVE  /\ r = history.round /\ history.round # 0
           /\ \A t \in Subs : t < s => IsPassed(t, r)
           /\ \A t \in Subs : t > s => phase[t][r] = "none"
           /\ \A t \in Subs, q \in Rounds : t # s \/ q # r => ~IsActive(t, q)
<1>1. r = history.round /\ phase[s][r] # "none"
  BY DEF PhasesOK, IsActive
<1>2. \A t \in Subs : t < s => IsPassed(t, r)
  BY <1>1 DEF PhasesOK
<1>3. \A t \in Subs : t > s => phase[t][r] = "none"
  BY DEF PhasesOK, IsActive, IsPassed
<1>4. ASSUME NEW t \in Subs, NEW q \in Rounds, t # s \/ q # r, IsActive(t, q) PROVE FALSE
  <2>1. q = r
    BY <1>1, <1>4 DEF PhasesOK
  <2>2. t < s \/ t > s
    BY <1>4, <2>1, SubsAre
  <2> QED
    BY <1>2, <1>3, <1>4, <2>1, <2>2 DEF IsActive, IsPassed
<1> QED
  BY <1>1, <1>2, <1>3, <1>4, SubsAre

-----------------------------------------------------------------------------
(* Steps that leave a part of the invariant alone                          *)

LEMMA InitInv == OneUser /\ Init => Inv
<1> SUFFICES ASSUME OneUser, Init PROVE Inv
  OBVIOUS
<1> USE HeteroAssumption, SubsAre, UserIs
<1>1. TypeOK
  <2>1. Idle \in ThreadStates
    BY DEF Idle, ThreadStates, Places, Told, Modes
  <2>2. thread \in [Threads -> ThreadStates] /\ phase \in [Subs -> [Rounds -> Phases]]
    BY <2>1 DEF Init, Phases
  <2>3. 0 \in Blobs /\ 0 \in 0..MaxRounds
    BY DEF Blobs
  <2>4. blobs \in BlobStates
    BY <2>3 DEF Init, BlobStates
  <2>5. history \in Histories
    BY <2>3 DEF Init, Histories
  <2> QED
    BY <2>2, <2>3, <2>4, <2>5, TypeParts DEF Init
<1>2. /\ \A s \in Subs, r \in Rounds : phase[s][r] = "none"
      /\ history.round = 0 /\ history.failed = {} /\ history.called = 0
      /\ \A p \in Threads : thread[p] = Idle
      /\ \A s \in Subs : current[s] = 0 /\ enabled[s]
      /\ "shared" \notin usage
  BY DEF Init, OneUser
<1>3. U = Idle /\ Cb = Idle /\ U.at = "idle" /\ Cb.at = "idle"
  BY <1>2 DEF U, Cb, Idle
<1>4. ~Running
  BY <1>2 DEF Running, IsActive
<1>5. PhasesOK
  BY <1>2 DEF PhasesOK, IsActive, Succeeded
<1>6. ThreadsOK
  BY <1>2, <1>3 DEF ThreadsOK, At, Idle, UserPlaces, CallbackPlaces, StartPlaces, InferPlaces,
     WaitPlaces
<1>7. StartsOK /\ InfersOK /\ WaitsOK /\ SeenOK
  BY <1>3, <1>4 DEF StartsOK, InfersOK, WaitsOK, SeenOK, StartPlaces, InferPlaces, WaitPlaces
<1>8. EnabledOK
  BY <1>2 DEF EnabledOK
<1>9. FollowsOK
  BY <1>2 DEF FollowsOK, IsPassed
<1>10. CountOK
  BY <1>2, <1>3 DEF CountOK
<1> QED
  BY <1>1, <1>5, <1>6, <1>7, <1>8, <1>9, <1>10 DEF Inv

LEMMA OutsideInfer ==
    ASSUME Inv, SamePhases, enabled' = enabled, history'.called = history.called,
           U' = U \/ (U.at \notin InferPlaces /\ U'.at \notin InferPlaces),
           Cb'.at = "calling" <=> Cb.at = "calling"
    PROVE  PhasesOK' /\ InfersOK' /\ EnabledOK' /\ FollowsOK' /\ CountOK'
<1> USE SamePhasesKeep DEF Inv, InferPlaces
<1>1. PhasesOK'
  OBVIOUS
<1>2. InfersOK'
  BY DEF InfersOK, SamePhases
<1>3. EnabledOK'
  BY DEF EnabledOK
<1>4. FollowsOK'
  <2>1. \A s \in Subs, r \in Rounds : InferGoesOn(s, r) => InferGoesOn(s, r)'
    BY DEF InferGoesOn
  <2> QED
    BY <2>1 DEF FollowsOK, SamePhases
<1>5. CountOK'
  BY DEF CountOK, SamePhases
<1> QED
  BY <1>1, <1>2, <1>3, <1>4, <1>5

LEMMA OutsideWait ==
    ASSUME Inv, SamePhases, U' = U \/ U'.at \notin WaitPlaces
    PROVE  WaitsOK' /\ SeenOK'
<1> USE SamePhasesKeep DEF Inv, WaitPlaces
<1>1. WaitsOK'
  BY DEF WaitsOK, SamePhases, IsActive
<1>2. SeenOK'
  BY DEF SeenOK, SamePhases
<1> QED
  BY <1>1, <1>2

-----------------------------------------------------------------------------
(* SetBlob()                                                               *)

LEMMA SetBlobBeginKeeps ==
    ASSUME Inv, NEW c \in Clients, SetBlobBegin(c)
    PROVE  Inv'
<1> USE DEF Inv
<1>1. c = User /\ U.at = "idle" /\ history.set < MaxBlobs
  BY UserIs DEF SetBlobBegin, ThreadsOK, U, Move, At
<1>2. /\ thread' \in [Threads -> ThreadStates]
      /\ U'.at = "setting" /\ \A q \in Threads \ {User} : thread'[q] = thread[q]
  BY <1>1, GoToKeeps, TypeParts, UserIs DEF SetBlobBegin, Move, U, Places
<1>3. Cb' = Cb
  BY <1>2, UserIs DEF Cb
<1>4. SamePhases
  BY DEF SetBlobBegin, SamePhases
<1>5. TypeOK'
  BY <1>2, TypeParts, TypePartsNext DEF SetBlobBegin
<1>6. ThreadsOK'
  BY <1>1, <1>2, <1>3, UserIs DEF SetBlobBegin, ThreadsOK, At, Restarts, UserPlaces, StartPlaces,
     InferPlaces, WaitPlaces
<1>7. StartsOK'
  BY <1>2, <1>3, <1>4, SamePhasesKeep DEF SetBlobBegin, StartsOK, StartPlaces, InferPlaces
<1>8. PhasesOK' /\ InfersOK' /\ EnabledOK' /\ FollowsOK' /\ CountOK'
  BY <1>1, <1>2, <1>3, <1>4, OutsideInfer DEF SetBlobBegin, InferPlaces
<1>9. WaitsOK' /\ SeenOK'
  BY <1>2, <1>4, OutsideWait DEF WaitPlaces
<1> QED
  BY <1>5, <1>6, <1>7, <1>8, <1>9

LEMMA SetBlobKeeps ==
    ASSUME Inv, NEW c \in Clients, SetBlob(c)
    PROVE  Inv'
<1> USE DEF Inv
<1>1. c = User /\ U.at = "setting" /\ history.set < MaxBlobs
  BY UserIs DEF SetBlob, ThreadsOK, U, Move, At
<1>2. /\ thread' \in [Threads -> ThreadStates]
      /\ U'.at = "idle" /\ \A q \in Threads \ {User} : thread'[q] = thread[q]
  BY <1>1, GoToKeeps, TypeParts, UserIs DEF SetBlob, Move, U, Places
<1>3. Cb' = Cb
  BY <1>2, UserIs DEF Cb
<1>4. /\ history.set + 1 \in Blobs
      /\ history \in Histories /\ blobs \in BlobStates
  BY <1>1, HistoryIs, TypeParts, HeteroAssumption DEF Blobs
<1>5. PICK n \in Names :
        /\ blobs' \in {[blobs EXCEPT !.roi[n] = history.set + 1],
                       [blobs EXCEPT !.given[n] = history.set + 1]}
        /\ history' = [history EXCEPT !.set = history.set + 1, !.wanted[n] = history.set + 1]
  BY DEF SetBlob
<1>6. /\ history' \in Histories /\ history'.round = history.round
      /\ history'.failed = history.failed /\ history'.called = history.called
  BY <1>4, <1>5 DEF Histories
<1>7. blobs' \in BlobStates
  BY <1>4, <1>5 DEF BlobStates
<1>8. SamePhases
  BY <1>6 DEF SetBlob, SamePhases
<1>9. TypeOK'
  BY <1>2, <1>6, <1>7, TypeParts, TypePartsNext DEF SetBlob
<1>10. ThreadsOK'
  BY <1>1, <1>2, <1>3, <1>6, UserIs DEF SetBlob, ThreadsOK, At, Restarts, UserPlaces, StartPlaces,
     InferPlaces, WaitPlaces
<1>11. StartsOK'
  BY <1>2, <1>3, <1>8, SamePhasesKeep DEF SetBlob, StartsOK, StartPlaces, InferPlaces
<1>12. PhasesOK' /\ InfersOK' /\ EnabledOK' /\ FollowsOK' /\ CountOK'
  BY <1>1, <1>2, <1>3, <1>6, <1>8, OutsideInfer DEF SetBlob, InferPlaces
<1>13. WaitsOK' /\ SeenOK'
  BY <1>2, <1>8, OutsideWait DEF WaitPlaces
<1> QED
  BY <1>9, <1>10, <1>11, <1>12, <1>13

-----------------------------------------------------------------------------
(* StartAsync()                                                            *)

LEMMA RunningHasRound ==
    ASSUME TypeOK, PhasesOK, Running
    PROVE  history.round # 0
BY SubsAre DEF Running, PhasesOK

\* Whoever is inside a start is the client or the callback.
LEMMA StarterIs ==
    ASSUME Inv, NEW p \in Threads, thread[p].at # "idle"
    PROVE  p = User \/ p = Callback
BY UserIs DEF Inv, ThreadsOK, At

\* What a start does to its thread.
LEMMA StarterMoves ==
    ASSUME Inv, NEW p \in {User, Callback}, NEW place \in Places, GoTo(p, place)
    PROVE  /\ thread' \in [Threads -> ThreadStates]
           /\ p = User => U'.at = place /\ Cb' = Cb
           /\ p = Callback => Cb'.at = place /\ U' = U
           /\ \A c \in Clients \ {User} : At(c, "idle")'
<1>1. thread \in [Threads -> ThreadStates] /\ p \in Threads
  BY TypeParts, UserIs DEF Inv
<1>2. /\ thread' \in [Threads -> ThreadStates] /\ thread'[p].at = place
      /\ \A q \in Threads \ {p} : thread'[q] = thread[q]
  BY <1>1, GoToKeeps
<1>3. \A c \in Clients \ {User} : c \in Threads \ {p}
  BY UserIs
<1>4. \A c \in Clients \ {User} : At(c, "idle")'
  BY <1>2, <1>3 DEF Inv, ThreadsOK, At
<1>5. p = User => Callback \in Threads \ {p}
  BY UserIs
<1>6. p = Callback => User \in Threads \ {p}
  BY UserIs
<1> QED
  BY <1>2, <1>4, <1>5, <1>6 DEF U, Cb

\* A start that moves on and is still the only one.
LEMMA StartMoves ==
    ASSUME Inv, NEW p \in {User, Callback}, NEW place \in StartPlaces, GoTo(p, place),
           SamePhases, enabled' = enabled, history'.called = history.called,
           history'.set = history.set,
           thread[p].at \in StartPlaces \/ ~Running,
           thread[p].at \in StartPlaces \cup {IF p = User THEN "idle" ELSE "inCallback"},
           p = User /\ Restarts => Cb.at = "idle",
           p = Callback => Restarts,
           busy' = busy \/ busy' = TRUE,
           p = User /\ place # "raising" => busy' \/ Restarts
    PROVE  /\ PhasesOK' /\ ThreadsOK' /\ StartsOK' /\ InfersOK'
           /\ WaitsOK' /\ EnabledOK' /\ FollowsOK' /\ SeenOK' /\ CountOK'
<1> USE DEF Inv
<1>1. /\ thread' \in [Threads -> ThreadStates]
      /\ p = User => U'.at = place /\ Cb' = Cb
      /\ p = Callback => Cb'.at = place /\ U' = U
      /\ \A c \in Clients \ {User} : At(c, "idle")'
  BY StarterMoves DEF Places, StartPlaces
<1>2. /\ p = User => U.at \in StartPlaces \cup {"idle"}
      /\ p = Callback => Cb.at \in StartPlaces \cup {"inCallback"}
  BY UserIs DEF U, Cb
<1>3. p = Callback => U.at \notin StartPlaces \cup InferPlaces /\ Cb.at # "idle" /\ ~Running
  BY <1>2 DEF StartsOK, ThreadsOK, Cb, StartPlaces
<1>4. p = User => ~Running
  BY <1>2 DEF StartsOK, U, StartPlaces
<1>5. ThreadsOK'
  BY <1>1, <1>2, <1>3 DEF ThreadsOK, SamePhases, Restarts, UserPlaces, CallbackPlaces,
     StartPlaces, InferPlaces, WaitPlaces
<1>6. StartsOK'
  BY <1>1, <1>3, <1>4, SamePhasesKeep DEF StartsOK, StartPlaces, InferPlaces
<1>7. PhasesOK' /\ InfersOK' /\ EnabledOK' /\ FollowsOK' /\ CountOK'
  BY <1>1, <1>2, OutsideInfer, UserIs DEF InferPlaces, StartPlaces
<1>8. WaitsOK' /\ SeenOK'
  BY <1>1, OutsideWait DEF WaitPlaces, StartPlaces
<1> QED
  BY <1>5, <1>6, <1>7, <1>8

LEMMA StartAsyncKeeps ==
    ASSUME Inv, NEW p \in Threads, StartAsync(p)
    PROVE  Inv'
<1> USE DEF Inv
<1>1. /\ p \in {User, Callback}
      /\ p = User => thread[p].at = "idle" /\ (Restarts => history.round = 0)
      /\ p = Callback => thread[p].at = "inCallback" /\ Restarts
  BY UserIs DEF StartAsync, MayStart, ThreadsOK, At, Restarts
<1>2. SamePhases /\ GoTo(p, "raising") /\ ~busy
  BY DEF StartAsync, SamePhases
<1>3. ~Running
  <2>1. CASE p = User
    BY <1>1, <1>2, <2>1, RunningHasRound DEF StartsOK
  <2>2. CASE p = Callback
    BY <1>1, <2>2 DEF StartsOK, Cb
  <2> QED
    BY <1>1, <2>1, <2>2
<1>4. p = User /\ Restarts => Cb.at = "idle"
  BY <1>1 DEF ThreadsOK
<1>5. TypeOK'
  BY <1>1, <1>2, StarterMoves, TypeParts, TypePartsNext DEF StartAsync, Places
<1> QED
  BY <1>1, <1>2, <1>3, <1>4, <1>5, StartMoves, UserIs DEF StartAsync, StartPlaces

LEMMA StartRaisesKeeps ==
    ASSUME Inv, NEW p \in Threads, StartRaises(p)
    PROVE  Inv'
<1> USE DEF Inv
<1>1. thread[p].at = "raising" /\ GoTo(p, "updating") /\ busy' = TRUE
  BY DEF StartRaises, Move, At
<1>2. p \in {User, Callback}
  BY <1>1, StarterIs
<1>3. SamePhases
  BY DEF StartRaises, SamePhases
<1>4. p = User /\ Restarts => Cb.at = "idle"
  BY <1>1 DEF StartsOK, U, StartPlaces
<1>5. p = Callback => Restarts
  BY <1>1, UserIs DEF ThreadsOK, Cb, StartPlaces
<1>6. TypeOK'
  BY <1>1, <1>2, StarterMoves, TypeParts, TypePartsNext DEF StartRaises, Places
<1> QED
  BY <1>1, <1>2, <1>3, <1>4, <1>5, <1>6, StartMoves DEF StartRaises, StartPlaces

\* A start that is refused.
LEMMA StartLeaves ==
    ASSUME Inv, NEW p \in {User, Callback}, GoTo(p, Back(p)), SamePhases, busy' = busy,
           enabled' = enabled, history'.called = history.called, history'.set = history.set,
           thread[p].at \in {"updating", "starting"}
    PROVE  /\ PhasesOK' /\ ThreadsOK' /\ StartsOK' /\ InfersOK'
           /\ WaitsOK' /\ EnabledOK' /\ FollowsOK' /\ SeenOK' /\ CountOK'
<1> USE DEF Inv
<1>1. /\ p = User => U'.at = "idle" /\ Cb' = Cb
      /\ p = Callback => Cb'.at = "calledBack" /\ U' = U
      /\ \A c \in Clients \ {User} : At(c, "idle")'
  BY StarterMoves, UserIs DEF Places, Back
<1>2. /\ p = User => U.at \in {"updating", "starting"}
      /\ p = Callback => Cb.at \in {"updating", "starting"}
  BY DEF U, Cb
<1>3. ThreadsOK'
  BY <1>1, <1>2 DEF ThreadsOK, SamePhases, Restarts, UserPlaces, CallbackPlaces,
     StartPlaces, InferPlaces, WaitPlaces
<1>4. StartsOK'
  BY <1>1, <1>2, SamePhasesKeep DEF StartsOK, StartPlaces, InferPlaces
<1>5. PhasesOK' /\ InfersOK' /\ EnabledOK' /\ FollowsOK' /\ CountOK'
  BY <1>1, <1>2, OutsideInfer DEF InferPlaces
<1>6. WaitsOK' /\ SeenOK'
  BY <1>1, OutsideWait DEF WaitPlaces
<1> QED
  BY <1>3, <1>4, <1>5, <1>6

\* What is handed on is a blob.
LEMMA HandedOnType ==
    ASSUME blobs \in BlobStates
    PROVE  HandedOn \in [Subs -> [Names -> Blobs]]
BY DEF BlobStates, HandedOn

LEMMA UpdateTypes ==
    ASSUME TypeOK, UpdateInOutIfNeeded
    PROVE  /\ blobs' \in BlobStates /\ history' \in Histories
           /\ history'.round = history.round /\ history'.failed = history.failed
           /\ history'.called = history.called /\ history'.set = history.set
<1>1. blobs \in BlobStates /\ history \in Histories
  BY TypeParts
<1>2. HandedOn \in [Subs -> [Names -> Blobs]]
  BY <1>1, HandedOnType
<1>3. [n \in Names |-> IF Askers(n) = {} THEN blobs.known[n] ELSE blobs.given[n]]
        \in [Names -> Blobs]
  BY <1>1, SMTT(60) DEF BlobStates
<1>4. blobs' \in BlobStates
  BY <1>1, <1>2, <1>3 DEF UpdateInOutIfNeeded, BlobStates
<1> QED
  BY <1>1, <1>4 DEF UpdateInOutIfNeeded, Histories

LEMMA StartUpdatesKeeps ==
    ASSUME Inv, NEW p \in Threads, StartUpdates(p)
    PROVE  Inv'
<1> USE DEF Inv
<1>1. thread[p].at = "updating"
  BY DEF StartUpdates, At
<1>2. p \in {User, Callback}
  BY <1>1, StarterIs
<1>3. CASE RefusesBlob
  <2>1. GoTo(p, Back(p)) /\ UNCHANGED <<blobs, history>>
    BY <1>3 DEF StartUpdates
  <2>2. SamePhases
    BY <2>1 DEF StartUpdates, SamePhases
  <2>3. TypeOK'
    BY <1>2, <2>1, StarterMoves, TypeParts, TypePartsNext DEF StartUpdates, Places, Back
  <2> QED
    BY <1>1, <1>2, <2>1, <2>2, <2>3, StartLeaves DEF StartUpdates
<1>4. CASE ~RefusesBlob
  <2>1. GoTo(p, "starting") /\ UpdateInOutIfNeeded
    BY <1>4 DEF StartUpdates
  <2>2. /\ blobs' \in BlobStates /\ history' \in Histories
        /\ history'.round = history.round /\ history'.failed = history.failed
        /\ history'.called = history.called /\ history'.set = history.set
    BY <2>1, UpdateTypes
  <2>3. SamePhases
    BY <2>2 DEF StartUpdates, SamePhases
  <2>4. p = User /\ Restarts => Cb.at = "idle"
    BY <1>1 DEF StartsOK, U, StartPlaces
  <2>5. p = Callback => Restarts
    BY <1>1, UserIs DEF ThreadsOK, Cb, StartPlaces
  <2>6. p = User => busy \/ Restarts
    BY <1>1 DEF StartsOK, U, StartPlaces
  <2>7. TypeOK'
    BY <1>2, <2>1, <2>2, StarterMoves, TypeParts, TypePartsNext DEF StartUpdates, Places
  <2> QED
    BY <1>1, <1>2, <2>1, <2>2, <2>3, <2>4, <2>5, <2>6, <2>7, StartMoves
    DEF StartUpdates, StartPlaces
<1> QED
  BY <1>3, <1>4

\* A sub-request is started when none is active and those before it have passed.
LEMMA SubStarts ==
    ASSUME TypeOK, PhasesOK, NEW s \in Subs, NEW r \in Rounds,
           phase[s][r] = "none", \A t \in Subs : t < s => IsPassed(t, r),
           ~Running, StartSub(s, r),
           r = IF s = 1 THEN history.round + 1 ELSE history.round,
           usage' = usage, history'.round = r, history'.failed = history.failed
    PROVE  /\ PhasesOK'
           /\ phase' \in [Subs -> [Rounds -> Phases]]
           /\ current' \in [Subs -> 0..MaxRounds]
           /\ phase'[s][r] = "infer"
           /\ \A t \in Subs, q \in Rounds : t # s \/ q # r => phase'[t][q] = phase[t][q]
           /\ \A t \in Subs, q \in Rounds : IsActive(t, q)' <=> t = s /\ q = r
           /\ \A t \in Subs, q \in Rounds : IsPassed(t, q)' <=> IsPassed(t, q)
           /\ Running'
<1>1. /\ phase \in [Subs -> [Rounds -> Phases]] /\ current \in [Subs -> 0..MaxRounds]
      /\ history.round \in Nat
  BY TypeParts, HistoryIs
<1>2. /\ phase' \in [Subs -> [Rounds -> Phases]] /\ phase'[s][r] = "infer"
      /\ \A t \in Subs, q \in Rounds : t # s \/ q # r => phase'[t][q] = phase[t][q]
  BY <1>1, PhaseChanges DEF StartSub, Phases
<1>3. /\ current' \in [Subs -> 0..MaxRounds] /\ current'[s] = r
      /\ \A t \in Subs \ {s} : current'[t] = current[t]
  BY <1>1, SubsAre DEF StartSub
<1>4. \A t \in Subs, q \in Rounds : IsActive(t, q)' <=> t = s /\ q = r
  BY <1>2 DEF IsActive, Running
<1>5. \A t \in Subs, q \in Rounds : Succeeded(t, q)' <=> Succeeded(t, q)
  BY DEF Succeeded
<1>6. \A t \in Subs, q \in Rounds : IsPassed(t, q)' <=> IsPassed(t, q)
  BY <1>2, <1>5 DEF IsPassed
<1>7. Running'
  BY <1>4 DEF Running
<1>8. history.round <= r /\ r \in Nat
  BY <1>1
<1>9. \A t \in Subs, q \in Rounds : phase[t][q] # "none" => q <= history.round
  BY <1>1, SubsAre DEF PhasesOK
<1>10. PhasesOK'
  <2>1. \A t \in Subs, q \in Rounds : q > r => phase'[t][q] = "none"
    <3> SUFFICES ASSUME NEW t \in Subs, NEW q \in Rounds, q > r PROVE phase'[t][q] = "none"
      OBVIOUS
    <3>1. q \in Nat /\ q # r /\ ~(q <= history.round)
      BY <1>1, <1>8, SubsAre
    <3> QED
      BY <3>1, <1>2, <1>9
  <2>2. \A t \in Subs, q \in Rounds : phase'[t][q] # "none" => q <= current'[t]
    <3> SUFFICES ASSUME NEW t \in Subs, NEW q \in Rounds, phase'[t][q] # "none"
                 PROVE  q <= current'[t]
      OBVIOUS
    <3>1. CASE t = s
      <4>1. q \in Nat
        BY SubsAre
      <4>2. q # r => q <= history.round
        BY <3>1, <1>2, <1>9
      <4> QED
        BY <3>1, <4>1, <4>2, <1>1, <1>3, <1>8
    <3>2. CASE t # s
      BY <3>2, <1>2, <1>3 DEF PhasesOK
    <3> QED
      BY <3>1, <3>2
  <2>3. current'[1] = r
    <3>1. CASE s = 1
      BY <3>1, <1>3
    <3>2. CASE s # 1
      BY <3>2, <1>3, SubsAre DEF PhasesOK
    <3> QED
      BY <3>1, <3>2
  <2>4. \A t, u \in Subs, q \in Rounds : phase'[t][q] # "none" /\ u < t => IsPassed(u, q)'
    <3> SUFFICES ASSUME NEW t \in Subs, NEW u \in Subs, NEW q \in Rounds,
                        phase'[t][q] # "none", u < t
                 PROVE  IsPassed(u, q)
      BY <1>6
    <3>1. CASE t = s /\ q = r
      BY <3>1
    <3>2. CASE t # s \/ q # r
      BY <3>2, <1>2 DEF PhasesOK
    <3> QED
      BY <3>1, <3>2
  <2>5. \A t \in Subs, q \in Rounds : phase'[t][q] \in {"none", "infer", "done"} => Succeeded(t, q)'
    BY <1>2, <1>5 DEF PhasesOK
  <2>6. \A t \in Subs, q \in Rounds : phase'[t][q] = "error" => ~Succeeded(t, q)'
    BY <1>2, <1>5 DEF PhasesOK
  <2>7. "fail" \notin usage' => history'.failed = {}
    BY DEF PhasesOK
  <2> QED
    BY <1>4, <2>1, <2>2, <2>3, <2>4, <2>5, <2>6, <2>7 DEF PhasesOK
<1> QED
  BY <1>2, <1>3, <1>4, <1>6, <1>7, <1>10

LEMMA StartFirstKeeps ==
    ASSUME Inv, NEW p \in Threads, StartFirst(p)
    PROVE  Inv'
<1> USE DEF Inv
<1>1. thread[p].at = "starting" /\ GoTo(p, Back(p))
  BY DEF StartFirst, Move, At
<1>2. p \in {User, Callback}
  BY <1>1, StarterIs
<1>3. thread' \in [Threads -> ThreadStates]
  BY <1>1, <1>2, StarterMoves DEF Places, Back
<1>4. CASE ~(AtRest(1) /\ history.round < MaxRounds)
  <2>1. UNCHANGED <<phase, current, history>>
    BY <1>4 DEF StartFirst
  <2>2. SamePhases
    BY <2>1 DEF StartFirst, SamePhases
  <2>3. TypeOK'
    BY <1>3, <2>1, TypeParts, TypePartsNext DEF StartFirst
  <2> QED
    BY <1>1, <1>2, <2>1, <2>2, <2>3, StartLeaves DEF StartFirst
<1>5. CASE AtRest(1) /\ history.round < MaxRounds
  <2> DEFINE r == history.round + 1
  <2>1. /\ StartSub(1, r) /\ history' = [history EXCEPT !.round = r]
        /\ UNCHANGED <<usage, topology, busy, blobs, enabled>>
    BY <1>5 DEF StartFirst
  <2>2. history \in Histories /\ r \in Rounds /\ r > history.round
    BY <1>5, TypeParts, HistoryIs, SubsAre DEF Rounds
  <2>3. /\ history' \in Histories /\ history'.round = r /\ history'.failed = history.failed
        /\ history'.called = history.called /\ history'.set = history.set
    BY <2>1, <2>2, SubsAre DEF Histories
  <2>4. phase[1][r] = "none" /\ \A t \in Subs : ~(t < 1)
    <3>1. phase[1][r] = "none"
      BY <2>2, FreshRound, SubsAre
    <3>2. \A t \in Subs : ~(t < 1)
      BY SubsAre
    <3> QED
      BY <3>1, <3>2
  <2>5. ~Running
    <3>1. CASE p = User
      BY <1>1, <3>1 DEF StartsOK, U, StartPlaces
    <3>2. CASE p = Callback
      BY <1>1, <3>2 DEF StartsOK, ThreadsOK, Cb, StartPlaces
    <3> QED
      BY <1>2, <3>1, <3>2
  <2> HIDE DEF r
  <2>6. /\ PhasesOK'
        /\ phase' \in [Subs -> [Rounds -> Phases]]
        /\ current' \in [Subs -> 0..MaxRounds]
        /\ phase'[1][r] = "infer"
        /\ \A t \in Subs, q \in Rounds : t # 1 \/ q # r => phase'[t][q] = phase[t][q]
        /\ \A t \in Subs, q \in Rounds : IsPassed(t, q)' <=> IsPassed(t, q)
        /\ Running'
    <3>1. r = IF 1 = 1 THEN history.round + 1 ELSE history.round
      BY DEF r
    <3> QED
      BY <2>1, <2>2, <2>3, <2>4, <2>5, <3>1, SubStarts, SubsAre
  <2>7. TypeOK'
    BY <1>3, <2>1, <2>3, <2>6, TypeParts, TypePartsNext
  <2>8. /\ p = User => U.at = "starting" /\ U'.at = "idle" /\ Cb' = Cb
        /\ p = Callback => Cb.at = "starting" /\ Cb'.at = "calledBack" /\ U' = U
        /\ \A c \in Clients \ {User} : At(c, "idle")'
    BY <1>1, <1>2, StarterMoves, UserIs DEF Places, Back, U, Cb
  <2>9. /\ p = Callback => Restarts /\ U.at \notin StartPlaces \cup InferPlaces
        /\ p = User => busy \/ Restarts
        /\ p = User /\ Restarts => Cb.at = "idle"
    BY <2>8 DEF StartsOK, ThreadsOK, StartPlaces, InferPlaces
  <2>10. U.at \notin InferPlaces /\ U'.at \notin InferPlaces \cup StartPlaces
    BY <1>2, <2>8, <2>9 DEF InferPlaces, StartPlaces
  <2>11. history'.round # 0
    BY <2>2, <2>3, SubsAre
  <2>12. ThreadsOK'
    BY <1>2, <2>1, <2>3, <2>8, <2>9, <2>11 DEF ThreadsOK, Restarts, UserPlaces, CallbackPlaces,
       StartPlaces, InferPlaces, WaitPlaces
  <2>13. StartsOK'
    BY <1>2, <2>1, <2>8, <2>9, <2>10 DEF StartsOK, Restarts, StartPlaces
  <2>14. InfersOK'
    BY <2>10 DEF InfersOK, InferPlaces
  <2>15. WaitsOK'
    BY <1>2, <2>1, <2>8, <2>9 DEF WaitsOK, Restarts
  <2>16. EnabledOK'
    BY <2>1, <2>10 DEF EnabledOK, InferFails, InferPlaces
  <2>17. FollowsOK'
    <3>1. ASSUME ~InferFails, NEW t \in Subs \ {Length}, NEW q \in Rounds, IsPassed(t, q)'
          PROVE  phase'[t + 1][q] # "none"
      <4>1. phase[t + 1][q] # "none"
        BY <3>1, <2>6, <2>10 DEF FollowsOK, InferGoesOn, InferPlaces
      <4>2. t + 1 \in Subs
        BY SubsAre
      <4> QED
        BY <4>1, <4>2, <2>6
    <3> QED
      BY <2>1, <2>6, <3>1 DEF FollowsOK, InferFails
  <2>18. SeenOK'
    <3>1. \A t \in Subs, q \in Rounds : phase[t][q] = "done" => phase'[t][q] = "done"
      BY <2>4, <2>6
    <3>2. p = Callback => SeenOK'
      BY <2>1, <2>8, <3>1 DEF SeenOK, InferFails
    <3>3. p = User => SeenOK'
      BY <2>8 DEF SeenOK, WaitPlaces
    <3> QED
      BY <1>2, <3>2, <3>3
  <2>19. CountOK'
    <3> SUFFICES ASSUME "callback" \in usage, "infer" \notin usage, "fail" \notin usage
                 PROVE  history'.round = history'.called
                          + (IF Cb'.at = "calling" THEN 1 ELSE 0)
                          + (IF history'.round # 0 /\ phase'[Length][history'.round]
                                                         \notin {"called", "done", "error"}
                             THEN 1 ELSE 0)
      BY <2>1 DEF CountOK, IsOver
    <3>1. history.round # 0 => IsOver(history.round)
      BY <2>5, <2>10 DEF FollowsOK, InferFails, PhasesOK, Succeeded, InferPlaces
    <3>2. Cb'.at = "calling" <=> Cb.at = "calling"
      BY <1>2, <2>8
    <3>3. phase'[Length][r] \in {"none", "infer"}
      BY <2>2, <2>4, <2>6, FreshRound, SubsAre
    <3>4. phase'[Length][history'.round] \notin {"called", "done", "error"}
      BY <2>3, <3>3
    <3>5. history.round = history.called + (IF Cb.at = "calling" THEN 1 ELSE 0)
      <4>1. history.called \in Nat
        BY <2>2, HistoryIs
      <4> QED
        BY <3>1, <4>1 DEF CountOK
    <3>6. history.called \in Nat /\ history.round \in Nat
      BY <2>2, HistoryIs
    <3> QED
      BY <2>3, <2>11, <3>2, <3>4, <3>5, <3>6 DEF r
  <2> QED
    BY <2>6, <2>7, <2>12, <2>13, <2>14, <2>15, <2>16, <2>17, <2>18, <2>19
<1> QED
  BY <1>4, <1>5

-----------------------------------------------------------------------------
(* A sub-request and its callback                                          *)

\* A sub-request goes on with the task of a round.
LEMMA SubMoves ==
    ASSUME TypeOK, PhasesOK, NEW s \in Subs, NEW r \in Rounds, NEW p \in Phases \ {"none"},
           phase[s][r] # "none", phase' = [phase EXCEPT ![s][r] = p],
           current' = current, usage' = usage, history'.round = history.round,
           \/ history'.failed = history.failed
           \/ /\ history'.failed = history.failed \cup {<<s, r>>}
              /\ phase[s][r] = "infer" /\ "fail" \in usage,
           IsActive(s, r)' => r = history.round,
           IsPassed(s, r) => IsPassed(s, r)',
           p \in {"infer", "done"} => Succeeded(s, r)',
           p = "error" => ~Succeeded(s, r)'
    PROVE  /\ PhasesOK'
           /\ phase' \in [Subs -> [Rounds -> Phases]]
           /\ phase'[s][r] = p
           /\ \A t \in Subs, q \in Rounds : t # s \/ q # r =>
                 /\ phase'[t][q] = phase[t][q]
                 /\ IsActive(t, q)' <=> IsActive(t, q)
                 /\ IsPassed(t, q)' <=> IsPassed(t, q)
                 /\ Succeeded(t, q)' <=> Succeeded(t, q)
<1>1. /\ phase' \in [Subs -> [Rounds -> Phases]] /\ phase'[s][r] = p
      /\ \A t \in Subs, q \in Rounds : t # s \/ q # r => phase'[t][q] = phase[t][q]
  BY PhaseChanges, TypeParts
<1>2. \A t \in Subs, q \in Rounds : t # s \/ q # r => (Succeeded(t, q)' <=> Succeeded(t, q))
  BY DEF Succeeded
<1>3. \A t \in Subs, q \in Rounds : t # s \/ q # r =>
         (IsActive(t, q)' <=> IsActive(t, q)) /\ (IsPassed(t, q)' <=> IsPassed(t, q))
  BY <1>1, <1>2 DEF IsActive, IsPassed
<1>4. PhasesOK'
  <2>1. \A t \in Subs, q \in Rounds : IsActive(t, q)' => q = history.round
    BY <1>3 DEF PhasesOK
  <2>2. \A t \in Subs, q \in Rounds : q > history.round => phase'[t][q] = "none"
    BY <1>1 DEF PhasesOK
  <2>3. \A t \in Subs, q \in Rounds : phase'[t][q] # "none" => q <= current[t]
    BY <1>1 DEF PhasesOK
  <2>4. \A t, u \in Subs, q \in Rounds : phase'[t][q] # "none" /\ u < t => IsPassed(u, q)'
    BY <1>1, <1>3 DEF PhasesOK
  <2>5. \A t \in Subs, q \in Rounds : phase'[t][q] \in {"none", "infer", "done"} => Succeeded(t, q)'
    BY <1>1, <1>2 DEF PhasesOK
  <2>6. \A t \in Subs, q \in Rounds : phase'[t][q] = "error" => ~Succeeded(t, q)'
    BY <1>1, <1>2 DEF PhasesOK
  <2>7. "fail" \notin usage' => history'.failed = {}
    BY DEF PhasesOK
  <2> QED
    BY <2>1, <2>2, <2>3, <2>4, <2>5, <2>6, <2>7 DEF PhasesOK
<1> QED
  BY <1>1, <1>2, <1>3, <1>4

\* The parts that say only what cannot be while a sub-request is active.
LEMMA LessActive ==
    ASSUME Inv, UNCHANGED <<usage, busy, enabled, thread, current>>,
           history'.round = history.round, history'.set = history.set,
           \A t \in Subs, q \in Rounds : IsActive(t, q)' => IsActive(t, q),
           \A t \in Subs, q \in Rounds : phase[t][q] = "done" => phase'[t][q] = "done"
    PROVE  ThreadsOK' /\ StartsOK' /\ WaitsOK' /\ EnabledOK' /\ SeenOK'
<1> USE DEF Inv
<1>1. U' = U /\ Cb' = Cb /\ (Restarts' <=> Restarts) /\ (InferFails' <=> InferFails)
  BY DEF U, Cb, Restarts, InferFails
<1>2. Running' => Running
  BY DEF Running
<1>3. ThreadsOK'
  BY <1>1 DEF ThreadsOK, At
<1>4. StartsOK'
  BY <1>1, <1>2 DEF StartsOK
<1>5. WaitsOK'
  BY <1>1, <1>2 DEF WaitsOK
<1>6. EnabledOK'
  BY <1>1 DEF EnabledOK
<1>7. SeenOK'
  BY <1>1 DEF SeenOK
<1> QED
  BY <1>3, <1>4, <1>5, <1>6, <1>7

LEMMA SubInfersKeeps ==
    ASSUME Inv, NEW s \in Subs, SubInfers(s)
    PROVE  Inv'
<1> USE DEF Inv
<1>1. PICK r \in Rounds, ok \in BOOLEAN :
        /\ ok \/ "fail" \in usage
        /\ phase[s][r] = "infer"
        /\ phase' = [phase EXCEPT ![s][r] = IF enabled[s] THEN "queued"
                                             ELSE IF ok THEN "done" ELSE "error"]
        /\ history' = IF ok THEN history
                            ELSE [history EXCEPT !.failed = @ \cup {<<s, r>>}]
        /\ UNCHANGED <<usage, topology, busy, blobs, current, enabled, thread>>
  BY DEF SubInfers
<1> DEFINE p == IF enabled[s] THEN "queued" ELSE IF ok THEN "done" ELSE "error"
<1>2. /\ p \in {"queued", "done", "error"}
      /\ p = "queued" <=> enabled[s]
      /\ p = "done" => ok /\ ~enabled[s]
      /\ p = "error" => ~ok /\ ~enabled[s]
      /\ phase' = [phase EXCEPT ![s][r] = p]
  BY <1>1, TypeParts
<1> HIDE DEF p
<1>3. history \in Histories
  BY TypeParts
<1>4. /\ history' \in Histories /\ history'.round = history.round
      /\ history'.called = history.called /\ history'.set = history.set
      /\ ok => history'.failed = history.failed
      /\ ~ok => history'.failed = history.failed \cup {<<s, r>>}
  BY <1>1, <1>3 DEF Histories
<1>5. /\ IsActive(s, r) /\ r = history.round /\ Succeeded(s, r) /\ ~IsPassed(s, r)
      /\ \A t \in Subs, q \in Rounds : t # s \/ q # r => ~IsActive(t, q)
  BY <1>1, OneActive DEF IsActive, PhasesOK, IsPassed
<1>6. Succeeded(s, r)' <=> ok
  BY <1>4, <1>5 DEF Succeeded
<1>7. /\ PhasesOK'
      /\ phase' \in [Subs -> [Rounds -> Phases]]
      /\ phase'[s][r] = p
      /\ \A t \in Subs, q \in Rounds : t # s \/ q # r =>
            /\ phase'[t][q] = phase[t][q]
            /\ IsActive(t, q)' <=> IsActive(t, q)
            /\ IsPassed(t, q)' <=> IsPassed(t, q)
            /\ Succeeded(t, q)' <=> Succeeded(t, q)
  <2>1. p \in Phases \ {"none"} /\ phase[s][r] # "none"
    BY <1>1, <1>2 DEF Phases
  <2>2. /\ IsActive(s, r)' => r = history.round
        /\ IsPassed(s, r) => IsPassed(s, r)'
    BY <1>5
  <2>3. /\ p \in {"infer", "done"} => Succeeded(s, r)'
        /\ p = "error" => ~Succeeded(s, r)'
    BY <1>2, <1>6
  <2>4. \/ history'.failed = history.failed
        \/ /\ history'.failed = history.failed \cup {<<s, r>>}
           /\ phase[s][r] = "infer" /\ "fail" \in usage
    BY <1>1, <1>4
  <2> QED
    BY <2>1, <2>2, <2>3, <2>4, <1>1, <1>2, <1>4, SubMoves
<1>8. TypeOK'
  BY <1>1, <1>4, <1>7, TypeParts, TypePartsNext
<1>9. \A t \in Subs, q \in Rounds : IsActive(t, q)' => IsActive(t, q)
  BY <1>5, <1>7
<1>10. \A t \in Subs, q \in Rounds : phase[t][q] = "done" => phase'[t][q] = "done"
  BY <1>1, <1>7
<1>11. ThreadsOK' /\ StartsOK' /\ WaitsOK' /\ EnabledOK' /\ SeenOK'
  BY <1>1, <1>4, <1>9, <1>10, LessActive
<1>12. U' = U /\ Cb' = Cb /\ (InferFails' <=> InferFails)
  BY <1>1 DEF U, Cb, InferFails
<1>13. Running
  BY <1>5 DEF Running
<1>14. InfersOK'
  <2>1. U.at \notin {"inferUpdating", "inferStarting"}
    BY <1>13 DEF StartsOK, InferPlaces
  <2>2. ASSUME U.at = "inferWaiting"
        PROVE  phase'[U.sub][U.round] \in {"infer", "done", "error"}
    <3>1. U.sub \in Subs /\ U.round \in Rounds /\ ~enabled[U.sub]
      BY <2>2, UserIs, TypeParts DEF InfersOK, U, ThreadStates
    <3>2. CASE U.sub = s /\ U.round = r
      BY <3>1, <3>2, <1>2, <1>7
    <3>3. CASE U.sub # s \/ U.round # r
      BY <3>1, <3>3, <2>2, <1>7 DEF InfersOK
    <3> QED
      BY <3>2, <3>3
  <2>3. ASSUME U.at = "inferWaiting", NEW t \in Subs, t > U.sub
        PROVE  phase'[t][U.round] = "none"
    <3>1. U.round \in Rounds /\ phase[t][U.round] = "none"
      BY <2>3 DEF InfersOK
    <3> QED
      BY <3>1, <1>1, <1>7
  <2> QED
    BY <2>1, <2>2, <2>3, <1>1, <1>4, <1>12 DEF InfersOK
<1>15. ASSUME ~InferFails, ~enabled[s]
       PROVE  U.at = "inferWaiting" /\ U.sub = s /\ U.round = r
  BY <1>5, <1>15 DEF EnabledOK, InfersOK
<1>16. FollowsOK'
  <2>1. ASSUME ~InferFails, NEW t \in Subs \ {Length}, NEW q \in Rounds, IsPassed(t, q)'
        PROVE  phase'[t + 1][q] # "none" \/ InferGoesOn(t, q)
    <3>1. CASE t = s /\ q = r
      BY <3>1, <2>1, <1>2, <1>7, <1>15 DEF InferGoesOn, IsPassed
    <3>2. CASE t # s \/ q # r
      <4>1. phase[t + 1][q] # "none" \/ InferGoesOn(t, q)
        BY <3>2, <2>1, <1>7 DEF FollowsOK
      <4>2. t + 1 \in Subs
        BY SubsAre
      <4> QED
        BY <4>1, <4>2, <1>2, <1>7
    <3> QED
      BY <3>1, <3>2
  <2>2. enabled[s] => Running'
    BY <1>2, <1>7 DEF Running, IsActive
  <2>3. \A t, q : InferGoesOn(t, q)' <=> InferGoesOn(t, q)
    BY <1>12 DEF InferGoesOn
  <2> QED
    BY <2>1, <2>2, <2>3, <1>4, <1>5, <1>12, <1>15 DEF FollowsOK
<1>17. CountOK'
  <2> SUFFICES ASSUME "callback" \in usage, "infer" \notin usage, "fail" \notin usage
               PROVE  CountOK'
    BY <1>1 DEF CountOK
  <2>1. enabled[s]
    BY <1>15 DEF ThreadsOK, InferFails, InferPlaces
  <2>2. IsOver(r)' <=> IsOver(r)
    BY <2>1, <1>1, <1>2, <1>7, SubsAre DEF IsOver
  <2>3. IsOver(history.round)' <=> IsOver(history.round)
    BY <2>2, <1>4, <1>5 DEF IsOver
  <2> QED
    BY <2>3, <1>1, <1>4, <1>12 DEF CountOK, IsOver
<1> QED
  BY <1>7, <1>8, <1>11, <1>14, <1>16, <1>17

\* A step of a sub-request that tells nobody of anything.
LEMMA QuietSub ==
    ASSUME Inv, UNCHANGED <<usage, busy, enabled, thread, current>>, history' = history,
           \A t \in Subs, q \in Rounds :
              /\ IsActive(t, q)' <=> IsActive(t, q)
              /\ IsPassed(t, q)' <=> IsPassed(t, q)
              /\ phase'[t][q] = "none" <=> phase[t][q] = "none"
              /\ phase[t][q] \in {"infer", "done", "error"} => phase'[t][q] = phase[t][q]
              /\ phase'[t][q] \in {"called", "done", "error"}
                   <=> phase[t][q] \in {"called", "done", "error"}
    PROVE  /\ ThreadsOK' /\ StartsOK' /\ InfersOK' /\ WaitsOK' /\ EnabledOK'
           /\ FollowsOK' /\ SeenOK' /\ CountOK'
<1> USE DEF Inv
<1>1. U' = U /\ Cb' = Cb /\ (InferFails' <=> InferFails)
  BY DEF U, Cb, InferFails
<1>2. Running' <=> Running
  BY DEF Running
<1>3. ThreadsOK' /\ StartsOK' /\ WaitsOK' /\ EnabledOK' /\ SeenOK'
  BY LessActive
<1>4. U.sub \in Subs
  BY UserIs, TypeParts DEF U, ThreadStates
<1>5. InfersOK'
  <2>1. PICK u \in Subs, q \in 0..MaxRounds : u = U.sub /\ q = U.round
    BY <1>4, UserIs, TypeParts DEF U, ThreadStates
  <2>2. U.at = "inferStarting" =>
           /\ phase'[u][q] = "none"
           /\ \A t \in Subs : t < u => IsPassed(t, q)'
    BY <2>1 DEF InfersOK
  <2>3. U.at = "inferWaiting" =>
           /\ phase'[u][q] \in {"infer", "done", "error"}
           /\ \A t \in Subs : t > u => phase'[t][q] = "none"
    BY <2>1 DEF InfersOK
  <2>4. u = U'.sub /\ q = U'.round /\ U'.at = U.at
    BY <2>1, <1>1
  <2>5. \A t : IsPassed(t, q)' <=> IsPassed(t, U.round)'
    BY <2>4
  <2> QED
    BY <2>1, <2>2, <2>3, <2>4, <2>5, <1>1 DEF InfersOK
<1>6. \A s, r : Succeeded(s, r)' <=> Succeeded(s, r)
  BY DEF Succeeded
<1>7. history.round # 0 => (IsOver(history.round)' <=> IsOver(history.round))
  <2>1. history.round # 0 => history.round \in Rounds
    BY HistoryIs, TypeParts, SubsAre
  <2> QED
    BY <2>1, SubsAre DEF IsOver
<1>8. FollowsOK'
  <2>1. ASSUME ~InferFails, NEW t \in Subs \ {Length}, NEW q \in Rounds, IsPassed(t, q)'
        PROVE  phase'[t + 1][q] # "none" \/ InferGoesOn(t, q)'
    <3>1. phase[t + 1][q] # "none" \/ InferGoesOn(t, q)
      BY <2>1 DEF FollowsOK
    <3>2. t + 1 \in Subs
      BY SubsAre
    <3> QED
      BY <3>1, <3>2, <1>1 DEF InferGoesOn
  <2> QED
    BY <2>1, <1>1, <1>2, <1>6, <1>7 DEF FollowsOK
<1>9. CountOK'
  BY <1>1, <1>7 DEF CountOK
<1> QED
  BY <1>3, <1>5, <1>8, <1>9

LEMMA CallbackBeginsKeeps ==
    ASSUME Inv, NEW s \in Subs, CallbackBegins(s)
    PROVE  Inv'
<1> USE DEF Inv
<1>1. PICK r \in Rounds :
        /\ phase[s][r] = "queued"
        /\ phase' = [phase EXCEPT ![s][r] = "callback"]
        /\ UNCHANGED <<usage, topology, busy, blobs, current, enabled, thread, history>>
  BY DEF CallbackBegins
<1>2. r = history.round
  BY <1>1 DEF PhasesOK, IsActive
<1>3. "callback" \in Phases \ {"none"} /\ phase[s][r] # "none" /\ ~IsPassed(s, r)
  BY <1>1 DEF Phases, IsPassed
<1>4. /\ PhasesOK'
      /\ phase' \in [Subs -> [Rounds -> Phases]]
      /\ phase'[s][r] = "callback"
      /\ \A t \in Subs, q \in Rounds : t # s \/ q # r =>
            /\ phase'[t][q] = phase[t][q]
            /\ IsActive(t, q)' <=> IsActive(t, q)
            /\ IsPassed(t, q)' <=> IsPassed(t, q)
  <2> DEFINE p == "callback"
  <2>1. /\ p \in Phases \ {"none"} /\ phase' = [phase EXCEPT ![s][r] = p]
        /\ p \in {"infer", "done"} => Succeeded(s, r)'
        /\ p = "error" => ~Succeeded(s, r)'
    BY <1>1, <1>3
  <2>2. /\ IsActive(s, r)' => r = history.round
        /\ IsPassed(s, r) => IsPassed(s, r)'
    BY <1>2, <1>3
  <2>3. /\ history'.round = history.round
        /\ \/ history'.failed = history.failed
           \/ /\ history'.failed = history.failed \cup {<<s, r>>}
              /\ phase[s][r] = "infer" /\ "fail" \in usage
    BY <1>1
  <2>4. usage' = usage /\ current' = current /\ phase[s][r] # "none"
    BY <1>1, <1>3
  <2> HIDE DEF p
  <2>5. /\ PhasesOK'
        /\ phase' \in [Subs -> [Rounds -> Phases]]
        /\ phase'[s][r] = p
        /\ \A t \in Subs, q \in Rounds : t # s \/ q # r =>
              /\ phase'[t][q] = phase[t][q]
              /\ IsActive(t, q)' <=> IsActive(t, q)
              /\ IsPassed(t, q)' <=> IsPassed(t, q)
              /\ Succeeded(t, q)' <=> Succeeded(t, q)
    BY <2>1, <2>2, <2>3, <2>4, SubMoves
  <2> QED
    BY <2>5 DEF p
<1>5. TypeOK'
  BY <1>1, <1>4, TypeParts, TypePartsNext
<1>6. IsActive(s, r) /\ IsActive(s, r)' /\ ~IsPassed(s, r)'
  BY <1>1, <1>4 DEF IsActive, IsPassed
<1>7. \A t \in Subs, q \in Rounds :
         /\ IsActive(t, q)' <=> IsActive(t, q)
         /\ IsPassed(t, q)' <=> IsPassed(t, q)
         /\ phase'[t][q] = "none" <=> phase[t][q] = "none"
         /\ phase[t][q] \in {"infer", "done", "error"} => phase'[t][q] = phase[t][q]
         /\ phase'[t][q] \in {"called", "done", "error"}
              <=> phase[t][q] \in {"called", "done", "error"}
  BY <1>1, <1>3, <1>4, <1>6
<1> QED
  BY <1>1, <1>4, <1>5, <1>7, QuietSub

LEMMA TaskEndsKeeps ==
    ASSUME Inv, NEW s \in Subs, TaskEnds(s)
    PROVE  Inv'
<1> USE DEF Inv
<1>1. PICK r \in Rounds :
        /\ phase[s][r] = "called"
        /\ phase' = [phase EXCEPT ![s][r] = Ended(s, r)]
        /\ UNCHANGED <<usage, topology, busy, blobs, current, enabled, thread, history>>
  BY DEF TaskEnds
<1>2. /\ Ended(s, r) \in {"done", "error"}
      /\ Ended(s, r) = "done" <=> Succeeded(s, r)
      /\ Succeeded(s, r)' <=> Succeeded(s, r)
  BY <1>1 DEF Ended, Succeeded
<1>3. Ended(s, r) \in Phases \ {"none"} /\ phase[s][r] # "none"
  BY <1>1, <1>2 DEF Phases
<1>4. phase'[s][r] = Ended(s, r)
  BY <1>1, <1>3, PhaseChanges, TypeParts
<1>5. ~IsActive(s, r) /\ ~IsActive(s, r)' /\ (IsPassed(s, r)' <=> IsPassed(s, r))
  BY <1>1, <1>2, <1>4 DEF IsActive, IsPassed
<1>6. /\ Ended(s, r) \in {"infer", "done"} => Succeeded(s, r)'
      /\ Ended(s, r) = "error" => ~Succeeded(s, r)'
  BY <1>2
<1>7. /\ PhasesOK'
      /\ phase' \in [Subs -> [Rounds -> Phases]]
      /\ \A t \in Subs, q \in Rounds : t # s \/ q # r =>
            /\ phase'[t][q] = phase[t][q]
            /\ IsActive(t, q)' <=> IsActive(t, q)
            /\ IsPassed(t, q)' <=> IsPassed(t, q)
  <2> DEFINE e == Ended(s, r)
  <2>1. /\ e \in Phases \ {"none"} /\ phase' = [phase EXCEPT ![s][r] = e]
        /\ e \in {"infer", "done"} => Succeeded(s, r)'
        /\ e = "error" => ~Succeeded(s, r)'
    BY <1>1, <1>3, <1>6
  <2>2. /\ IsActive(s, r)' => r = history.round
        /\ IsPassed(s, r) => IsPassed(s, r)'
    BY <1>5
  <2>3. /\ history'.round = history.round
        /\ \/ history'.failed = history.failed
           \/ /\ history'.failed = history.failed \cup {<<s, r>>}
              /\ phase[s][r] = "infer" /\ "fail" \in usage
    BY <1>1
  <2>4. usage' = usage /\ current' = current /\ phase[s][r] # "none"
    BY <1>1, <1>3
  <2> HIDE DEF e
  <2>5. /\ PhasesOK'
        /\ phase' \in [Subs -> [Rounds -> Phases]]
        /\ phase'[s][r] = e
        /\ \A t \in Subs, q \in Rounds : t # s \/ q # r =>
              /\ phase'[t][q] = phase[t][q]
              /\ IsActive(t, q)' <=> IsActive(t, q)
              /\ IsPassed(t, q)' <=> IsPassed(t, q)
              /\ Succeeded(t, q)' <=> Succeeded(t, q)
    BY <2>1, <2>2, <2>3, <2>4, SubMoves
  <2> QED
    BY <2>5
<1>8. TypeOK'
  BY <1>1, <1>7, TypeParts, TypePartsNext
<1>9. \A t \in Subs, q \in Rounds :
         /\ IsActive(t, q)' <=> IsActive(t, q)
         /\ IsPassed(t, q)' <=> IsPassed(t, q)
         /\ phase'[t][q] = "none" <=> phase[t][q] = "none"
         /\ phase[t][q] \in {"infer", "done", "error"} => phase'[t][q] = phase[t][q]
         /\ phase'[t][q] \in {"called", "done", "error"}
              <=> phase[t][q] \in {"called", "done", "error"}
  BY <1>1, <1>2, <1>4, <1>5, <1>7
<1> QED
  BY <1>1, <1>7, <1>8, <1>9, QuietSub

\* A client that waits inside Infer() waits for the active sub-request.
LEMMA InferringOne ==
    ASSUME Inv, NEW s \in Subs, NEW r \in Rounds, IsActive(s, r),
           U.at \in StartPlaces \cup InferPlaces
    PROVE  U.at = "inferWaiting" /\ U.sub = s /\ U.round = r /\ phase[s][r] = "infer"
<1> USE DEF Inv
<1>1. Running /\ r = history.round
  BY DEF Running, PhasesOK
<1>2. U.at = "inferWaiting"
  BY <1>1 DEF StartsOK
<1>3. U.sub \in Subs /\ U.round = r
  BY <1>1, <1>2, UserIs, TypeParts DEF InfersOK, U, ThreadStates
<1>4. ~(U.sub < s)
  BY <1>2, <1>3 DEF InfersOK, IsActive
<1>5. ~(s < U.sub)
  BY <1>2, <1>3, OneActive DEF InfersOK
<1>6. U.sub = s
  <2>1. U.sub \in Nat /\ s \in Nat
    BY <1>3, SubsAre
  <2> QED
    BY <2>1, <1>4, <1>5
<1> QED
  BY <1>2, <1>3, <1>6 DEF InfersOK, IsActive

\* The chain ends here: the inference has failed.
LEMMA ChainBreaks ==
    ASSUME Inv, NEW s \in Subs, NEW r \in Rounds, phase[s][r] = "callback",
           ~Succeeded(s, r), phase' = [phase EXCEPT ![s][r] = "called"],
           UNCHANGED <<usage, topology, busy, blobs, current, enabled, thread, history>>
    PROVE  Inv'
<1> USE DEF Inv
<1>1. IsActive(s, r) /\ r = history.round
  BY DEF PhasesOK, IsActive
<1>2. ~Succeeded(s, r)' /\ ~IsPassed(s, r)
  BY DEF Succeeded, IsPassed
<1>3. phase'[s][r] = "called"
  BY PhaseChanges, TypeParts DEF Phases
<1>4. /\ PhasesOK'
      /\ phase' \in [Subs -> [Rounds -> Phases]]
      /\ \A t \in Subs, q \in Rounds : t # s \/ q # r =>
            /\ phase'[t][q] = phase[t][q]
            /\ IsActive(t, q)' <=> IsActive(t, q)
            /\ IsPassed(t, q)' <=> IsPassed(t, q)
            /\ Succeeded(t, q)' <=> Succeeded(t, q)
  <2> DEFINE p == "called"
  <2>1. /\ p \in Phases \ {"none"} /\ phase' = [phase EXCEPT ![s][r] = p]
        /\ p \in {"infer", "done"} => Succeeded(s, r)'
        /\ p = "error" => ~Succeeded(s, r)'
    BY DEF Phases
  <2>2. /\ IsActive(s, r)' => r = history.round
        /\ IsPassed(s, r) => IsPassed(s, r)'
    BY <1>1, <1>2
  <2>3. /\ history'.round = history.round
        /\ \/ history'.failed = history.failed
           \/ /\ history'.failed = history.failed \cup {<<s, r>>}
              /\ phase[s][r] = "infer" /\ "fail" \in usage
    OBVIOUS
  <2>4. usage' = usage /\ current' = current /\ phase[s][r] # "none"
    OBVIOUS
  <2> HIDE DEF p
  <2> QED
    BY <2>1, <2>2, <2>3, <2>4, SubMoves, ZenonT(60)
<1>5. TypeOK'
  BY <1>4, TypeParts, TypePartsNext
<1>6. ~IsActive(s, r)' /\ ~IsPassed(s, r)'
  BY <1>2, <1>3 DEF IsActive, IsPassed
<1>7. ThreadsOK' /\ StartsOK' /\ WaitsOK' /\ EnabledOK' /\ SeenOK'
  <2>1. \A t \in Subs, q \in Rounds : IsActive(t, q)' => IsActive(t, q)
    BY <1>4, <1>6
  <2>2. \A t \in Subs, q \in Rounds : phase[t][q] = "done" => phase'[t][q] = "done"
    BY <1>4
  <2> QED
    BY <2>1, <2>2, LessActive
<1>8. U' = U /\ Cb' = Cb
  BY DEF U, Cb
<1>9. U.at \notin InferPlaces
  BY <1>1, InferringOne
<1>10. InfersOK'
  BY <1>8, <1>9 DEF InfersOK, InferPlaces
<1>11. FollowsOK'
  <2>1. ASSUME ~InferFails, NEW t \in Subs \ {Length}, NEW q \in Rounds, IsPassed(t, q)'
        PROVE  phase'[t + 1][q] # "none"
    <3>1. IsPassed(t, q)
      BY <2>1, <1>4, <1>6
    <3>2. phase[t + 1][q] # "none"
      BY <2>1, <3>1, <1>9 DEF FollowsOK, InferGoesOn, InferPlaces
    <3>3. t + 1 \in Subs
      BY SubsAre
    <3> QED
      BY <3>2, <3>3, <1>3, <1>4
  <2> QED
    BY <2>1, <1>1, <1>2 DEF FollowsOK, InferFails
<1>12. CountOK'
  BY DEF PhasesOK, Succeeded, CountOK
<1> QED
  BY <1>4, <1>5, <1>7, <1>10, <1>11, <1>12

\* The chain goes on: the next sub-request gets the round.
LEMMA ChainGoesOn ==
    ASSUME Inv, NEW s \in Subs, NEW r \in Rounds, s < Length, phase[s][r] = "callback",
           Succeeded(s, r),
           phase' = [phase EXCEPT ![s][r] = "called", ![s + 1][r] = "infer"],
           current' = [current EXCEPT ![s + 1] = r],
           UNCHANGED <<usage, topology, busy, blobs, enabled, thread, history>>
    PROVE  Inv'
<1> USE DEF Inv
<1>1. /\ IsActive(s, r) /\ r = history.round
      /\ \A t \in Subs : t < s => IsPassed(t, r)
      /\ \A t \in Subs : t > s => phase[t][r] = "none"
      /\ \A t \in Subs, q \in Rounds : t # s \/ q # r => ~IsActive(t, q)
  BY OneActive DEF IsActive
<1>2. s + 1 \in Subs /\ s + 1 > s /\ s + 1 # s /\ s + 1 # 1 /\ s \in Nat
  BY SubsAre
<1>3. phase[s + 1][r] = "none"
  BY <1>1, <1>2
<1>4. /\ phase' \in [Subs -> [Rounds -> Phases]]
      /\ phase'[s][r] = "called" /\ phase'[s + 1][r] = "infer"
      /\ \A t \in Subs, q \in Rounds : t \notin {s, s + 1} \/ q # r => phase'[t][q] = phase[t][q]
  <2>1. PICK mid : mid = [phase EXCEPT ![s][r] = "called"]
    OBVIOUS
  <2>2. /\ mid \in [Subs -> [Rounds -> Phases]] /\ mid[s] = [phase[s] EXCEPT ![r] = "called"]
        /\ \A t \in Subs \ {s} : mid[t] = phase[t]
    <3>1. [phase[s] EXCEPT ![r] = "called"] \in [Rounds -> Phases]
      BY TypeParts DEF Phases
    <3>2. phase \in [Subs -> [Rounds -> Phases]]
      BY TypeParts
    <3> QED
      BY <2>1, <3>1, <3>2
  <2>3. phase' = [mid EXCEPT ![s + 1][r] = "infer"]
    BY <2>1
  <2>4. [mid[s + 1] EXCEPT ![r] = "infer"] \in [Rounds -> Phases]
    BY <2>2, <1>2 DEF Phases
  <2>5. /\ phase' \in [Subs -> [Rounds -> Phases]]
        /\ phase'[s + 1] = [mid[s + 1] EXCEPT ![r] = "infer"]
        /\ \A t \in Subs \ {s + 1} : phase'[t] = mid[t]
    BY <2>2, <2>3, <2>4, <1>2, ZenonT(60)
  <2>6. phase[s] \in [Rounds -> Phases] /\ phase[s + 1] \in [Rounds -> Phases]
    BY <1>2, TypeParts
  <2> QED
    BY <2>2, <2>5, <2>6, <1>2
<1>5. /\ current' \in [Subs -> 0..MaxRounds] /\ current'[s + 1] = r
      /\ \A t \in Subs \ {s + 1} : current'[t] = current[t]
  BY <1>2, TypeParts, SubsAre
<1>6. TypeOK'
  BY <1>4, <1>5, TypeParts, TypePartsNext
<1>7. \A t, q : Succeeded(t, q)' <=> Succeeded(t, q)
  BY DEF Succeeded
<1>8. \A t \in Subs, q \in Rounds : IsActive(t, q)' <=> t = s + 1 /\ q = r
  BY <1>1, <1>2, <1>4, ZenonT(60) DEF IsActive
<1>9. \A t \in Subs, q \in Rounds : IsPassed(t, q)' <=> IsPassed(t, q) \/ (t = s /\ q = r)
  BY <1>2, <1>3, <1>4, <1>7 DEF IsPassed
<1>10. Running /\ Running'
  BY <1>1, <1>2, <1>8 DEF Running
<1>11. PhasesOK'
  <2>1. \A t \in Subs, q \in Rounds : IsActive(t, q)' => q = history.round
    BY <1>1, <1>8
  <2>2. \A t \in Subs, q \in Rounds : q > history.round => phase'[t][q] = "none"
    <3> SUFFICES ASSUME NEW t \in Subs, NEW q \in Rounds, q > history.round
                 PROVE  phase'[t][q] = "none"
      OBVIOUS
    <3>1. q # r /\ phase[t][q] = "none"
      BY <1>1, SubsAre DEF PhasesOK
    <3> QED
      BY <3>1, <1>4, ZenonT(60)
  <2>3. \A t \in Subs, q \in Rounds : phase'[t][q] # "none" => q <= current'[t]
    <3> SUFFICES ASSUME NEW t \in Subs, NEW q \in Rounds, phase'[t][q] # "none"
                 PROVE  q <= current'[t]
      OBVIOUS
    <3>1. CASE t = s + 1
      <4>1. q \in Nat /\ r \in Nat
        BY SubsAre
      <4>2. ~(q > history.round)
        BY <2>2
      <4> QED
        BY <3>1, <4>1, <4>2, <1>1, <1>5
    <3>2. CASE t # s + 1
      <4>1. phase[t][q] # "none"
        BY <3>2, <1>4
      <4> QED
        BY <3>2, <4>1, <1>5 DEF PhasesOK
    <3> QED
      BY <3>1, <3>2
  <2>4. current'[1] = history.round
    BY <1>2, <1>5, SubsAre DEF PhasesOK
  <2>5. \A t, u \in Subs, q \in Rounds : phase'[t][q] # "none" /\ u < t => IsPassed(u, q)'
    <3> SUFFICES ASSUME NEW t \in Subs, NEW u \in Subs, NEW q \in Rounds,
                        phase'[t][q] # "none", u < t
                 PROVE  IsPassed(u, q) \/ (u = s /\ q = r)
      BY <1>9
    <3>1. CASE t = s + 1 /\ q = r
      <4>1. u < s \/ u = s
        BY <3>1, SubsAre
      <4> QED
        BY <3>1, <4>1, <1>1
    <3>2. CASE ~(t = s + 1 /\ q = r)
      <4>1. phase[t][q] # "none"
        <5>1. CASE t = s /\ q = r
          BY <5>1
        <5>2. CASE ~(t = s /\ q = r)
          BY <5>2, <3>2, <1>4, ZenonT(60)
        <5> QED
          BY <5>1, <5>2
      <4> QED
        BY <4>1 DEF PhasesOK
    <3> QED
      BY <3>1, <3>2
  <2>6. \A t \in Subs, q \in Rounds : phase'[t][q] \in {"none", "infer", "done"} => Succeeded(t, q)'
    <3> SUFFICES ASSUME NEW t \in Subs, NEW q \in Rounds, phase'[t][q] \in {"none", "infer", "done"}
                 PROVE  Succeeded(t, q)
      BY <1>7
    <3>1. CASE t = s + 1 /\ q = r
      BY <3>1, <1>3 DEF PhasesOK
    <3>2. CASE ~(t = s + 1 /\ q = r)
      <4>1. ~(t = s /\ q = r)
        BY <1>4
      <4>2. phase'[t][q] = phase[t][q]
        BY <3>2, <4>1, <1>4, ZenonT(60)
      <4> QED
        BY <4>2 DEF PhasesOK
    <3> QED
      BY <3>1, <3>2
  <2>7. \A t \in Subs, q \in Rounds : phase'[t][q] = "error" => ~Succeeded(t, q)'
    <3> SUFFICES ASSUME NEW t \in Subs, NEW q \in Rounds, phase'[t][q] = "error"
                 PROVE  ~Succeeded(t, q)
      BY <1>7
    <3>1. ~(t \in {s, s + 1} /\ q = r)
      BY <1>4
    <3>2. phase'[t][q] = phase[t][q]
      BY <3>1, <1>4, ZenonT(60)
    <3> QED
      BY <3>2 DEF PhasesOK
  <2> QED
    BY <2>1, <2>2, <2>3, <2>4, <2>5, <2>6, <2>7, ZenonT(60) DEF PhasesOK
<1>12. U' = U /\ Cb' = Cb /\ (Restarts' <=> Restarts) /\ (InferFails' <=> InferFails)
  BY DEF U, Cb, Restarts, InferFails
<1>13. U.at \notin InferPlaces \cup StartPlaces
  BY <1>1, InferringOne
<1>14. ThreadsOK'
  BY <1>12 DEF ThreadsOK, At
<1>15. StartsOK'
  BY <1>10, <1>12 DEF StartsOK
<1>16. InfersOK'
  BY <1>12, <1>13 DEF InfersOK, InferPlaces
<1>17. WaitsOK'
  <2>1. ASSUME ~Restarts, U.at = "waiting" PROVE U.sub <= s + 1 /\ history.round <= U.round
    <3>1. U.sub <= s /\ history.round <= U.round
      BY <2>1, <1>1 DEF WaitsOK
    <3>2. U.sub \in Nat
      BY UserIs, TypeParts, SubsAre DEF U, ThreadStates
    <3> QED
      BY <3>1, <3>2, <1>2
  <2>2. ASSUME ~Restarts PROVE ~(U.at = "lowering" /\ ~KeepsFlag(U.told))
    BY <2>2, <1>10 DEF WaitsOK
  <2> QED
    BY <2>1, <2>2, <1>8, <1>12 DEF WaitsOK
<1>18. EnabledOK'
  BY <1>12 DEF EnabledOK
<1>19. FollowsOK'
  <2>1. ASSUME ~InferFails, NEW t \in Subs \ {Length}, NEW q \in Rounds, IsPassed(t, q)'
        PROVE  phase'[t + 1][q] # "none"
    <3>1. CASE t = s /\ q = r
      BY <3>1, <1>4
    <3>2. CASE ~(t = s /\ q = r)
      <4>1. phase[t + 1][q] # "none"
        BY <3>2, <2>1, <1>9, <1>13 DEF FollowsOK, InferGoesOn, InferPlaces
      <4>2. t + 1 \in Subs
        BY SubsAre
      <4> QED
        BY <4>1, <4>2, <1>4
    <3> QED
      BY <3>1, <3>2
  <2> QED
    BY <2>1, <1>10, <1>12 DEF FollowsOK
<1>20. SeenOK'
  <2>1. \A t \in Subs, q \in Rounds : phase[t][q] = "done" => phase'[t][q] = "done"
    BY <1>3, <1>4
  <2> QED
    BY <2>1, <1>12 DEF SeenOK
<1>21. CountOK'
  <2>1. phase'[Length][r] \in {"called", "done", "error"}
          <=> phase[Length][r] \in {"called", "done", "error"}
    <3>1. Length # s /\ Length \in Subs
      BY SubsAre
    <3> QED
      BY <3>1, <1>3, <1>4
  <2>2. IsOver(history.round)' <=> IsOver(history.round)
    BY <2>1, <1>1 DEF IsOver
  <2> QED
    BY <2>2, <1>12 DEF CountOK
<1> QED
  BY <1>6, <1>11, <1>14, <1>15, <1>16, <1>17, <1>18, <1>19, <1>20, <1>21

LEMMA CallbackStartsNextKeeps ==
    ASSUME Inv, NEW s \in Subs, CallbackStartsNext(s)
    PROVE  Inv'
<1> USE DEF Inv
<1>1. PICK r \in Rounds :
        /\ s < Length
        /\ phase[s][r] = "callback"
        /\ phase' = [phase EXCEPT ![s][r] = "called",
                                  ![s + 1][r] = IF GoesOn(s, r) THEN "infer" ELSE @]
        /\ current' = [current EXCEPT ![s + 1] = IF GoesOn(s, r) THEN r ELSE @]
        /\ UNCHANGED <<usage, topology, busy, blobs, enabled, thread, history>>
  BY DEF CallbackStartsNext
<1>2. phase \in [Subs -> [Rounds -> Phases]] /\ current \in [Subs -> 0..MaxRounds]
  BY TypeParts
<1>3. s + 1 \in Subs
  BY <1>1, SubsAre
<1>4. CASE Succeeded(s, r)
  <2>1. /\ phase' = [phase EXCEPT ![s][r] = "called", ![s + 1][r] = "infer"]
        /\ current' = [current EXCEPT ![s + 1] = r]
    BY <1>1, <1>4 DEF GoesOn
  <2> QED
    BY <2>1, <1>1, <1>4, ChainGoesOn
<1>5. CASE ~Succeeded(s, r)
  <2>1. current' = current
    BY <1>1, <1>2, <1>3, <1>5 DEF GoesOn
  <2>2. PICK mid : mid = [phase EXCEPT ![s][r] = "called"]
    OBVIOUS
  <2>3. mid \in [Subs -> [Rounds -> Phases]]
    BY <2>2, <1>2, PhaseChanges DEF Phases
  <2>4. phase' = [mid EXCEPT ![s + 1][r] = mid[s + 1][r]]
    <3>1. s + 1 # s /\ mid[s + 1][r] = phase[s + 1][r]
      BY <1>2, <1>3, <2>2, SubsAre
    <3>2. ~GoesOn(s, r)
      BY <1>5 DEF GoesOn
    <3>3. phase' = [[phase EXCEPT ![s][r] = "called"] EXCEPT ![s + 1][r] = phase[s + 1][r]]
      BY <1>1, <3>1, <3>2, <2>2
    <3> QED
      BY <3>1, <3>3, <2>2
  <2>5. phase' = mid
    <3>1. [mid[s + 1] EXCEPT ![r] = mid[s + 1][r]] = mid[s + 1]
      BY <2>3, <1>3
    <3>2. [mid EXCEPT ![s + 1] = mid[s + 1]] = mid
      BY <2>3, <1>3
    <3> QED
      BY <2>4, <3>1, <3>2
  <2> QED
    BY <2>1, <2>2, <2>5, <1>1, <1>5, ChainBreaks
<1> QED
  BY <1>4, <1>5

\* What the callback thread does.
LEMMA CallbackMoves ==
    ASSUME Inv, NEW place \in Places, GoTo(Callback, place)
    PROVE  /\ thread' \in [Threads -> ThreadStates]
           /\ Cb'.at = place /\ U' = U
           /\ \A c \in Clients \ {User} : At(c, "idle")'
BY StarterMoves, UserIs

LEMMA LastCallbackLowersKeeps ==
    ASSUME Inv, LastCallbackLowers
    PROVE  Inv'
<1> USE DEF Inv
<1>1. PICK r \in Rounds :
        /\ phase[Length][r] = "callback"
        /\ phase' = [phase EXCEPT ![Length][r] = "called"]
        /\ busy' = FALSE
        /\ IF CallsUser THEN Move(Callback, "idle", "calling") ELSE UNCHANGED thread
        /\ UNCHANGED <<usage, topology, blobs, current, enabled, history>>
  BY DEF LastCallbackLowers
<1>2. /\ IsActive(Length, r) /\ r = history.round /\ history.round # 0
      /\ \A t \in Subs, q \in Rounds : t # Length \/ q # r => ~IsActive(t, q)
  BY <1>1, OneActive, SubsAre DEF IsActive
<1>3. /\ thread' \in [Threads -> ThreadStates] /\ U' = U
      /\ "callback" \in usage => Cb.at = "idle" /\ Cb'.at = "calling"
      /\ "callback" \notin usage => Cb'.at = Cb.at
      /\ \A c \in Clients \ {User} : At(c, "idle")'
  <2>1. CASE "callback" \in usage
    BY <2>1, <1>1, CallbackMoves DEF CallsUser, Move, At, Cb, Places
  <2>2. CASE "callback" \notin usage
    BY <2>2, <1>1, TypeParts DEF CallsUser, U, Cb, ThreadsOK, At
  <2> QED
    BY <2>1, <2>2
<1>4. /\ PhasesOK'
      /\ phase' \in [Subs -> [Rounds -> Phases]]
      /\ phase'[Length][r] = "called"
      /\ \A t \in Subs, q \in Rounds : t # Length \/ q # r =>
            /\ phase'[t][q] = phase[t][q]
            /\ IsActive(t, q)' <=> IsActive(t, q)
            /\ IsPassed(t, q)' <=> IsPassed(t, q)
            /\ Succeeded(t, q)' <=> Succeeded(t, q)
  <2> DEFINE p == "called"
  <2>1. /\ p \in Phases \ {"none"} /\ phase' = [phase EXCEPT ![Length][r] = p]
        /\ p \in {"infer", "done"} => Succeeded(Length, r)'
        /\ p = "error" => ~Succeeded(Length, r)'
    BY <1>1 DEF Phases
  <2>2. /\ IsActive(Length, r)' => r = history.round
        /\ IsPassed(Length, r) => IsPassed(Length, r)'
    BY <1>1, <1>2 DEF IsPassed
  <2>3. /\ history'.round = history.round
        /\ \/ history'.failed = history.failed
           \/ /\ history'.failed = history.failed \cup {<<Length, r>>}
              /\ phase[Length][r] = "infer" /\ "fail" \in usage
    BY <1>1
  <2>4. usage' = usage /\ current' = current /\ phase[Length][r] # "none" /\ Length \in Subs
    BY <1>1, SubsAre
  <2> HIDE DEF p
  <2>5. /\ PhasesOK'
        /\ phase' \in [Subs -> [Rounds -> Phases]]
        /\ phase'[Length][r] = p
        /\ \A t \in Subs, q \in Rounds : t # Length \/ q # r =>
              /\ phase'[t][q] = phase[t][q]
              /\ IsActive(t, q)' <=> IsActive(t, q)
              /\ IsPassed(t, q)' <=> IsPassed(t, q)
              /\ Succeeded(t, q)' <=> Succeeded(t, q)
    BY <2>1, <2>2, <2>3, <2>4, SubMoves
  <2> QED
    BY <2>5 DEF p
<1>5. TypeOK'
  BY <1>1, <1>3, <1>4, TypeParts, TypePartsNext
<1>6. ~Running'
  BY <1>2, <1>4 DEF Running, IsActive
<1>7. U.at \notin StartPlaces \cup InferPlaces
  BY <1>1, <1>2, InferringOne, SubsAre
<1>8. (Restarts' <=> Restarts) /\ (InferFails' <=> InferFails)
  BY <1>1 DEF Restarts, InferFails
<1>9. ThreadsOK'
  BY <1>1, <1>2, <1>3, <1>7, <1>8 DEF ThreadsOK, CallbackPlaces, StartPlaces
<1>10. StartsOK'
  BY <1>3, <1>6, <1>7 DEF StartsOK
<1>11. InfersOK' /\ WaitsOK'
  <2>1. InfersOK'
    BY <1>3, <1>7 DEF InfersOK, InferPlaces
  <2>2. WaitsOK'
    BY <1>6 DEF WaitsOK, Running
  <2> QED
    BY <2>1, <2>2
<1>12. EnabledOK'
  BY <1>1, <1>3, <1>8 DEF EnabledOK
<1>13. FollowsOK'
  <2>1. ASSUME ~InferFails, NEW t \in Subs \ {Length}, NEW q \in Rounds, IsPassed(t, q)'
        PROVE  phase'[t + 1][q] # "none"
    <3>1. phase[t + 1][q] # "none"
      BY <2>1, <1>4, <1>7 DEF FollowsOK, InferGoesOn, InferPlaces
    <3>2. t + 1 \in Subs
      BY SubsAre
    <3> QED
      BY <3>1, <3>2, <1>4
  <2>2. phase'[Length][history'.round] = "called"
    BY <1>1, <1>2, <1>4
  <2> QED
    BY <2>1, <2>2, <1>8 DEF FollowsOK, IsOver
<1>14. SeenOK'
  <2>1. \A t \in Subs, q \in Rounds : phase[t][q] = "done" => phase'[t][q] = "done"
    BY <1>1, <1>4
  <2> QED
    BY <2>1, <1>3, <1>8 DEF SeenOK
<1>15. CountOK'
  <2>1. phase[Length][history.round] = "callback" /\ phase'[Length][history'.round] = "called"
    BY <1>1, <1>2, <1>4
  <2>2. history.called \in Nat /\ history.round \in Nat
    BY HistoryIs, TypeParts
  <2> QED
    BY <2>1, <2>2, <1>1, <1>2, <1>3 DEF CountOK, IsOver
<1> QED
  BY <1>4, <1>5, <1>9, <1>10, <1>11, <1>12, <1>13, <1>14, <1>15

LEMMA UserCallbackKeeps ==
    ASSUME Inv, UserCallback
    PROVE  Inv'
<1> USE DEF Inv
<1>1. /\ Cb.at = "calling" /\ GoTo(Callback, "inCallback")
      /\ history' = [history EXCEPT !.called = @ + 1]
      /\ UNCHANGED <<usage, topology, busy, blobs, phase, current, enabled>>
  BY DEF UserCallback, Move, At, Cb
<1>2. /\ thread' \in [Threads -> ThreadStates] /\ Cb'.at = "inCallback" /\ U' = U
      /\ \A c \in Clients \ {User} : At(c, "idle")'
  BY <1>1, CallbackMoves DEF Places
<1>3. history \in Histories
  BY TypeParts
<1>4. /\ history' \in Histories /\ history'.round = history.round
      /\ history'.failed = history.failed /\ history'.set = history.set
      /\ history'.called = history.called + 1
  BY <1>1, <1>3 DEF Histories
<1>5. SamePhases
  BY <1>1, <1>4 DEF SamePhases
<1>6. TypeOK'
  BY <1>1, <1>2, <1>4, TypeParts, TypePartsNext
<1>7. PhasesOK'
  BY <1>5, SamePhasesKeep
<1>8. ThreadsOK'
  BY <1>1, <1>2, <1>4 DEF ThreadsOK, Restarts, CallbackPlaces, StartPlaces
<1>9. StartsOK'
  BY <1>1, <1>2, <1>5, SamePhasesKeep DEF StartsOK, StartPlaces
<1>10. WaitsOK' /\ SeenOK'
  BY <1>2, <1>5, OutsideWait
<1>11. InfersOK' /\ EnabledOK'
  <2>1. InfersOK'
    BY <1>1, <1>2, <1>5, SamePhasesKeep DEF InfersOK, SamePhases
  <2>2. EnabledOK'
    BY <1>1, <1>2, <1>5, SamePhasesKeep DEF EnabledOK
  <2> QED
    BY <2>1, <2>2
<1>12. FollowsOK'
  <2>1. \A s, r : InferGoesOn(s, r)' <=> InferGoesOn(s, r)
    BY <1>2 DEF InferGoesOn
  <2> QED
    BY <2>1, <1>2, <1>5, SamePhasesKeep DEF FollowsOK, SamePhases
<1>13. CountOK'
  <2>1. history.called \in Nat /\ history.round \in Nat
    BY <1>3, HistoryIs
  <2>2. IsOver(history.round)' <=> IsOver(history.round)
    BY <1>1, <1>4 DEF IsOver
  <2> QED
    BY <2>1, <2>2, <1>1, <1>2, <1>4 DEF CountOK
<1> QED
  BY <1>6, <1>7, <1>8, <1>9, <1>10, <1>11, <1>12, <1>13

LEMMA CallbackReturnsKeeps ==
    ASSUME Inv, CallbackReturns
    PROVE  Inv'
<1> USE DEF Inv
<1>1. /\ Cb.at \in {"inCallback", "calledBack"} /\ GoTo(Callback, "idle")
      /\ UNCHANGED <<usage, topology, busy, blobs, phase, current, enabled, history>>
  BY DEF CallbackReturns, At, Cb
<1>2. /\ thread' \in [Threads -> ThreadStates] /\ Cb'.at = "idle" /\ U' = U
      /\ \A c \in Clients \ {User} : At(c, "idle")'
  BY <1>1, CallbackMoves DEF Places
<1>3. SamePhases
  BY <1>1 DEF SamePhases
<1>4. TypeOK'
  BY <1>1, <1>2, TypeParts, TypePartsNext
<1>5. ThreadsOK'
  BY <1>1, <1>2 DEF ThreadsOK, Restarts, CallbackPlaces, StartPlaces
<1>6. StartsOK'
  BY <1>1, <1>2, <1>3, SamePhasesKeep DEF StartsOK, StartPlaces
<1>7. PhasesOK' /\ InfersOK' /\ EnabledOK' /\ FollowsOK' /\ CountOK'
  BY <1>1, <1>2, <1>3, OutsideInfer
<1>8. WaitsOK' /\ SeenOK'
  BY <1>2, <1>3, OutsideWait
<1> QED
  BY <1>4, <1>5, <1>6, <1>7, <1>8

-----------------------------------------------------------------------------
(* Wait()                                                                  *)

\* What the client does with its locals.
LEMMA UserChanges ==
    ASSUME Inv, NEW t \in ThreadStates, thread' = [thread EXCEPT ![User] = t]
    PROVE  /\ thread' \in [Threads -> ThreadStates]
           /\ U' = t /\ Cb' = Cb
           /\ \A c \in Clients \ {User} : At(c, "idle")'
<1>1. thread \in [Threads -> ThreadStates] /\ User \in Threads
  BY TypeParts, UserIs DEF Inv
<1>2. thread' \in [Threads -> ThreadStates] /\ thread'[User] = t
  BY <1>1
<1>3. \A q \in Threads \ {User} : thread'[q] = thread[q]
  BY <1>1
<1>4. \A c \in (Clients \ {User}) \cup {Callback} : c \in Threads \ {User}
  BY UserIs
<1> QED
  BY <1>2, <1>3, <1>4 DEF Inv, ThreadsOK, At, U, Cb

\* A step of Wait() that leaves the flag alone.
LEMMA WaitMoves ==
    ASSUME Inv, NEW t \in ThreadStates, thread' = [thread EXCEPT ![User] = t],
           UNCHANGED <<usage, topology, busy, blobs, phase, current, enabled, history>>,
           "wait" \in usage, U.at \in {"idle"} \cup WaitPlaces, t.at \in WaitPlaces
    PROVE  /\ SamePhases /\ U' = t /\ TypeOK' /\ PhasesOK' /\ ThreadsOK' /\ StartsOK'
           /\ InfersOK' /\ EnabledOK' /\ FollowsOK' /\ CountOK'
<1> USE DEF Inv
<1>1. /\ thread' \in [Threads -> ThreadStates]
      /\ U' = t /\ Cb' = Cb
      /\ \A c \in Clients \ {User} : At(c, "idle")'
  BY UserChanges
<1>2. SamePhases
  BY DEF SamePhases
<1>3. TypeOK'
  BY <1>1, TypeParts, TypePartsNext
<1>4. ThreadsOK'
  BY <1>1 DEF ThreadsOK, Restarts, UserPlaces, StartPlaces, InferPlaces, WaitPlaces
<1>5. StartsOK'
  BY <1>1, <1>2, SamePhasesKeep DEF StartsOK, StartPlaces, InferPlaces, WaitPlaces
<1>6. PhasesOK' /\ InfersOK' /\ EnabledOK' /\ FollowsOK' /\ CountOK'
  BY <1>1, <1>2, OutsideInfer DEF InferPlaces, WaitPlaces
<1> QED
  BY <1>1, <1>2, <1>3, <1>4, <1>5, <1>6

LEMMA WaitBeginKeeps ==
    ASSUME Inv, NEW c \in Clients, NEW mode \in Modes, WaitBegin(c, mode)
    PROVE  Inv'
<1> USE DEF Inv
<1>1. c = User /\ U.at = "idle" /\ "wait" \in usage
  BY UserIs DEF WaitBegin, ThreadsOK, U, At
<1>2. U \in ThreadStates /\ history.round \in 0..MaxRounds /\ current[1] = history.round
  BY TypeParts, HistoryIs, UserIs DEF U, PhasesOK
<1> DEFINE t == [U EXCEPT !.at = "waiting", !.mode = mode, !.sub = 1,
                          !.round = current[1], !.asked = history.round]
<1>3. /\ t \in ThreadStates /\ t.at = "waiting" /\ t.sub = 1
      /\ t.round = history.round /\ t.asked = history.round
  BY <1>2, SubsAre DEF ThreadStates, Places
<1>4. thread' = [thread EXCEPT ![User] = t]
  BY <1>1 DEF WaitBegin, U
<1> HIDE DEF t
<1>5. /\ SamePhases /\ U' = t /\ TypeOK' /\ PhasesOK' /\ ThreadsOK' /\ StartsOK'
      /\ InfersOK' /\ EnabledOK' /\ FollowsOK' /\ CountOK'
  BY <1>1, <1>3, <1>4, WaitMoves DEF WaitBegin, WaitPlaces
<1>6. WaitsOK'
  BY <1>2, <1>3, <1>5, SubsAre DEF WaitsOK, SamePhases
<1>7. SeenOK'
  BY <1>2, <1>3, <1>5, SubsAre DEF SeenOK
<1> QED
  BY <1>5, <1>6, <1>7

LEMMA WaitSubKeeps ==
    ASSUME Inv, NEW c \in Clients, WaitSub(c)
    PROVE  Inv'
<1> USE DEF Inv
<1>1. c = User /\ U.at = "waiting"
  BY UserIs DEF WaitSub, ThreadsOK, U, At
<1>2. /\ U \in ThreadStates /\ U.sub \in Subs /\ U.round \in 0..MaxRounds
      /\ U.asked \in 0..MaxRounds /\ "wait" \in usage
      /\ history.round \in Nat /\ MaxRounds \in Nat
  BY <1>1, TypeParts, HistoryIs, UserIs, HeteroAssumption
  DEF U, ThreadsOK, ThreadStates, WaitPlaces
<1> DEFINE status == WaitStatus(U.sub, U.round)
<1>3. /\ status \in {"OK", "GENERAL_ERROR", "INFER_NOT_STARTED", "RESULT_NOT_READY"}
      /\ status = "OK" => U.round # 0 /\ phase[U.sub][U.round] = "done"
      /\ status = "GENERAL_ERROR" => U.round # 0 /\ phase[U.sub][U.round] = "error"
      /\ status = "INFER_NOT_STARTED" => U.round = 0
  BY DEF WaitStatus
<1>4. /\ UNCHANGED <<usage, topology, busy, blobs, phase, current, enabled, history>>
      /\ \/ /\ status = "OK" /\ U.sub < Length
            /\ thread' = [thread EXCEPT ![User].sub = U.sub + 1, ![User].round = current[U.sub + 1]]
         \/ \E told \in Told :
              /\ told = "RESULT_NOT_READY" \/ (told = status /\ (status # "OK" \/ U.sub = Length))
              /\ thread' = [thread EXCEPT ![User].at = "lowering", ![User].told = told]
  BY <1>1, <1>3 DEF WaitSub, U, Told
<1> HIDE DEF status
<1>5. CASE /\ status = "OK" /\ U.sub < Length
           /\ thread' = [thread EXCEPT ![User].sub = U.sub + 1, ![User].round = current[U.sub + 1]]
  <2>1. U.sub + 1 \in Subs /\ current[U.sub + 1] \in 0..MaxRounds
    BY <1>2, <1>5, SubsAre, TypeParts
  <2> DEFINE t == [U EXCEPT !.sub = U.sub + 1, !.round = current[U.sub + 1]]
  <2>2. /\ t \in ThreadStates /\ t.at = "waiting" /\ t.sub = U.sub + 1
        /\ t.round = current[U.sub + 1] /\ t.asked = U.asked
    BY <1>1, <1>2, <2>1 DEF ThreadStates
  <2>3. thread' = [thread EXCEPT ![User] = t]
    BY <1>5 DEF U
  <2> HIDE DEF t
  <2>4. /\ SamePhases /\ U' = t /\ TypeOK' /\ PhasesOK' /\ ThreadsOK' /\ StartsOK'
        /\ InfersOK' /\ EnabledOK' /\ FollowsOK' /\ CountOK'
    BY <1>1, <1>2, <1>4, <2>2, <2>3, WaitMoves DEF WaitPlaces
  <2>5. U.round \in Rounds /\ phase[U.sub][U.round] = "done"
    BY <1>2, <1>3, <1>5, SubsAre
  <2>6. WaitsOK'
    <3> SUFFICES ASSUME ~Restarts, NEW s \in Subs, NEW r \in Rounds, IsActive(s, r)
                 PROVE  U.sub + 1 <= s /\ history.round <= current[U.sub + 1]
      BY <1>4, <2>2, <2>4 DEF WaitsOK, SamePhases, Restarts, IsActive
    <3>1. U.sub <= s /\ history.round <= U.round /\ r = history.round
      BY <1>1 DEF WaitsOK, PhasesOK
    <3>2. U.round <= history.round
      BY <1>2, <2>5 DEF PhasesOK
    <3>3. U.round = r
      BY <3>1, <3>2, <1>2
    <3>4. s # U.sub
      BY <2>5, <3>3 DEF IsActive
    <3>5. /\ s \in Nat /\ U.sub \in Nat /\ U.sub + 1 <= s
          /\ s # U.sub + 1 => U.sub + 1 < s
      <4>1. s \in Nat /\ U.sub \in Nat
        BY <1>2, SubsAre
      <4> QED
        BY <4>1, <3>1, <3>4
    <3>6. phase[U.sub + 1][r] # "none"
      <4>1. CASE s = U.sub + 1
        BY <4>1 DEF IsActive
      <4>2. CASE s # U.sub + 1
        <5>1. U.sub + 1 < s
          BY <3>5, <4>2
        <5>2. IsPassed(U.sub + 1, r)
          BY <2>1, <5>1 DEF IsActive, PhasesOK
        <5> QED
          BY <5>2 DEF IsPassed
      <4> QED
        BY <4>1, <4>2
    <3> QED
      BY <2>1, <3>1, <3>5, <3>6 DEF PhasesOK
  <2>7. SeenOK'
    <3> SUFFICES ASSUME ~InferFails
                 PROVE  /\ U.asked <= current[U.sub + 1]
                        /\ \A s \in Subs : s < U.sub + 1 =>
                              \E r \in Rounds : U.asked <= r /\ phase[s][r] = "done"
      BY <1>4, <2>2, <2>4 DEF SeenOK, InferFails
    <3>1. U.asked <= U.round
      BY <1>1, <1>3, <1>5 DEF SeenOK, WaitPlaces
    <3>2. IsPassed(U.sub, U.round) /\ U.sub \in Subs \ {Length}
      BY <1>2, <1>5, <2>5, SubsAre DEF IsPassed, PhasesOK
    <3>3. phase[U.sub + 1][U.round] # "none"
      BY <1>1, <2>5, <3>2 DEF FollowsOK, InferGoesOn
    <3>4. U.round <= current[U.sub + 1]
      BY <2>1, <2>5, <3>3 DEF PhasesOK
    <3>5. U.asked <= current[U.sub + 1]
      BY <1>2, <2>1, <3>1, <3>4
    <3>6. ASSUME NEW s \in Subs, s < U.sub + 1
          PROVE  \E r \in Rounds : U.asked <= r /\ phase[s][r] = "done"
      <4>1. s < U.sub \/ s = U.sub
        <5>1. s \in Nat /\ U.sub \in Nat
          BY <1>2, SubsAre
        <5> QED
          BY <5>1, <3>6
      <4> QED
        BY <4>1, <1>1, <2>5, <3>1 DEF SeenOK
    <3> QED
      BY <3>5, <3>6
  <2> QED
    BY <2>4, <2>6, <2>7
<1>6. CASE \E told \in Told :
              /\ told = "RESULT_NOT_READY" \/ (told = status /\ (status # "OK" \/ U.sub = Length))
              /\ thread' = [thread EXCEPT ![User].at = "lowering", ![User].told = told]
  <2>1. PICK told \in Told :
              /\ told = "RESULT_NOT_READY" \/ (told = status /\ (status # "OK" \/ U.sub = Length))
              /\ thread' = [thread EXCEPT ![User].at = "lowering", ![User].told = told]
    BY <1>6
  <2> DEFINE t == [U EXCEPT !.at = "lowering", !.told = told]
  <2>2. /\ t \in ThreadStates /\ t.at = "lowering" /\ t.told = told
        /\ t.round = U.round /\ t.asked = U.asked
    BY <1>2 DEF ThreadStates, Places
  <2>3. thread' = [thread EXCEPT ![User] = t]
    BY <2>1 DEF U
  <2> HIDE DEF t
  <2>4. /\ SamePhases /\ U' = t /\ TypeOK' /\ PhasesOK' /\ ThreadsOK' /\ StartsOK'
        /\ InfersOK' /\ EnabledOK' /\ FollowsOK' /\ CountOK'
    BY <1>1, <1>2, <1>4, <2>2, <2>3, WaitMoves DEF WaitPlaces
  <2>5. WaitsOK'
    <3> SUFFICES ASSUME ~Restarts, told # "RESULT_NOT_READY",
                        NEW s \in Subs, NEW r \in Rounds, IsActive(s, r)
                 PROVE  FALSE
      BY <1>4, <2>2, <2>4, SamePhasesKeep DEF WaitsOK, KeepsFlag, Running
    <3>1. /\ U.sub <= s /\ history.round <= U.round /\ r = history.round
          /\ r # 0
      BY <1>1, SubsAre DEF WaitsOK, PhasesOK
    <3>2. U.round # 0 /\ phase[U.sub][U.round] \in {"done", "error"}
      BY <1>2, <1>3, <2>1, <3>1
    <3>3. U.round \in Rounds
      BY <1>2, <3>2, SubsAre
    <3>4. U.round <= history.round
      BY <1>2, <3>2, <3>3 DEF PhasesOK
    <3>5. U.round = r
      BY <3>1, <3>4, <1>2
    <3>6. s # U.sub
      BY <3>2, <3>5 DEF IsActive
    <3>7. U.sub < s
      <4>1. s \in Nat /\ U.sub \in Nat
        BY <1>2, SubsAre
      <4> QED
        BY <4>1, <3>1, <3>6
    <3>8. IsPassed(U.sub, r)
      BY <1>2, <3>7 DEF IsActive, PhasesOK
    <3>9. status = "OK" /\ U.sub = Length
      BY <1>2, <1>3, <2>1, <3>2, <3>3, <3>5, <3>8 DEF IsPassed
    <3> QED
      BY <3>7, <3>9, SubsAre
  <2>6. SeenOK'
    <3>1. ASSUME ~InferFails, told = "OK", NEW s \in Subs
          PROVE  \E r \in Rounds : U.asked <= r /\ phase[s][r] = "done"
      <4>1. status = "OK" /\ U.sub = Length
        BY <2>1, <3>1
      <4>2. U.asked <= U.round /\ U.round \in Rounds /\ phase[Length][U.round] = "done"
        BY <1>1, <1>2, <1>3, <3>1, <4>1, SubsAre DEF SeenOK, WaitPlaces
      <4>3. s < U.sub \/ s = Length
        BY <4>1, SubsAre
      <4> QED
        BY <1>1, <3>1, <4>2, <4>3 DEF SeenOK
    <3> QED
      BY <3>1, <1>1, <1>4, <2>2, <2>4 DEF SeenOK, InferFails, WaitPlaces
  <2> QED
    BY <2>4, <2>5, <2>6
<1> QED
  BY <1>4, <1>5, <1>6

LEMMA WaitLowersKeeps ==
    ASSUME Inv, NEW c \in Clients, WaitLowers(c)
    PROVE  Inv'
<1> USE DEF Inv
<1>1. /\ c = User /\ U.at = "lowering" /\ thread' = [thread EXCEPT ![User] = Idle]
      /\ busy' = (busy /\ KeepsFlag(U.told))
      /\ UNCHANGED <<usage, topology, blobs, phase, current, enabled, history>>
  <2>1. c = User
    BY DEF WaitLowers, ThreadsOK, At
  <2> QED
    BY <2>1, Zenon DEF WaitLowers, U, At
<1>2. Idle \in ThreadStates /\ Idle.at = "idle"
  BY SubsAre, HeteroAssumption DEF Idle, ThreadStates, Places, Told, Modes
<1>3. /\ thread' \in [Threads -> ThreadStates]
      /\ U' = Idle /\ Cb' = Cb
      /\ \A d \in Clients \ {User} : At(d, "idle")'
  BY <1>1, <1>2, UserChanges
<1>4. SamePhases
  BY <1>1 DEF SamePhases
<1>5. TypeOK'
  BY <1>1, <1>3, TypeParts, TypePartsNext DEF KeepsFlag
<1>6. ThreadsOK'
  BY <1>1, <1>2, <1>3 DEF ThreadsOK, Restarts, UserPlaces, StartPlaces, InferPlaces, WaitPlaces
<1>7. StartsOK'
  <2>1. Running /\ ~Restarts => busy /\ KeepsFlag(U.told)
    BY <1>1 DEF StartsOK, WaitsOK
  <2> QED
    BY <2>1, <1>1, <1>2, <1>3, <1>4, SamePhasesKeep DEF StartsOK, StartPlaces, InferPlaces
<1>8. PhasesOK' /\ InfersOK' /\ EnabledOK' /\ FollowsOK' /\ CountOK'
  BY <1>1, <1>2, <1>3, <1>4, OutsideInfer DEF InferPlaces
<1>9. WaitsOK' /\ SeenOK'
  BY <1>2, <1>3, <1>4, OutsideWait DEF WaitPlaces
<1> QED
  BY <1>5, <1>6, <1>7, <1>8, <1>9

-----------------------------------------------------------------------------
(* Infer()                                                                 *)

\* A step of Infer() that leaves the phases alone.
LEMMA InferMoves ==
    ASSUME Inv, NEW t \in ThreadStates, thread' = [thread EXCEPT ![User] = t],
           SamePhases, history'.set = history.set,
           "infer" \in usage, U.at \in {"idle"} \cup InferPlaces, t.at \in {"idle"} \cup InferPlaces
    PROVE  /\ U' = t /\ Cb' = Cb /\ thread' \in [Threads -> ThreadStates]
           /\ PhasesOK' /\ ThreadsOK' /\ WaitsOK' /\ SeenOK' /\ CountOK'
<1> USE DEF Inv
<1>1. /\ thread' \in [Threads -> ThreadStates]
      /\ U' = t /\ Cb' = Cb
      /\ \A c \in Clients \ {User} : At(c, "idle")'
  BY UserChanges
<1>2. ThreadsOK'
  BY <1>1 DEF ThreadsOK, Restarts, UserPlaces, StartPlaces, InferPlaces, WaitPlaces, SamePhases
<1>3. WaitsOK' /\ SeenOK'
  BY <1>1, OutsideWait DEF WaitPlaces, InferPlaces
<1>4. CountOK'
  BY DEF CountOK, SamePhases
<1> QED
  BY <1>1, <1>2, <1>3, <1>4, SamePhasesKeep

LEMMA InferBeginKeeps ==
    ASSUME Inv, NEW c \in Clients, InferBegin(c)
    PROVE  Inv'
<1> USE DEF Inv
<1>1. /\ c = User /\ U.at = "idle" /\ history.round < MaxRounds /\ "infer" \in usage
      /\ Restarts => history.round = 0
  BY UserIs DEF InferBegin, MayStart, ThreadsOK, U, At, Restarts
<1>2. /\ U \in ThreadStates /\ history.round + 1 \in 0..MaxRounds /\ history.round + 1 \in Rounds
      /\ history.round \in Nat
  BY <1>1, TypeParts, HistoryIs, UserIs, SubsAre DEF U, Rounds
<1>3. ~Running
  BY <1>1, RunningHasRound DEF InferBegin, StartsOK
<1>4. Restarts => Cb.at = "idle"
  BY <1>1 DEF ThreadsOK
<1> DEFINE t == [U EXCEPT !.at = "inferUpdating", !.sub = 1, !.round = history.round + 1]
<1>5. /\ t \in ThreadStates /\ t.at = "inferUpdating" /\ t.sub = 1
      /\ t.round = history.round + 1
  BY <1>2, SubsAre DEF ThreadStates, Places
<1>6. thread' = [thread EXCEPT ![User] = t]
  BY <1>1 DEF InferBegin, U
<1> HIDE DEF t
<1>7. /\ SamePhases /\ busy' = TRUE
      /\ UNCHANGED <<usage, topology, blobs, phase, current, enabled, history>>
  BY DEF InferBegin, SamePhases
<1>8. /\ U' = t /\ Cb' = Cb /\ thread' \in [Threads -> ThreadStates]
      /\ PhasesOK' /\ ThreadsOK' /\ WaitsOK' /\ SeenOK' /\ CountOK'
  BY <1>1, <1>5, <1>6, <1>7, InferMoves DEF InferPlaces
<1>9. TypeOK'
  BY <1>7, <1>8, TypeParts, TypePartsNext
<1>10. StartsOK'
  BY <1>3, <1>4, <1>5, <1>7, <1>8, SamePhasesKeep DEF StartsOK
<1>11. InfersOK'
  BY <1>2, <1>5, <1>7, <1>8 DEF InfersOK
<1>12. EnabledOK'
  BY <1>1, <1>7, SamePhasesKeep DEF EnabledOK
<1>13. FollowsOK'
  <2>1. \A s, r : ~InferGoesOn(s, r)
    BY <1>1 DEF InferGoesOn
  <2> QED
    BY <2>1, <1>1, <1>7, SamePhasesKeep DEF FollowsOK
<1> QED
  BY <1>8, <1>9, <1>10, <1>11, <1>12, <1>13

LEMMA InferUpdatesKeeps ==
    ASSUME Inv, NEW c \in Clients, InferUpdates(c)
    PROVE  Inv'
<1> USE DEF Inv
<1>1. c = User /\ U.at = "inferUpdating" /\ GoTo(User, "inferStarting")
  BY UserIs DEF InferUpdates, ThreadsOK, U, At, Move
<1>2. /\ U \in ThreadStates /\ "infer" \in usage /\ U.sub = 1
      /\ U.round \in Rounds /\ U.round = history.round + 1 /\ history.round \in Nat
  BY <1>1, TypeParts, HistoryIs, UserIs DEF U, ThreadsOK, InfersOK, InferPlaces
<1> DEFINE t == [U EXCEPT !.at = "inferStarting"]
<1>3. /\ t \in ThreadStates /\ t.at = "inferStarting" /\ t.sub = 1 /\ t.round = U.round
  BY <1>2 DEF ThreadStates, Places
<1>4. thread' = [thread EXCEPT ![User] = t]
  BY <1>1 DEF GoTo, U
<1> HIDE DEF t
<1>5. /\ blobs' \in BlobStates /\ history' \in Histories
      /\ history'.round = history.round /\ history'.failed = history.failed
      /\ history'.called = history.called /\ history'.set = history.set
      /\ UNCHANGED <<usage, topology, busy, phase, current, enabled>>
  BY UpdateTypes DEF InferUpdates
<1>6. SamePhases
  BY <1>5 DEF SamePhases
<1>7. /\ U' = t /\ Cb' = Cb /\ thread' \in [Threads -> ThreadStates]
      /\ PhasesOK' /\ ThreadsOK' /\ WaitsOK' /\ SeenOK' /\ CountOK'
  BY <1>1, <1>2, <1>3, <1>4, <1>5, <1>6, InferMoves DEF InferPlaces
<1>8. TypeOK'
  BY <1>5, <1>7, TypeParts, TypePartsNext
<1>9. StartsOK'
  BY <1>1, <1>3, <1>5, <1>6, <1>7, SamePhasesKeep DEF StartsOK, InferPlaces
<1>10. InfersOK'
  <2>1. phase[1][U.round] = "none"
    <3>1. U.round > history.round /\ 1 \in Subs
      BY <1>2, SubsAre
    <3> QED
      BY <1>2, <3>1, FreshRound
  <2>2. \A s \in Subs : ~(s < 1)
    BY SubsAre
  <2> QED
    BY <2>1, <2>2, <1>2, <1>3, <1>5, <1>7 DEF InfersOK
<1>11. EnabledOK'
  BY <1>1, <1>5, <1>6, SamePhasesKeep DEF EnabledOK
<1>12. FollowsOK'
  <2>1. \A s, r : ~InferGoesOn(s, r)
    BY <1>1 DEF InferGoesOn
  <2> QED
    BY <2>1, <1>1, <1>5, <1>6, SamePhasesKeep DEF FollowsOK
<1> QED
  BY <1>7, <1>8, <1>9, <1>10, <1>11, <1>12

LEMMA InferStartsKeeps ==
    ASSUME Inv, NEW c \in Clients, InferStarts(c)
    PROVE  Inv'
<1> USE DEF Inv
<1>1. c = User /\ U.at = "inferStarting" /\ GoTo(User, "inferWaiting")
  BY UserIs DEF InferStarts, ThreadsOK, U, At, Move
<1>2. PICK s \in Subs, r \in Rounds :
        /\ s = U.sub /\ r = U.round
        /\ r = IF s = 1 THEN history.round + 1 ELSE history.round
        /\ phase[s][r] = "none"
        /\ \A t \in Subs : t < s => IsPassed(t, r)
  BY <1>1, TypeParts, UserIs DEF U, InfersOK, ThreadStates
<1>3. /\ U \in ThreadStates /\ "infer" \in usage /\ ~Running /\ history \in Histories
      /\ Restarts => Cb.at = "idle"
      /\ busy \/ Restarts
  BY <1>1, TypeParts, UserIs DEF U, ThreadsOK, StartsOK, InferPlaces
<1>4. /\ enabled' = [enabled EXCEPT ![s] = FALSE]
      /\ StartSub(s, r)
      /\ history' = IF s = 1 THEN [history EXCEPT !.round = @ + 1] ELSE history
      /\ UNCHANGED <<usage, topology, busy, blobs>>
  BY <1>1, <1>2 DEF InferStarts, U
<1>5. /\ history' \in Histories /\ history'.round = r /\ history'.failed = history.failed
      /\ history'.called = history.called /\ history'.set = history.set
  BY <1>2, <1>3, <1>4, SubsAre DEF Histories
<1>6. /\ PhasesOK'
      /\ phase' \in [Subs -> [Rounds -> Phases]]
      /\ current' \in [Subs -> 0..MaxRounds]
      /\ phase'[s][r] = "infer"
      /\ \A t \in Subs, q \in Rounds : t # s \/ q # r => phase'[t][q] = phase[t][q]
      /\ \A t \in Subs, q \in Rounds : IsPassed(t, q)' <=> IsPassed(t, q)
      /\ Running'
  BY <1>2, <1>3, <1>4, <1>5, SubStarts
<1> DEFINE u == [U EXCEPT !.at = "inferWaiting"]
<1>7. u \in ThreadStates /\ u.at = "inferWaiting" /\ u.sub = s /\ u.round = r
  BY <1>2, <1>3 DEF ThreadStates, Places
<1>8. thread' = [thread EXCEPT ![User] = u]
  BY <1>1 DEF GoTo, U
<1> HIDE DEF u
<1>9. /\ thread' \in [Threads -> ThreadStates]
      /\ U' = u /\ Cb' = Cb
      /\ \A d \in Clients \ {User} : At(d, "idle")'
  BY <1>7, <1>8, UserChanges
<1>10. /\ enabled' \in [Subs -> BOOLEAN] /\ ~enabled'[s]
       /\ \A t \in Subs \ {s} : enabled'[t] = enabled[t]
  BY <1>4, TypeParts
<1>11. TypeOK'
  BY <1>4, <1>5, <1>6, <1>9, <1>10, TypeParts, TypePartsNext
<1>12. (Restarts' <=> Restarts) /\ (InferFails' <=> InferFails) /\ r # 0
  BY <1>4, SubsAre DEF Restarts, InferFails
<1>13. ThreadsOK'
  BY <1>3, <1>4, <1>5, <1>7, <1>9, <1>12 DEF ThreadsOK, UserPlaces, StartPlaces, InferPlaces,
     WaitPlaces
<1>14. StartsOK'
  BY <1>3, <1>4, <1>7, <1>9, <1>12 DEF StartsOK, StartPlaces
<1>15. InfersOK'
  <2>1. ASSUME NEW t \in Subs, t > s PROVE phase'[t][r] = "none"
    <3>1. t # s /\ s < t
      BY <2>1, SubsAre
    <3>2. phase[t][r] = "none"
      BY <3>1, <1>2 DEF PhasesOK, IsPassed
    <3> QED
      BY <3>1, <3>2, <1>6
  <2> QED
    BY <2>1, <1>5, <1>6, <1>7, <1>9, <1>10 DEF InfersOK
<1>16. WaitsOK' /\ SeenOK'
  BY <1>7, <1>9 DEF WaitsOK, SeenOK, WaitPlaces
<1>17. EnabledOK'
  BY <1>1, <1>7, <1>9, <1>10, <1>12 DEF EnabledOK
<1>18. FollowsOK'
  <2>1. ASSUME ~InferFails, NEW t \in Subs \ {Length}, NEW q \in Rounds, IsPassed(t, q)'
        PROVE  phase'[t + 1][q] # "none"
    <3>1. phase[t + 1][q] # "none" \/ (s = t + 1 /\ q = r)
      BY <2>1, <1>1, <1>2, <1>6 DEF FollowsOK, InferGoesOn
    <3>2. t + 1 \in Subs
      BY SubsAre
    <3> QED
      BY <3>1, <3>2, <1>6
  <2> QED
    BY <2>1, <1>6, <1>12 DEF FollowsOK
<1>19. CountOK'
  BY <1>3, <1>4 DEF CountOK
<1> QED
  BY <1>6, <1>11, <1>13, <1>14, <1>15, <1>16, <1>17, <1>18, <1>19

LEMMA InferWaitsKeeps ==
    ASSUME Inv, NEW c \in Clients, InferWaits(c)
    PROVE  Inv'
<1> USE DEF Inv
<1>1. c = User /\ U.at = "inferWaiting"
  BY UserIs DEF InferWaits, ThreadsOK, U, At
<1>2. PICK s \in Subs, r \in Rounds :
        /\ s = U.sub /\ r = U.round /\ r = history.round
        /\ \A t \in Subs : t > s => phase[t][r] = "none"
  BY <1>1, TypeParts, UserIs DEF U, InfersOK, ThreadStates
<1> DEFINE ok == phase[s][r] = "done"
<1> DEFINE goesOn == ok /\ s < Length
<1> DEFINE t == IF goesOn THEN [U EXCEPT !.at = "inferStarting", !.sub = s + 1]
                          ELSE [U EXCEPT !.at = "inferLowering"]
<1>3. /\ U \in ThreadStates /\ "infer" \in usage /\ s \in Nat
      /\ Restarts => Cb.at = "idle"
      /\ busy \/ Restarts
      /\ s < Length => s + 1 \in Subs
  BY <1>1, TypeParts, UserIs, SubsAre DEF U, ThreadsOK, StartsOK, InferPlaces
<1>4. /\ phase[s][r] \in {"done", "error"}
      /\ enabled' = [enabled EXCEPT ![s] = ok \/ s \notin CpuSubs]
      /\ thread' = [thread EXCEPT ![User] = t]
      /\ UNCHANGED <<usage, topology, busy, blobs, phase, current, history>>
  BY <1>1, <1>2 DEF InferWaits, InfersNext, U
<1>5. /\ t \in ThreadStates /\ t.round = r
      /\ t.at = IF goesOn THEN "inferStarting" ELSE "inferLowering"
      /\ goesOn => t.sub = s + 1
  BY <1>2, <1>3 DEF ThreadStates, Places
<1>6. ok => IsPassed(s, r)
  BY DEF IsPassed, PhasesOK
<1>7. ~ok => "fail" \in usage
  BY <1>4 DEF PhasesOK, Succeeded
<1> HIDE DEF t
<1>8. SamePhases
  BY <1>4 DEF SamePhases
<1>9. /\ U' = t /\ Cb' = Cb /\ thread' \in [Threads -> ThreadStates]
      /\ PhasesOK' /\ ThreadsOK' /\ WaitsOK' /\ SeenOK' /\ CountOK'
  BY <1>1, <1>3, <1>4, <1>5, <1>8, InferMoves DEF InferPlaces
<1>10. /\ enabled' \in [Subs -> BOOLEAN] /\ enabled'[s] = (ok \/ s \notin CpuSubs)
       /\ \A u \in Subs \ {s} : enabled'[u] = enabled[u]
  BY <1>4, TypeParts
<1>11. TypeOK'
  BY <1>4, <1>9, <1>10, TypeParts, TypePartsNext
<1>12. ~Running
  BY <1>1, <1>2, <1>4, InferringOne DEF Running, InferPlaces
<1>13. StartsOK'
  BY <1>3, <1>4, <1>5, <1>8, <1>9, <1>12, SamePhasesKeep DEF StartsOK
<1>14. InfersOK'
  <2>1. ASSUME goesOn
        PROVE  /\ s + 1 # 1 /\ phase[s + 1][r] = "none"
               /\ \A u \in Subs : u < s + 1 => IsPassed(u, r)
    <3>1. s + 1 # 1 /\ s + 1 > s /\ s + 1 \in Subs
      BY <2>1, <1>3, SubsAre
    <3>2. ASSUME NEW u \in Subs, u < s + 1 PROVE IsPassed(u, r)
      <4>1. u \in Nat
        BY SubsAre
      <4>2. u < s \/ u = s
        BY <3>2, <4>1, <1>3
      <4> QED
        BY <2>1, <4>2, <1>4, <1>6 DEF PhasesOK
    <3> QED
      BY <3>1, <3>2, <1>2
  <2>2. goesOn => /\ phase'[s + 1][r] = "none"
                  /\ \A u \in Subs : u < s + 1 => IsPassed(u, r)'
    BY <2>1, <1>4, <1>8, SamePhasesKeep
  <2>3. U'.round = r /\ U'.at \notin {"inferUpdating", "inferWaiting"}
        /\ (U'.at = "inferStarting" => goesOn /\ U'.sub = s + 1)
    BY <1>5, <1>9
  <2>4. \A u : IsPassed(u, U.round)' <=> IsPassed(u, r)'
    BY <2>3
  <2> QED
    BY <2>1, <2>2, <2>3, <2>4, <1>2, <1>4 DEF InfersOK
<1>15. EnabledOK'
  BY <1>1, <1>2, <1>3, <1>7, <1>8, <1>10, SamePhasesKeep DEF EnabledOK, InferFails
<1>16. FollowsOK'
  <2> SUFFICES ASSUME ~InferFails PROVE FollowsOK'
    BY <1>8, SamePhasesKeep DEF FollowsOK
  <2>1. ok
    BY <1>3, <1>7 DEF InferFails
  <2>2. ASSUME NEW u \in Subs \ {Length}, NEW q \in Rounds, IsPassed(u, q)
        PROVE  phase[u + 1][q] # "none" \/ InferGoesOn(u, q)'
    <3>1. phase[u + 1][q] # "none" \/ (u = s /\ q = r)
      BY <2>2, <1>1, <1>2 DEF FollowsOK, InferGoesOn
    <3>2. u = s => goesOn
      BY <2>1, SubsAre
    <3> QED
      BY <3>1, <3>2, <1>5, <1>9 DEF InferGoesOn
  <2>3. goesOn \/ IsOver(r)
    <3>1. s = Length => IsOver(r)
      BY <2>1 DEF IsOver
    <3> QED
      BY <3>1, <2>1, SubsAre
  <2> QED
    BY <2>2, <2>3, <1>2, <1>4, <1>5, <1>8, <1>9, SamePhasesKeep DEF FollowsOK
<1> QED
  BY <1>9, <1>11, <1>13, <1>14, <1>15, <1>16

LEMMA InferLowersKeeps ==
    ASSUME Inv, NEW c \in Clients, InferLowers(c)
    PROVE  Inv'
<1> USE DEF Inv
<1>1. /\ c = User /\ U.at = "inferLowering" /\ thread' = [thread EXCEPT ![User] = Idle]
      /\ busy' = FALSE
      /\ UNCHANGED <<usage, topology, blobs, phase, current, enabled, history>>
  <2>1. c = User
    BY DEF InferLowers, ThreadsOK, At
  <2> QED
    BY <2>1, Zenon DEF InferLowers, U, At
<1>2. Idle \in ThreadStates /\ Idle.at = "idle"
  BY SubsAre, HeteroAssumption DEF Idle, ThreadStates, Places, Told, Modes
<1>3. "infer" \in usage /\ ~Running
  BY <1>1 DEF ThreadsOK, StartsOK, InferPlaces
<1>4. SamePhases
  BY <1>1 DEF SamePhases
<1>5. /\ U' = Idle /\ Cb' = Cb /\ thread' \in [Threads -> ThreadStates]
      /\ PhasesOK' /\ ThreadsOK' /\ WaitsOK' /\ SeenOK' /\ CountOK'
  BY <1>1, <1>2, <1>3, <1>4, InferMoves DEF InferPlaces
<1>6. TypeOK'
  BY <1>1, <1>5, TypeParts, TypePartsNext
<1>7. StartsOK'
  BY <1>2, <1>3, <1>4, <1>5, SamePhasesKeep DEF StartsOK, StartPlaces, InferPlaces
<1>8. InfersOK'
  BY <1>2, <1>5 DEF InfersOK
<1>9. EnabledOK'
  BY <1>1, <1>4, SamePhasesKeep DEF EnabledOK
<1>10. FollowsOK'
  <2>1. \A s, r : ~InferGoesOn(s, r)
    BY <1>1 DEF InferGoesOn
  <2> QED
    BY <2>1, <1>1, <1>4, SamePhasesKeep DEF FollowsOK
<1> QED
  BY <1>5, <1>6, <1>7, <1>8, <1>9, <1>10

-----------------------------------------------------------------------------
(* The invariant                                                           *)

LEMMA StutterKeeps == Inv /\ UNCHANGED vars => Inv'
<1> SUFFICES ASSUME Inv, UNCHANGED vars PROVE Inv'
  OBVIOUS
<1> USE DEF Inv, vars
<1>1. U' = U /\ Cb' = Cb /\ SamePhases
  BY DEF U, Cb, SamePhases
<1>2. TypeOK'
  BY DEF TypeOK
<1>3. ThreadsOK'
  BY <1>1 DEF ThreadsOK, At, Restarts
<1>4. StartsOK'
  BY <1>1, SamePhasesKeep DEF StartsOK
<1>5. PhasesOK' /\ InfersOK' /\ EnabledOK' /\ FollowsOK' /\ CountOK'
  BY <1>1, OutsideInfer
<1>6. WaitsOK' /\ SeenOK'
  BY <1>1, OutsideWait
<1> QED
  BY <1>2, <1>3, <1>4, <1>5, <1>6

LEMMA NextInv == Inv /\ [Next]_vars => Inv'
<1> SUFFICES ASSUME Inv, [Next]_vars PROVE Inv'
  OBVIOUS
<1>1. ASSUME NEW p \in Threads, StartAsync(p) \/ StartStep(p) PROVE Inv'
  BY <1>1, StartAsyncKeeps, StartRaisesKeeps, StartUpdatesKeeps, StartFirstKeeps DEF StartStep
<1>2. ASSUME NEW s \in Subs, SubStep(s) PROVE Inv'
  BY <1>2, SubInfersKeeps, CallbackBeginsKeeps, CallbackStartsNextKeeps, TaskEndsKeeps DEF SubStep
<1>3. ASSUME CallbackStep PROVE Inv'
  BY <1>3, LastCallbackLowersKeeps, UserCallbackKeeps, CallbackReturnsKeeps DEF CallbackStep
<1>4. ASSUME NEW c \in Clients, SetBlobBegin(c) \/ InferBegin(c) PROVE Inv'
  BY <1>4, SetBlobBeginKeeps, InferBeginKeeps
<1>5. ASSUME NEW c \in Clients, NEW mode \in Modes, WaitBegin(c, mode) PROVE Inv'
  BY <1>5, WaitBeginKeeps
<1>6. ASSUME NEW c \in Clients, ClientStep(c) PROVE Inv'
  BY <1>6, SetBlobKeeps, WaitSubKeeps, WaitLowersKeeps, InferUpdatesKeeps, InferStartsKeeps,
     InferWaitsKeeps, InferLowersKeeps DEF ClientStep, InferStep
<1>7. CASE UNCHANGED vars
  BY <1>7, StutterKeeps
<1> QED
  BY <1>1, <1>2, <1>3, <1>4, <1>5, <1>6, <1>7 DEF Next

LEMMA Invariant == OneUser /\ Spec => []Inv
<1>1. OneUser /\ Init => Inv
  BY InitInv
<1>2. Inv /\ [Next]_vars => Inv'
  BY NextInv
<1> QED
  BY <1>1, <1>2, PTL DEF Spec

-----------------------------------------------------------------------------
(* What follows from it                                                    *)

(* Every variable has the type that TypeOK gives it, whatever the length   *)
(* of the chain, when one client and the callback use the request.         *)
THEOREM HeteroTypeCorrect == OneUser => (Spec => []TypeOK)
<1>1. Inv => TypeOK
  BY DEF Inv
<1> QED
  BY <1>1, Invariant, PTL

(* The callback of a sub-request never finds the next one busy, so that no *)
(* exception leaves the noexcept callback.                                 *)
THEOREM NextSubRequestIsAlwaysFree == OneUser => (Spec => []NextSubRequestIsFree)
<1>1. Inv => NextSubRequestIsFree
  <2> SUFFICES ASSUME Inv, NEW s \in Subs \ {Length}, NEW r \in Rounds,
                      phase[s][r] = "callback"
               PROVE  AtRest(s + 1)
    BY DEF NextSubRequestIsFree
  <2>1. IsActive(s, r)
    BY DEF IsActive
  <2>2. \A t \in Subs, q \in Rounds : t # s \/ q # r => ~IsActive(t, q)
    BY <2>1, OneActive DEF Inv
  <2>3. s + 1 \in Subs /\ s + 1 # s
    BY SubsAre
  <2> QED
    BY <2>2, <2>3 DEF AtRest, IsActive
<1> QED
  BY <1>1, Invariant, PTL

(* When Wait() says OK, every sub-request has made the inference that was  *)
(* the last one at the call, or a later one.  (Infer() that fails leaves   *)
(* the callbacks of the CPU and GPU plugins off, and the chain stops.)     *)
THEOREM WaitOkIsComplete ==
    OneUser /\ NoWaitAfterFailedInfer => (Spec => []WaitOkMeansComplete)
<1> SUFFICES ASSUME OneUser, NoWaitAfterFailedInfer PROVE Spec => []WaitOkMeansComplete
  OBVIOUS
<1>1. Inv => WaitOkMeansComplete
  <2> SUFFICES ASSUME Inv, NEW c \in Clients, At(c, "lowering"),
                      thread[c].told = "OK", NEW s \in Subs
               PROVE  \E r \in thread[c].asked..MaxRounds : r # 0 /\ phase[s][r] = "done"
    BY DEF WaitOkMeansComplete
  <2>1. c = User /\ U.at = "lowering" /\ U.told = "OK" /\ thread[c] = U
    BY DEF Inv, ThreadsOK, At, U
  <2>2. ~InferFails
    BY <2>1, TypeParts DEF Inv, ThreadsOK, WaitPlaces, NoWaitAfterFailedInfer, InferFails
  <2>3. PICK r \in Rounds : U.asked <= r /\ phase[s][r] = "done"
    BY <2>1, <2>2 DEF Inv, SeenOK
  <2>4. U.asked \in 0..MaxRounds
    BY TypeParts, UserIs DEF Inv, U, ThreadStates
  <2>5. r \in U.asked..MaxRounds /\ r # 0
    BY <2>3, <2>4, SubsAre DEF Rounds
  <2> QED
    BY <2>1, <2>3, <2>5
<1> QED
  BY <1>1, Invariant, PTL

(* When an asynchronous inference has come to its end, the callback of the *)
(* user has been called, once for each round.  (An inference that fails    *)
(* breaks the chain of the callbacks before the last one.)                 *)
THEOREM EndIsCalledBack ==
    OneUser /\ NoFailedCallback => (Spec => []EndMeansCallback)
<1> SUFFICES ASSUME OneUser, NoFailedCallback PROVE Spec => []EndMeansCallback
  OBVIOUS
<1>1. Inv => EndMeansCallback
  <2> SUFFICES ASSUME Inv, Quiescent, "callback" \in usage, "infer" \notin usage
               PROVE  history.called = history.round
    BY DEF EndMeansCallback
  <2>1. "fail" \notin usage /\ ~InferFails /\ history.failed = {}
    BY TypeParts DEF Inv, NoFailedCallback, InferFails, PhasesOK
  <2>2. ~Running
    BY DEF Quiescent, Running, IsActive
  <2>3. U.at = "idle" /\ Cb.at = "idle"
    BY UserIs DEF Quiescent, At, U, Cb
  <2>4. history.round # 0 => IsOver(history.round)
    BY <2>1, <2>2, <2>3 DEF Inv, FollowsOK, Succeeded
  <2>5. history.called \in Nat /\ history.round \in Nat
    BY HistoryIs, TypeParts DEF Inv
  <2> QED
    BY <2>1, <2>3, <2>4, <2>5 DEF Inv, CountOK
<1> QED
  BY <1>1, Invariant, PTL

-----------------------------------------------------------------------------
(* The blobs                                                               *)

\* A step that does not hand blobs on, and sets none.
SameBlobs == /\ UNCHANGED <<usage, topology, blobs>>
             /\ history'.wanted = history.wanted /\ history'.taken = history.taken

LEMMA SameBlobsKeep == BlobsOK /\ SameBlobs => BlobsOK'
BY DEF BlobsOK, SameBlobs, Askers, IsInput, Readers

\* Only SetBlob() and updateInOutIfNeeded() change what the properties of
\* the blobs speak of.
LEMMA BlobSteps ==
    ASSUME TypeOK, [Next]_vars
    PROVE  \/ SameBlobs
           \/ \E c \in Clients : SetBlob(c)
           \/ UpdateInOutIfNeeded /\ UNCHANGED <<usage, topology>>
<1>1. history \in Histories
  BY TypeParts
<1>2. ASSUME NEW p \in Threads, StartAsync(p) \/ StartRaises(p) \/ StartFirst(p) PROVE SameBlobs
  <2>1. history' \in {history, [history EXCEPT !.round = history.round + 1]}
    BY <1>2 DEF StartAsync, StartRaises, StartFirst
  <2> QED
    BY <1>1, <1>2, <2>1 DEF StartAsync, StartRaises, StartFirst, SameBlobs, Histories
<1>3. ASSUME NEW p \in Threads, StartUpdates(p)
      PROVE  SameBlobs \/ (UpdateInOutIfNeeded /\ UNCHANGED <<usage, topology>>)
  BY <1>3 DEF StartUpdates, SameBlobs
<1>4. ASSUME NEW s \in Subs, SubStep(s) PROVE SameBlobs
  <2>1. CASE SubInfers(s)
    <3>1. PICK r \in Rounds :
            history' \in {history, [history EXCEPT !.failed = history.failed \cup {<<s, r>>}]}
      BY <2>1 DEF SubInfers
    <3> QED
      BY <1>1, <2>1, <3>1 DEF SubInfers, SameBlobs, Histories
  <2>2. CASE CallbackBegins(s) \/ CallbackStartsNext(s) \/ TaskEnds(s)
    BY <2>2 DEF CallbackBegins, CallbackStartsNext, TaskEnds, SameBlobs
  <2> QED
    BY <1>4, <2>1, <2>2 DEF SubStep
<1>5. ASSUME CallbackStep PROVE SameBlobs
  <2>1. CASE LastCallbackLowers \/ CallbackReturns
    BY <2>1 DEF LastCallbackLowers, CallbackReturns, SameBlobs
  <2>2. CASE UserCallback
    <3>1. history' = [history EXCEPT !.called = history.called + 1]
      BY <2>2 DEF UserCallback
    <3> QED
      BY <1>1, <2>2, <3>1 DEF UserCallback, SameBlobs, Histories
  <2> QED
    BY <1>5, <2>1, <2>2 DEF CallbackStep
<1>6. ASSUME NEW c \in Clients, SetBlobBegin(c) \/ InferBegin(c) PROVE SameBlobs
  BY <1>6 DEF SetBlobBegin, InferBegin, SameBlobs
<1>7. ASSUME NEW c \in Clients, NEW mode \in Modes, WaitBegin(c, mode) PROVE SameBlobs
  BY <1>7 DEF WaitBegin, SameBlobs
<1>8. ASSUME NEW c \in Clients, WaitSub(c) \/ WaitLowers(c) \/ InferWaits(c) \/ InferLowers(c)
      PROVE  SameBlobs
  BY <1>8 DEF WaitSub, WaitLowers, InferWaits, InferLowers, SameBlobs
<1>9. ASSUME NEW c \in Clients, InferStarts(c) PROVE SameBlobs
  <2>1. history' \in {history, [history EXCEPT !.round = history.round + 1]}
    BY <1>9 DEF InferStarts
  <2> QED
    BY <1>1, <1>9, <2>1 DEF InferStarts, SameBlobs, Histories
<1>10. ASSUME NEW c \in Clients, InferUpdates(c)
       PROVE  UpdateInOutIfNeeded /\ UNCHANGED <<usage, topology>>
  BY <1>10 DEF InferUpdates
<1>11. CASE UNCHANGED vars
  BY <1>11 DEF vars, SameBlobs
<1> QED
  BY <1>2, <1>3, <1>4, <1>5, <1>6, <1>7, <1>8, <1>9, <1>10, <1>11
  DEF Next, StartStep, ClientStep, InferStep

LEMMA MinOfOne == ASSUME NEW s \in Nat PROVE Min({s}) = s
BY DEF Min

\* Of one asker the first is that one.
LEMMA SoleAsker ==
    ASSUME NEW n, NEW s \in Subs, Askers(n) = {s}
    PROVE  Min(Askers(n)) = s
BY MinOfOne, SubsAre

LEMMA WiringIs ==
    ASSUME TypeOK, NEW n \in Names
    PROVE  /\ topology[n].from \in 0..Length /\ Readers(n) \subseteq Subs
           /\ Askers(n) \subseteq Subs
           /\ ~IsInput(n) => topology[n].from \in Subs
<1>1. topology \in [Names -> Wirings]
  BY HeteroAssumption, TypeParts
<1>2. topology[n] \in Wirings
  BY <1>1
<1>3. topology[n].from \in 0..Length /\ Readers(n) \subseteq Subs
  BY <1>2 DEF Wirings, Readers
<1>4. ~IsInput(n) => topology[n].from \in Subs
  BY <1>3, HeteroAssumption DEF IsInput, Subs
<1> QED
  BY <1>3, <1>4 DEF Askers

\* A blob that the user sets goes to all who hold it.
LEMMA Served ==
    ASSUME TypeOK, ServedTopologies, NEW n \in Names, "set" \in usage
    PROVE  /\ IsInput(n) => "roi" \in usage \/ \E s \in Subs : Askers(n) = {s}
           /\ ~IsInput(n) /\ Askers(n) # {} => Readers(n) = {} /\ Askers(n) = {topology[n].from}
BY TypeParts DEF ServedTopologies, IsInput, Askers, Readers

LEMMA HandedOnServes ==
    ASSUME TypeOK, ServedTopologies, BlobsOK, NEW n \in Names, NEW s \in Subs
    PROVE  /\ s \in Askers(n) => HandedOn[s][n] = history.wanted[n]
           /\ history.wanted[n] = 0 => HandedOn[s][n] = blobs.bound[s][n]
<1>1. HandedOn[s][n] = IF s \in Askers(n) /\ blobs.roi[n] # 0 THEN blobs.roi[n]
        ELSE IF s \in Askers(n) /\ s = Min(Askers(n)) /\ blobs.given[n] # blobs.known[n]
             THEN blobs.given[n]
        ELSE blobs.bound[s][n]
  BY DEF HandedOn
<1>2. history.wanted[n] = 0 =>
         /\ history.taken[n] = 0 /\ blobs.roi[n] = 0
         /\ blobs.given[n] = 0 /\ blobs.known[n] = 0
  BY DEF BlobsOK
<1>3. history.wanted[n] = 0 => HandedOn[s][n] = blobs.bound[s][n]
  BY <1>1, <1>2
<1>4. ASSUME s \in Askers(n), history.wanted[n] # 0
      PROVE  HandedOn[s][n] = history.wanted[n]
  <2>1. "set" \in usage
    BY <1>4 DEF BlobsOK
  <2>2. CASE "roi" \in usage /\ IsInput(n)
    BY <1>1, <1>4, <2>2 DEF BlobsOK
  <2>3. CASE ~("roi" \in usage /\ IsInput(n))
    <3>1. \E t \in Subs : Askers(n) = {t}
      BY <1>4, <2>1, <2>3, Served
    <3>2. Min(Askers(n)) = s
      BY <1>4, <3>1, SoleAsker
    <3>3. /\ blobs.roi[n] = 0 /\ blobs.given[n] = history.wanted[n]
          /\ blobs.known[n] = history.taken[n]
      BY <2>3 DEF BlobsOK
    <3>4. blobs.bound[s][n] = history.taken[n]
      BY <1>4 DEF BlobsOK
    <3> QED
      BY <1>1, <1>4, <3>2, <3>3, <3>4
  <2> QED
    BY <2>2, <2>3
<1> QED
  BY <1>2, <1>3, <1>4 DEF BlobsOK

LEMMA UpdateKeepsBlobs ==
    ASSUME TypeOK, ServedTopologies, BlobsOK, UpdateInOutIfNeeded, UNCHANGED <<usage, topology>>
    PROVE  BlobsOK'
<1>1. blobs \in BlobStates /\ history \in Histories
  BY TypeParts
<1>2. /\ blobs'.bound = HandedOn /\ blobs'.roi = blobs.roi /\ blobs'.given = blobs.given
      /\ blobs'.known = [n \in Names |-> IF Askers(n) = {} THEN blobs.known[n] ELSE blobs.given[n]]
      /\ history'.taken = history.wanted /\ history'.wanted = history.wanted
  BY <1>1 DEF UpdateInOutIfNeeded, BlobStates, Histories
<1>3. \A n \in Names : /\ Askers(n)' = Askers(n) /\ Readers(n)' = Readers(n)
                       /\ IsInput(n)' = IsInput(n)
  BY DEF Askers, Readers, IsInput
<1>4. \A n \in Names, s \in Subs : s \in Askers(n) => blobs'.bound[s][n] = history'.taken[n]
  BY <1>2, HandedOnServes
<1>5. ASSUME NEW n \in Names, NEW s \in Subs, s \in Readers(n), ~IsInput(n)
      PROVE  blobs'.bound[s][n] = blobs'.bound[topology[n].from][n]
  <2>1. topology[n].from \in Subs
    BY <1>5, WiringIs
  <2>2. history.wanted[n] = 0
    <3>1. CASE Askers(n) = {} \/ "set" \notin usage
      BY <3>1 DEF BlobsOK
    <3>2. CASE Askers(n) # {} /\ "set" \in usage
      BY <3>2, <1>5, Served
    <3> QED
      BY <3>1, <3>2
  <2>3. HandedOn[s][n] = blobs.bound[s][n]
    BY <2>2, HandedOnServes
  <2>4. HandedOn[topology[n].from][n] = blobs.bound[topology[n].from][n]
    BY <2>1, <2>2, HandedOnServes
  <2> QED
    BY <1>2, <1>5, <2>3, <2>4 DEF BlobsOK
<1>6. ASSUME NEW n \in Names
      PROVE  IF "roi" \in usage /\ IsInput(n)
             THEN blobs'.roi[n] = history'.wanted[n] /\ blobs'.given[n] = 0 /\ blobs'.known[n] = 0
             ELSE /\ blobs'.roi[n] = 0 /\ blobs'.given[n] = history'.wanted[n]
                  /\ blobs'.known[n] = history'.taken[n]
  <2>1. Askers(n) = {} => history.wanted[n] = 0 /\ history.taken[n] = 0
    BY DEF BlobsOK
  <2> QED
    BY <1>2, <2>1 DEF BlobsOK
<1>7. \A n \in Names : "set" \notin usage \/ Askers(n) = {} => history'.wanted[n] = 0
  BY <1>2 DEF BlobsOK
<1> QED
  BY <1>2, <1>3, <1>4, <1>5, <1>6, <1>7 DEF BlobsOK

LEMMA SetBlobKeepsBlobs ==
    ASSUME Inv, BlobsOK, NEW c \in Clients, SetBlob(c)
    PROVE  BlobsOK'
<1>1. c = User /\ U.at = "setting" /\ "set" \in usage
  BY UserIs DEF Inv, SetBlob, ThreadsOK, U, Move, At
<1>2. blobs \in BlobStates /\ history \in Histories /\ history.set \in Nat
  BY TypeParts, HistoryIs, HeteroAssumption DEF Inv, Blobs
<1> DEFINE blob == history.set + 1
<1>3. blob # 0
  BY <1>2
<1>4. PICK n \in Names :
        /\ Askers(n) # {}
        /\ blobs' = IF "roi" \in usage /\ IsInput(n)
                      THEN [blobs EXCEPT !.roi[n] = blob]
                      ELSE [blobs EXCEPT !.given[n] = blob]
        /\ history' = [history EXCEPT !.set = blob, !.wanted[n] = blob]
  BY DEF SetBlob
<1> HIDE DEF blob
<1>5. /\ history'.wanted = [history.wanted EXCEPT ![n] = blob] /\ history'.taken = history.taken
      /\ history.wanted \in [Names -> Blobs]
  BY <1>2, <1>4 DEF Histories
<1>6. /\ blobs'.bound = blobs.bound /\ blobs'.known = blobs.known
      /\ blobs.roi \in [Names -> Blobs] /\ blobs.given \in [Names -> Blobs]
      /\ IF "roi" \in usage /\ IsInput(n)
         THEN blobs'.roi = [blobs.roi EXCEPT ![n] = blob] /\ blobs'.given = blobs.given
         ELSE blobs'.given = [blobs.given EXCEPT ![n] = blob] /\ blobs'.roi = blobs.roi
  BY <1>2, <1>4 DEF BlobStates
<1>7. /\ history'.wanted[n] = blob
      /\ \A m \in Names \ {n} : /\ history'.wanted[m] = history.wanted[m]
                                /\ blobs'.roi[m] = blobs.roi[m] /\ blobs'.given[m] = blobs.given[m]
  BY <1>5, <1>6
<1>8. UNCHANGED <<usage, topology>>
  BY DEF SetBlob
<1>9. \A m \in Names : /\ Askers(m)' = Askers(m) /\ Readers(m)' = Readers(m)
                       /\ IsInput(m)' = IsInput(m)
  BY <1>8 DEF Askers, Readers, IsInput
<1>10. ASSUME NEW m \in Names
       PROVE  /\ "set" \notin usage \/ Askers(m) = {} => history'.wanted[m] = 0
              /\ history'.wanted[m] = 0 => history'.taken[m] = 0
              /\ IF "roi" \in usage /\ IsInput(m)
                 THEN /\ blobs'.roi[m] = history'.wanted[m]
                      /\ blobs'.given[m] = 0 /\ blobs'.known[m] = 0
                 ELSE /\ blobs'.roi[m] = 0 /\ blobs'.given[m] = history'.wanted[m]
                      /\ blobs'.known[m] = history'.taken[m]
  <2>1. CASE m = n
    BY <2>1, <1>1, <1>3, <1>4, <1>5, <1>6, <1>7 DEF BlobsOK
  <2>2. CASE m # n
    BY <2>2, <1>5, <1>6, <1>7 DEF BlobsOK
  <2> QED
    BY <2>1, <2>2
<1> QED
  BY <1>5, <1>6, <1>8, <1>9, <1>10 DEF BlobsOK

LEMMA InitBlobs == OneUser /\ Init => BlobsOK
<1> SUFFICES ASSUME OneUser, Init PROVE BlobsOK
  OBVIOUS
<1>1. \A n \in Names : ~IsInput(n) => topology[n].from \in Subs
  BY InitInv, WiringIs DEF Inv
<1>2. /\ \A n \in Names : /\ blobs.given[n] = 0 /\ blobs.roi[n] = 0 /\ blobs.known[n] = 0
                          /\ history.wanted[n] = 0 /\ history.taken[n] = 0
      /\ \A n \in Names, s \in Subs : blobs.bound[s][n] = 0
  BY DEF Init
<1> QED
  BY <1>1, <1>2 DEF BlobsOK

(* Each inference reads and writes the blobs that the user had set when it *)
(* was started, and the sub-requests that share a blob hold the same one.  *)
(* (An input with several readers that is set without preprocessing goes   *)
(* to the first reader alone, and an output that is read again is handed   *)
(* to its maker alone.)                                                    *)
THEOREM BlobsAreHandedOn ==
    OneUser /\ ServedTopologies => (Spec => []InferenceUsesItsBlobs)
<1> SUFFICES ASSUME OneUser, ServedTopologies PROVE Spec => []InferenceUsesItsBlobs
  OBVIOUS
<1>1. Inv /\ BlobsOK /\ [Next]_vars => BlobsOK'
  BY BlobSteps, SameBlobsKeep, SetBlobKeepsBlobs, UpdateKeepsBlobs DEF Inv
<1>2. BlobsOK => InferenceUsesItsBlobs
  BY DEF BlobsOK, InferenceUsesItsBlobs
<1> QED
  BY <1>1, <1>2, InitBlobs, Invariant, PTL DEF Spec

-----------------------------------------------------------------------------
(* The chain                                                               *)

\* A step that moves no sub-request past its inference.
SameChain ==
    /\ history'.round = history.round
    /\ history.round # 0 => \A s \in Subs :
          /\ Succeeded(s, history.round)' <=> Succeeded(s, history.round)
          /\ phase'[s][history.round] \in {"none", "infer"}
               <=> phase[s][history.round] \in {"none", "infer"}

LEMMA SameChainStutters ==
    ASSUME TypeOK, TypeOK', SameChain
    PROVE  UNCHANGED Chain!chainVars
<1>1. history \in Histories /\ history' \in Histories
  BY TypeParts DEF TypeOK, Histories
<1>2. Passed' = Passed
  BY DEF Passed, SameChain, Succeeded
<1>3. Broken' <=> Broken
  <2>1. CASE history.round = 0
    <3>1. \A s \in Subs : Succeeded(s, 0)
      BY <1>1, SubsAre DEF Histories, Succeeded
    <3>2. \A s \in Subs : <<s, 0>> \notin history'.failed
      BY <1>1, SubsAre DEF Histories
    <3> QED
      BY <2>1, <3>1, <3>2 DEF Broken, Succeeded, SameChain
  <2>2. CASE history.round # 0
    BY <2>2 DEF Broken, Succeeded, SameChain
  <2> QED
    BY <2>1, <2>2
<1> QED
  BY <1>2, <1>3 DEF Chain!chainVars, SameChain, Broken

LEMMA SamePhasesStutter == SamePhases => SameChain
BY DEF SamePhases, SameChain, Succeeded

LEMMA PassedIs ==
    ASSUME TypeOK
    PROVE  /\ Passed \subseteq Subs /\ IsFiniteSet(Passed) /\ Cardinality(Passed) \in Nat
           /\ \A s \in Subs \ Passed : Cardinality(Passed) < Length
           /\ Passed = Subs => Cardinality(Passed) = Length
<1>1. IsFiniteSet(Subs) /\ Cardinality(Subs) = Length /\ Length \in Nat
  BY FS_Interval, HeteroAssumption DEF Subs
<1>2. Passed \subseteq Subs
  BY DEF Passed
<1>3. IsFiniteSet(Passed) /\ Cardinality(Passed) <= Length
      /\ (Cardinality(Passed) = Length => Passed = Subs)
  BY <1>1, <1>2, FS_Subset
<1>4. Cardinality(Passed) \in Nat
  BY <1>3, FS_CardinalityType
<1> QED
  BY <1>1, <1>2, <1>3, <1>4

\* A round begins when the chain of the last one is over.
LEMMA RoundAccepts ==
    ASSUME Inv, NoFailedInfer, ~Running, history.round < MaxRounds,
           ~(U.at \in {"inferWaiting", "inferStarting"} /\ U.round = history.round),
           StartSub(1, history.round + 1), history'.round = history.round + 1,
           history'.failed = history.failed, usage' = usage
    PROVE  Chain!Accept
<1> USE DEF Inv
<1> DEFINE r == history.round + 1
<1>1. /\ history \in Histories /\ history.round \in Nat /\ r \in Rounds /\ r > history.round
      /\ r # 0
  BY TypeParts, HistoryIs, SubsAre DEF Rounds
<1>2. \A s \in Subs : phase[s][r] = "none" /\ Succeeded(s, r)
  BY <1>1, FreshRound
<1> HIDE DEF r
<1>3. phase' = [phase EXCEPT ![1][r] = "infer"] /\ history'.round = r
  BY DEF StartSub, r
<1>4. /\ phase'[1][r] = "infer"
      /\ \A s \in Subs, q \in Rounds : s # 1 \/ q # r => phase'[s][q] = phase[s][q]
  BY <1>1, <1>3, PhaseChanges, SubsAre, TypeParts DEF Phases
<1>5. \A s \in Subs : phase'[s][r] \in {"none", "infer"}
  BY <1>1, <1>2, <1>4
<1>6. Passed' = {}
  BY <1>3, <1>5 DEF Passed
<1>7. Cardinality(Passed') = 0
  BY <1>6, FS_EmptySet
<1>8. ~Broken'
  BY <1>2, <1>3 DEF Broken, Succeeded
<1>9. history.round = 0 \/ Cardinality(Passed) = Length \/ Broken
  <2> SUFFICES ASSUME history.round # 0, ~Broken PROVE Passed = Subs
    BY PassedIs
  <2>1. ~InferFails
    BY TypeParts DEF NoFailedInfer, InferFails
  <2>2. \A s \in Subs : Succeeded(s, history.round)
    BY DEF Broken
  <2>3. IsOver(history.round)
    BY <2>1, <2>2 DEF FollowsOK
  <2>4. history.round \in Rounds
    BY <1>1, HistoryIs, SubsAre
  <2>5. IsPassed(Length, history.round)
    BY <2>2, <2>3, <2>4, SubsAre DEF IsOver, IsPassed, PhasesOK
  <2>6. \A s \in Subs : IsPassed(s, history.round)
    BY <2>4, <2>5, SubsAre DEF PhasesOK, IsPassed
  <2> QED
    BY <2>6 DEF Passed, IsPassed
<1> QED
  BY <1>1, <1>3, <1>7, <1>8, <1>9 DEF Chain!Accept, r

\* A sub-request makes its inference.
LEMMA InferenceStep ==
    ASSUME Inv, NEW s \in Subs, SubInfers(s)
    PROVE  Chain!SubRequestInfers \/ Chain!SubRequestFails
<1> USE DEF Inv
<1>1. PICK r \in Rounds, ok \in BOOLEAN :
        /\ phase[s][r] = "infer"
        /\ phase' = [phase EXCEPT ![s][r] = IF enabled[s] THEN "queued"
                                             ELSE IF ok THEN "done" ELSE "error"]
        /\ history' = IF ok THEN history
                            ELSE [history EXCEPT !.failed = @ \cup {<<s, r>>}]
  BY DEF SubInfers
<1> DEFINE p == IF enabled[s] THEN "queued" ELSE IF ok THEN "done" ELSE "error"
<1>2. p \in Phases /\ p \notin {"none", "infer"}
  BY DEF Phases
<1>3. phase' = [phase EXCEPT ![s][r] = p]
  BY <1>1
<1> HIDE DEF p
<1>4. /\ phase'[s][r] = p
      /\ \A t \in Subs, q \in Rounds : t # s \/ q # r => phase'[t][q] = phase[t][q]
  BY <1>2, <1>3, PhaseChanges, TypeParts
<1>5. history \in Histories
  BY TypeParts
<1>6. /\ history'.round = history.round
      /\ ok => history'.failed = history.failed
      /\ ~ok => history'.failed = history.failed \cup {<<s, r>>}
  BY <1>1, <1>5 DEF Histories
<1>7. /\ r = history.round /\ r # 0
      /\ \A t \in Subs : t < s => IsPassed(t, r)
      /\ \A t \in Subs : t > s => phase[t][r] = "none"
  BY <1>1, OneActive DEF IsActive
<1>8. \A t \in Subs : Succeeded(t, r)
  <2> SUFFICES ASSUME NEW t \in Subs PROVE Succeeded(t, r)
    OBVIOUS
  <2>1. t < s \/ t = s \/ t > s
    BY SubsAre
  <2> QED
    BY <2>1, <1>1, <1>7 DEF IsPassed, PhasesOK
<1>9. ~Broken
  BY <1>7, <1>8 DEF Broken
<1>10. s \notin Passed
  BY <1>1, <1>7 DEF Passed
<1>11. Cardinality(Passed) < Length /\ IsFiniteSet(Passed) /\ Passed \subseteq Subs
  BY <1>10, PassedIs
<1>12. CASE ok
  <2>1. Passed' = Passed \cup {s}
    <3>1. \A t \in Subs : t \in Passed' <=> phase'[t][r] \notin {"none", "infer"}
      BY <1>6, <1>7, <1>8, <1>12 DEF Passed, Succeeded
    <3>2. \A t \in Subs : t \in Passed <=> phase[t][r] \notin {"none", "infer"}
      BY <1>7, <1>8 DEF Passed
    <3>3. \A t \in Subs : t \in Passed' <=> t \in Passed \/ t = s
      BY <1>1, <1>2, <1>4, <3>1, <3>2
    <3>4. Passed' \subseteq Subs
      BY DEF Passed
    <3> QED
      BY <1>11, <3>3, <3>4
  <2>2. Cardinality(Passed') = Cardinality(Passed) + 1
    BY <2>1, <1>10, <1>11, FS_AddElement
  <2>3. ~Broken'
    BY <1>6, <1>7, <1>8, <1>12 DEF Broken, Succeeded
  <2>4. Broken' = Broken
    BY <2>3, <1>9 DEF Broken
  <2>5. history.round # 0 /\ history'.round # 0
    BY <1>6, <1>7
  <2> QED
    BY <2>2, <2>4, <2>5, <1>6, <1>9, <1>11 DEF Chain!SubRequestInfers
<1>13. CASE ~ok
  <2>1. Broken'
    BY <1>6, <1>7, <1>13 DEF Broken, Succeeded
  <2>2. Passed' = Passed
    <3>1. \A t \in Subs : t \in Passed' <=> t # s /\ phase'[t][r] \notin {"none", "infer"}
      BY <1>6, <1>7, <1>8, <1>13 DEF Passed, Succeeded
    <3>2. \A t \in Subs : t \in Passed <=> phase[t][r] \notin {"none", "infer"}
      BY <1>7, <1>8 DEF Passed
    <3>3. \A t \in Subs : t \in Passed' <=> t \in Passed
      BY <1>1, <1>4, <3>1, <3>2
    <3>4. Passed' \subseteq Subs
      BY DEF Passed
    <3> QED
      BY <1>11, <3>3, <3>4
  <2> QED
    BY <2>1, <2>2, <1>6, <1>7, <1>9, <1>11 DEF Chain!SubRequestFails
<1> QED
  BY <1>12, <1>13

\* A task that has inferred goes on, and so does its callback.
LEMMA PhaseStutters ==
    ASSUME Inv, NEW s \in Subs, NEW r \in Rounds, NEW p \in Phases,
           phase' = [phase EXCEPT ![s][r] = p], history' = history,
           phase[s][r] \in {"none", "infer"} <=> p \in {"none", "infer"}
    PROVE  SameChain
<1>1. /\ phase'[s][r] = p
      /\ \A t \in Subs, q \in Rounds : t # s \/ q # r => phase'[t][q] = phase[t][q]
  BY PhaseChanges, TypeParts DEF Inv
<1>2. history.round # 0 => history.round \in Rounds
  BY HistoryIs, TypeParts, SubsAre DEF Inv
<1> QED
  BY <1>1, <1>2 DEF SameChain, Succeeded

LEMMA CallbackStartsNextStutters ==
    ASSUME Inv, NEW s \in Subs, CallbackStartsNext(s)
    PROVE  SameChain
<1> USE DEF Inv
<1>1. PICK r \in Rounds :
       /\ s < Length
       /\ phase[s][r] = "callback"
       /\ phase' = [phase EXCEPT ![s][r] = "called",
                                 ![s + 1][r] = IF GoesOn(s, r) THEN "infer" ELSE @]
       /\ history' = history
  BY DEF CallbackStartsNext
<1>2. s + 1 \in Subs /\ s + 1 # s /\ s + 1 > s
  BY <1>1, SubsAre
<1>3. phase[s + 1][r] = "none"
  BY <1>1, <1>2, OneActive DEF IsActive
<1>4. PICK mid : mid = [phase EXCEPT ![s][r] = "called"]
  OBVIOUS
<1>5. /\ mid \in [Subs -> [Rounds -> Phases]] /\ mid[s][r] = "called"
      /\ \A t \in Subs, q \in Rounds : t # s \/ q # r => mid[t][q] = phase[t][q]
  BY <1>4, TypeParts DEF Phases
<1>6. mid[s + 1][r] = "none"
  BY <1>2, <1>3, <1>5
<1>7. PICK v \in {"none", "infer"} : phase' = [mid EXCEPT ![s + 1][r] = v]
  <2>1. CASE GoesOn(s, r)
    <3>1. phase' = [phase EXCEPT ![s][r] = "called", ![s + 1][r] = "infer"]
      BY <1>1, <2>1
    <3> QED
      BY <3>1, <1>4
  <2>2. CASE ~GoesOn(s, r)
    <3>1. phase' = [[phase EXCEPT ![s][r] = "called"] EXCEPT ![s + 1][r] = phase[s + 1][r]]
      BY <1>1, <1>3, <1>4, <1>6, <2>2
    <3> QED
      BY <3>1, <1>3, <1>4
  <2> QED
    BY <2>1, <2>2
<1>8. /\ phase'[s + 1][r] \in {"none", "infer"}
      /\ \A t \in Subs, q \in Rounds : t # s + 1 \/ q # r => phase'[t][q] = mid[t][q]
  BY <1>2, <1>5, <1>7
<1>9. \A t \in Subs, q \in Rounds :
         phase'[t][q] \in {"none", "infer"} <=> phase[t][q] \in {"none", "infer"}
  <2> SUFFICES ASSUME NEW t \in Subs, NEW q \in Rounds
               PROVE  phase'[t][q] \in {"none", "infer"} <=> phase[t][q] \in {"none", "infer"}
    OBVIOUS
  <2>1. CASE t = s + 1 /\ q = r
    BY <2>1, <1>3, <1>8
  <2>2. CASE t = s /\ q = r
    <3>1. phase'[t][q] = "called" /\ phase[t][q] = "callback"
      BY <2>2, <1>1, <1>2, <1>5, <1>8, ZenonT(60)
    <3> QED
      BY <3>1
  <2>3. CASE (t # s + 1 \/ q # r) /\ (t # s \/ q # r)
    <3>1. phase'[t][q] = phase[t][q]
      BY <2>3, <1>5, <1>8
    <3> QED
      BY <3>1
  <2> QED
    BY <2>1, <2>2, <2>3
<1>10. history.round # 0 => history.round \in Rounds
  BY HistoryIs, TypeParts, SubsAre
<1> QED
  BY <1>1, <1>9, <1>10 DEF SameChain, Succeeded

LEMMA StartFirstSteps ==
    ASSUME Inv, NoFailedInfer, NEW p \in Threads, StartFirst(p)
    PROVE  SameChain \/ Chain!Accept
<1> USE DEF Inv
<1>1. thread[p].at = "starting"
  BY DEF StartFirst, Move, At
<1>2. CASE ~(AtRest(1) /\ history.round < MaxRounds)
  BY <1>2 DEF StartFirst, SameChain, Succeeded
<1>3. CASE AtRest(1) /\ history.round < MaxRounds
  <2>1. history \in Histories
    BY TypeParts
  <2>2. /\ StartSub(1, history.round + 1) /\ history'.round = history.round + 1
        /\ history'.failed = history.failed /\ usage' = usage
    BY <1>3, <2>1 DEF StartFirst, Histories
  <2>3. p = User \/ p = Callback
    BY <1>1, StarterIs
  <2>4. ~Running /\ U.at \notin {"inferWaiting", "inferStarting"}
    BY <1>1, <2>3 DEF StartsOK, ThreadsOK, U, Cb, StartPlaces, InferPlaces
  <2> QED
    BY <1>3, <2>2, <2>4, RoundAccepts
<1> QED
  BY <1>2, <1>3

LEMMA InferStartsSteps ==
    ASSUME Inv, NoFailedInfer, NEW c \in Clients, InferStarts(c)
    PROVE  SameChain \/ Chain!Accept
<1> USE DEF Inv
<1>1. c = User /\ U.at = "inferStarting"
  BY UserIs DEF InferStarts, ThreadsOK, U, At, Move
<1>2. PICK s \in Subs, r \in Rounds :
        /\ s = U.sub /\ r = U.round
        /\ r = IF s = 1 THEN history.round + 1 ELSE history.round
        /\ phase[s][r] = "none"
  BY <1>1, TypeParts, UserIs DEF U, InfersOK, ThreadStates
<1>3. /\ StartSub(s, r)
      /\ history' = IF s = 1 THEN [history EXCEPT !.round = @ + 1] ELSE history
      /\ usage' = usage
  BY <1>1, <1>2 DEF InferStarts, U
<1>4. CASE s = 1
  <2>1. history \in Histories /\ history.round \in Nat /\ ~Running
    BY <1>1, TypeParts, HistoryIs DEF StartsOK, InferPlaces
  <2>2. history'.round = history.round + 1 /\ history'.failed = history.failed
    BY <1>3, <1>4, <2>1 DEF Histories
  <2>3. history.round < MaxRounds /\ U.round # history.round
    BY <1>2, <1>4, <2>1, SubsAre DEF Rounds
  <2> QED
    BY <1>2, <1>3, <1>4, <2>1, <2>2, <2>3, RoundAccepts
<1>5. CASE s # 1
  BY <1>2, <1>3, <1>5, PhaseStutters DEF StartSub, Phases
<1> QED
  BY <1>4, <1>5

LEMMA StepIsChain ==
    Inv /\ Inv' /\ NoFailedInfer /\ [Next]_vars => [Chain!Next]_(Chain!chainVars)
<1> SUFFICES ASSUME Inv, Inv', NoFailedInfer, [Next]_vars
             PROVE  SameChain \/ Chain!Next
  BY SameChainStutters DEF Inv
<1> USE DEF Inv
<1>1. history \in Histories
  BY TypeParts
<1>2. ASSUME NEW p \in Threads, StartAsync(p) \/ StartRaises(p) PROVE SameChain
  BY <1>2, SamePhasesStutter DEF StartAsync, StartRaises, SamePhases
<1>3. UpdateInOutIfNeeded => history'.round = history.round /\ history'.failed = history.failed
  BY UpdateTypes
<1>4. ASSUME NEW p \in Threads, StartUpdates(p) PROVE SameChain
  BY <1>3, <1>4, SamePhasesStutter DEF StartUpdates, SamePhases
<1>5. ASSUME NEW p \in Threads, StartFirst(p) PROVE SameChain \/ Chain!Next
  BY <1>5, StartFirstSteps DEF Chain!Next
<1>6. ASSUME NEW s \in Subs, SubInfers(s) PROVE Chain!Next
  BY <1>6, InferenceStep DEF Chain!Next
<1>7. ASSUME NEW s \in Subs, CallbackBegins(s) PROVE SameChain
  <2>1. PICK r \in Rounds : /\ phase[s][r] = "queued" /\ history' = history
                            /\ phase' = [phase EXCEPT ![s][r] = "callback"]
    BY <1>7 DEF CallbackBegins
  <2> QED
    BY <2>1, PhaseStutters DEF Phases
<1>8. ASSUME NEW s \in Subs, TaskEnds(s) PROVE SameChain
  <2>1. PICK r \in Rounds : /\ phase[s][r] = "called" /\ history' = history
                            /\ phase' = [phase EXCEPT ![s][r] = Ended(s, r)]
    BY <1>8 DEF TaskEnds
  <2>2. Ended(s, r) \in {"done", "error"}
    BY DEF Ended
  <2> QED
    BY <2>1, <2>2, PhaseStutters DEF Phases
<1>9. ASSUME LastCallbackLowers PROVE SameChain
  <2>1. PICK r \in Rounds : /\ phase[Length][r] = "callback" /\ history' = history
                            /\ phase' = [phase EXCEPT ![Length][r] = "called"]
    BY <1>9 DEF LastCallbackLowers
  <2> QED
    BY <2>1, PhaseStutters, SubsAre DEF Phases
<1>10. ASSUME UserCallback \/ CallbackReturns PROVE SameChain
  <2>1. history' \in {history, [history EXCEPT !.called = history.called + 1]}
    BY <1>10 DEF UserCallback, CallbackReturns
  <2>2. history'.round = history.round /\ history'.failed = history.failed
    BY <1>1, <2>1 DEF Histories
  <2> QED
    BY <1>10, <2>2, SamePhasesStutter DEF UserCallback, CallbackReturns, SamePhases
<1>11. ASSUME NEW c \in Clients, SetBlobBegin(c) \/ InferBegin(c) PROVE SameChain
  BY <1>11, SamePhasesStutter DEF SetBlobBegin, InferBegin, SamePhases
<1>12. ASSUME NEW c \in Clients, NEW mode \in Modes, WaitBegin(c, mode) PROVE SameChain
  BY <1>12, SamePhasesStutter DEF WaitBegin, SamePhases
<1>13. ASSUME NEW c \in Clients, SetBlob(c) PROVE SameChain
  <2>1. PICK n \in Names :
          history' = [history EXCEPT !.set = history.set + 1, !.wanted[n] = history.set + 1]
    BY <1>13 DEF SetBlob
  <2>2. history'.round = history.round /\ history'.failed = history.failed
    BY <1>1, <2>1 DEF Histories
  <2> QED
    BY <1>13, <2>2, SamePhasesStutter DEF SetBlob, SamePhases
<1>14. ASSUME NEW c \in Clients, WaitSub(c) \/ WaitLowers(c) \/ InferWaits(c) \/ InferLowers(c)
       PROVE  SameChain
  BY <1>14 DEF WaitSub, WaitLowers, InferWaits, InferLowers, SameChain, Succeeded
<1>15. ASSUME NEW c \in Clients, InferUpdates(c) PROVE SameChain
  BY <1>3, <1>15, SamePhasesStutter DEF InferUpdates, SamePhases
<1>16. ASSUME NEW c \in Clients, InferStarts(c) PROVE SameChain \/ Chain!Next
  BY <1>16, InferStartsSteps DEF Chain!Next
<1>17. CASE UNCHANGED vars
  BY <1>17, SamePhasesStutter DEF vars, SamePhases
<1>18. ASSUME NEW p \in Threads, StartAsync(p) \/ StartStep(p) PROVE SameChain \/ Chain!Next
  BY <1>2, <1>4, <1>5, <1>18 DEF StartStep
<1>19. ASSUME NEW s \in Subs, SubStep(s) PROVE SameChain \/ Chain!Next
  <2>1. CallbackStartsNext(s) => SameChain
    BY CallbackStartsNextStutters
  <2> QED
    BY <1>6, <1>7, <1>8, <1>19, <2>1 DEF SubStep
<1>20. CallbackStep => SameChain
  BY <1>9, <1>10 DEF CallbackStep
<1>21. ASSUME NEW c \in Clients, ClientStep(c) PROVE SameChain \/ Chain!Next
  BY <1>13, <1>14, <1>15, <1>16, <1>21 DEF ClientStep, InferStep
<1> QED
  BY <1>11, <1>12, <1>17, <1>18, <1>19, <1>20, <1>21 DEF Next

(* The inferences that a HETERO request accepts are made one after the     *)
(* other, and each passes the sub-requests in their order, up to the first *)
(* one that fails: the request implements SubRequestChain.                 *)
THEOREM HeteroIsAChain == OneUser /\ NoFailedInfer => (Spec => ImplementsChain)
<1> SUFFICES ASSUME OneUser, NoFailedInfer PROVE Spec => ImplementsChain
  OBVIOUS
<1>1. Init => Chain!Init
  BY DEF Init, Chain!Init, Broken, Succeeded
<1>2. Inv /\ Inv' /\ [Next]_vars => [Chain!Next]_(Chain!chainVars)
  BY StepIsChain
<1> QED
  BY <1>1, <1>2, Invariant, PTL DEF Spec, ImplementsChain, Chain!Spec

-----------------------------------------------------------------------------
(* The flag                                                                *)

\* The places between raising the flag and handing it on or lowering it.
HoldPlaces == {"updating", "starting"} \cup InferPlaces

Held == busy => (\E p \in Threads : thread[p].at \in HoldPlaces) \/ Running \/ Broken

\* A thread that has begun a start has a round for it: MaxRounds bounds the
\* starts where they begin.
StartsHaveRound ==
    \A p \in Threads : thread[p].at \in StartPlaces => history.round < MaxRounds

FlagInv == StartsHaveRound /\ (~InferFails => Held)

LEMMA HeldIs == Held <=> FlagIsHeldForAReason
BY DEF Held, FlagIsHeldForAReason, HoldPlaces, InferPlaces, Running, IsActive

\* A thread at one of these places holds the flag.
LEMMA HolderHolds ==
    ASSUME NEW p \in Threads, thread'[p].at \in HoldPlaces
    PROVE  Held'
BY DEF Held, Threads, HoldPlaces, InferPlaces

LEMMA RunnerHolds ==
    ASSUME NEW s \in Subs, NEW r \in Rounds, phase'[s][r] \in {"infer", "queued", "callback"}
    PROVE  Held'
BY DEF Held, Running, IsActive

\* A step that lets nobody go who holds the flag.
LEMMA SameHold ==
    ASSUME Held, busy' => busy, SamePhases,
           \A p \in Threads : thread[p].at \in HoldPlaces => thread'[p].at \in HoldPlaces
    PROVE  Held'
<1>1. Running' <=> Running
  BY SamePhasesKeep
<1>2. Broken' <=> Broken
  BY DEF SamePhases, Broken, Succeeded
<1> QED
  BY <1>1, <1>2 DEF Held, Threads, HoldPlaces, InferPlaces

\* No start is refused: nobody begins one while a sub-request is active.
LEMMA StartIsServed ==
    ASSUME Inv, NEW p \in Threads, thread[p].at \in {"updating", "starting"}
    PROVE  ~RefusesBlob /\ AtRest(1)
<1>1. p = User \/ p = Callback
  BY StarterIs
<1>2. p = Callback => Restarts
  BY <1>1 DEF Inv, ThreadsOK, Cb, StartPlaces
<1>3. ~Running
  BY <1>1, <1>2 DEF Inv, StartsOK, U, Cb, StartPlaces, InferPlaces
<1>4. \A s \in Subs : AtRest(s)
  BY <1>3 DEF Running, IsActive, AtRest
<1> QED
  BY <1>4, SubsAre DEF RefusesBlob

\* Who moves to a place has that place, and the others stay where they were.
LEMMA MoveIs ==
    ASSUME TypeOK, NEW p \in Threads, NEW place, GoTo(p, place)
    PROVE  thread'[p].at = place /\ \A q \in Threads \ {p} : thread'[q] = thread[q]
<1>1. thread \in [Threads -> ThreadStates]
  BY TypeParts
<1> QED
  BY <1>1 DEF GoTo, ThreadStates

LEMMA StartHolds ==
    ASSUME Inv, FlagInv, ~InferFails, NEW p \in Threads, StartAsync(p) \/ StartStep(p)
    PROVE  Held'
<1> USE DEF Inv
<1>1. Held
  BY DEF FlagInv
<1>2. CASE StartAsync(p)
  <2>1. GoTo(p, "raising") /\ thread[p].at \in {"idle", "inCallback"} /\ SamePhases /\ busy' = busy
    BY <1>2 DEF StartAsync, MayStart, At, SamePhases
  <2>2. \A q \in Threads : thread[q].at \in HoldPlaces => thread'[q].at \in HoldPlaces
    BY <2>1, MoveIs DEF HoldPlaces, InferPlaces
  <2> QED
    BY <1>1, <2>1, <2>2, SameHold
<1>3. CASE StartRaises(p)
  <2>1. thread'[p].at = "updating"
    BY <1>3, MoveIs DEF StartRaises, Move
  <2> QED
    BY <2>1, HolderHolds DEF HoldPlaces
<1>4. CASE StartUpdates(p)
  <2>1. GoTo(p, "starting")
    BY <1>4, StartIsServed DEF StartUpdates, At
  <2>2. thread'[p].at = "starting"
    BY <2>1, MoveIs
  <2> QED
    BY <2>2, HolderHolds DEF HoldPlaces
<1>5. CASE StartFirst(p)
  <2>1. thread[p].at = "starting"
    BY <1>5 DEF StartFirst, Move, At
  <2>2. AtRest(1) /\ history.round < MaxRounds
    BY <2>1, StartIsServed DEF FlagInv, StartsHaveRound, StartPlaces
  <2>3. phase' = [phase EXCEPT ![1][history.round + 1] = "infer"]
    BY <1>5, <2>2 DEF StartFirst, StartSub
  <2>4. history.round + 1 \in Rounds
    BY <2>2, HistoryIs, TypeParts, SubsAre DEF Rounds
  <2>5. phase'[1][history.round + 1] = "infer"
    BY <2>3, <2>4, PhaseChanges, TypeParts, SubsAre DEF Phases
  <2> QED
    BY <2>4, <2>5, RunnerHolds, SubsAre
<1> QED
  BY <1>2, <1>3, <1>4, <1>5 DEF StartStep

LEMMA SubHolds ==
    ASSUME Inv, FlagInv, ~InferFails, NEW s \in Subs, SubStep(s)
    PROVE  Held'
<1> USE DEF Inv
<1>1. Held
  BY DEF FlagInv
<1>2. CASE SubInfers(s)
  <2>1. PICK r \in Rounds, ok \in BOOLEAN :
          /\ phase[s][r] = "infer"
          /\ phase' = [phase EXCEPT ![s][r] = IF enabled[s] THEN "queued"
                                              ELSE IF ok THEN "done" ELSE "error"]
    BY <1>2 DEF SubInfers
  <2>2. CASE enabled[s]
    <3>1. phase'[s][r] = "queued"
      BY <2>1, <2>2, PhaseChanges, TypeParts DEF Phases
    <3> QED
      BY <3>1, RunnerHolds
  <2>3. CASE ~enabled[s]
    <3>1. U.at = "inferWaiting"
      BY <2>3 DEF EnabledOK
    <3>2. thread'[User].at = "inferWaiting"
      BY <1>2, <3>1 DEF SubInfers, U
    <3> QED
      BY <3>2, HolderHolds, UserIs DEF HoldPlaces, InferPlaces
  <2> QED
    BY <2>2, <2>3
<1>3. CASE CallbackBegins(s)
  <2>1. PICK r \in Rounds : phase' = [phase EXCEPT ![s][r] = "callback"]
    BY <1>3 DEF CallbackBegins
  <2>2. phase'[s][r] = "callback"
    BY <2>1, PhaseChanges, TypeParts DEF Phases
  <2> QED
    BY <2>2, RunnerHolds
<1>4. CASE CallbackStartsNext(s)
  <2>1. PICK r \in Rounds :
          /\ s < Length /\ phase[s][r] = "callback"
          /\ phase' = [phase EXCEPT ![s][r] = "called",
                                    ![s + 1][r] = IF GoesOn(s, r) THEN "infer" ELSE @]
    BY <1>4 DEF CallbackStartsNext
  <2>2. CASE GoesOn(s, r)
    <3>1. s + 1 \in Subs /\ s + 1 # s
      BY <2>1, SubsAre
    <3>2. phase'[s + 1][r] = "infer"
      BY <2>1, <2>2, <3>1, TypeParts
    <3> QED
      BY <3>1, <3>2, RunnerHolds
  <2>3. CASE ~GoesOn(s, r)
    <3>1. r = history.round
      BY <2>1 DEF PhasesOK, IsActive
    <3>2. Broken'
      BY <1>4, <2>3, <3>1 DEF GoesOn, Broken, Succeeded, CallbackStartsNext
    <3> QED
      BY <3>2 DEF Held
  <2> QED
    BY <2>2, <2>3
<1>5. CASE TaskEnds(s)
  <2>1. PICK r \in Rounds : phase[s][r] = "called" /\ phase' = [phase EXCEPT ![s][r] = Ended(s, r)]
    BY <1>5 DEF TaskEnds
  <2>2. \A t \in Subs, q \in Rounds : t # s \/ q # r => phase'[t][q] = phase[t][q]
    BY <2>1, PhaseChanges, TypeParts DEF Ended, Phases
  <2>3. Running => Running'
    BY <2>1, <2>2 DEF Running, IsActive
  <2>4. Broken => Broken'
    BY <1>5 DEF TaskEnds, Broken, Succeeded
  <2> QED
    BY <1>1, <1>5, <2>3, <2>4 DEF TaskEnds, Held, Threads, HoldPlaces, InferPlaces
<1> QED
  BY <1>2, <1>3, <1>4, <1>5 DEF SubStep

LEMMA CallbackHolds ==
    ASSUME Inv, FlagInv, ~InferFails, CallbackStep
    PROVE  Held'
<1> USE DEF Inv
<1>1. Held
  BY DEF FlagInv
<1>2. CASE LastCallbackLowers
  BY <1>2 DEF LastCallbackLowers, Held
<1>3. CASE UserCallback \/ CallbackReturns
  <2>1. PICK place : GoTo(Callback, place)
    BY <1>3 DEF UserCallback, CallbackReturns, Move
  <2>2. thread[Callback].at \in {"calling", "inCallback", "calledBack"}
    BY <1>3 DEF UserCallback, CallbackReturns, Move, At
  <2>3. \A p \in Threads : thread[p].at \in HoldPlaces => thread'[p].at \in HoldPlaces
    BY <2>1, <2>2, MoveIs, UserIs DEF HoldPlaces, InferPlaces
  <2>4. SamePhases /\ busy' = busy
    <3>1. history' \in {history, [history EXCEPT !.called = history.called + 1]}
      BY <1>3 DEF UserCallback, CallbackReturns
    <3>2. history'.round = history.round /\ history'.failed = history.failed
      BY <3>1, TypeParts DEF Histories
    <3> QED
      BY <1>3, <3>2 DEF UserCallback, CallbackReturns, SamePhases
  <2> QED
    BY <1>1, <2>3, <2>4, SameHold
<1> QED
  BY <1>2, <1>3 DEF CallbackStep

LEMMA SetBlobMoves ==
    ASSUME TypeOK, NEW c \in Clients, SetBlob(c)
    PROVE  /\ thread[c].at = "setting" /\ GoTo(c, "idle")
           /\ SamePhases /\ busy' = busy
<1>1. thread[c].at = "setting" /\ GoTo(c, "idle")
  BY DEF SetBlob, Move, At
<1>2. PICK n \in Names :
        /\ blobs' \in {[blobs EXCEPT !.roi[n] = history.set + 1],
                       [blobs EXCEPT !.given[n] = history.set + 1]}
        /\ history' = [history EXCEPT !.set = history.set + 1, !.wanted[n] = history.set + 1]
  BY DEF SetBlob
<1>3. history'.round = history.round /\ history'.failed = history.failed
  BY <1>2, TypeParts DEF Histories
<1>4. SamePhases /\ busy' = busy
  BY <1>3 DEF SetBlob, SamePhases
<1> QED
  BY <1>1, <1>4

\* SetBlob() moves its thread, and changes nothing else but blobs.
LEMMA SetBlobIs ==
    ASSUME TypeOK, NEW c \in Clients, SetBlobBegin(c) \/ SetBlob(c)
    PROVE  /\ c \in Threads
           /\ thread[c].at \in {"idle", "setting"} /\ thread'[c].at \in {"idle", "setting"}
           /\ \A q \in Threads \ {c} : thread'[q] = thread[q]
           /\ SamePhases /\ busy' = busy
<1>1. c \in Threads /\ history \in Histories
  BY TypeParts DEF Threads
<1>2. ASSUME SetBlobBegin(c)
      PROVE  /\ thread[c].at = "idle" /\ GoTo(c, "setting")
             /\ SamePhases /\ busy' = busy
  BY <1>2 DEF SetBlobBegin, Move, At, SamePhases
<1>3. ASSUME SetBlob(c)
      PROVE  /\ thread[c].at = "setting" /\ GoTo(c, "idle")
             /\ SamePhases /\ busy' = busy
  BY <1>3, SetBlobMoves
<1> QED
  BY <1>1, <1>2, <1>3, MoveIs

LEMMA ClientHolds ==
    ASSUME Inv, FlagInv, ~InferFails, NEW c \in Clients,
           SetBlobBegin(c) \/ InferBegin(c) \/ ClientStep(c)
    PROVE  Held'
<1> USE DEF Inv
<1>1. Held /\ c \in Threads /\ thread \in [Threads -> ThreadStates]
  BY TypeParts DEF FlagInv, Threads
<1>2. CASE SetBlobBegin(c) \/ SetBlob(c)
  <2>1. \A p \in Threads : thread[p].at \in HoldPlaces => thread'[p].at \in HoldPlaces
    BY <1>1, <1>2, SetBlobIs DEF HoldPlaces, InferPlaces
  <2> QED
    BY <1>1, <1>2, <2>1, SetBlobIs, SameHold
<1>3. CASE InferBegin(c) \/ InferUpdates(c) \/ InferStarts(c) \/ InferWaits(c)
  <2>1. thread'[c].at \in InferPlaces
    BY <1>1, <1>3 DEF InferBegin, InferUpdates, InferStarts, InferWaits, Move, GoTo, ThreadStates,
       InferPlaces
  <2> QED
    BY <1>1, <2>1, HolderHolds DEF HoldPlaces
<1>4. CASE InferLowers(c)
  BY <1>4 DEF InferLowers, Held
<1>5. CASE WaitSub(c) \/ WaitLowers(c)
  <2>1. thread[c].at \in WaitPlaces
    BY <1>5 DEF WaitSub, WaitLowers, At, WaitPlaces
  <2>2. \A p \in Threads \ {c} : thread'[p] = thread[p]
    BY <1>1, <1>5 DEF WaitSub, WaitLowers
  <2>3. \A p \in Threads : thread[p].at \in HoldPlaces => thread'[p].at \in HoldPlaces
    BY <2>1, <2>2 DEF HoldPlaces, InferPlaces, WaitPlaces
  <2>4. SamePhases /\ (busy' => busy)
    BY <1>5, TypeParts DEF WaitSub, WaitLowers, SamePhases
  <2> QED
    BY <1>1, <2>3, <2>4, SameHold
<1> QED
  BY <1>2, <1>3, <1>4, <1>5 DEF ClientStep, InferStep

LEMMA WaitBeginHolds ==
    ASSUME Inv, Held, NEW c \in Clients, NEW mode \in Modes, WaitBegin(c, mode)
    PROVE  Held'
<1>1. thread[c].at = "idle" /\ thread \in [Threads -> ThreadStates] /\ c \in Threads
  BY TypeParts DEF Inv, WaitBegin, At, Threads
<1>2. \A p \in Threads \ {c} : thread'[p] = thread[p]
  BY <1>1 DEF WaitBegin
<1>3. \A p \in Threads : thread[p].at \in HoldPlaces => thread'[p].at \in HoldPlaces
  BY <1>1, <1>2 DEF HoldPlaces, InferPlaces
<1> QED
  BY <1>3, SameHold DEF WaitBegin, SamePhases

\* Only the first sub-request begins a round.
LEMMA RoundSteps ==
    ASSUME TypeOK, [Next]_vars, history'.round # history.round
    PROVE  (\E p \in Threads : StartFirst(p)) \/ (\E c \in Clients : InferStarts(c))
<1>1. history \in Histories
  BY TypeParts
<1>2. ASSUME NEW p \in Threads, StartAsync(p) \/ StartRaises(p) \/ StartUpdates(p) PROVE FALSE
  BY <1>1, <1>2, UpdateTypes DEF StartAsync, StartRaises, StartUpdates
<1>3. ASSUME NEW s \in Subs, SubStep(s) PROVE FALSE
  <2>1. history' = history \/ \E x : history' = [history EXCEPT !.failed = x]
    BY <1>3 DEF SubStep, SubInfers, CallbackBegins, CallbackStartsNext, TaskEnds
  <2> QED
    BY <1>1, <2>1 DEF Histories
<1>4. ASSUME CallbackStep PROVE FALSE
  BY <1>1, <1>4 DEF CallbackStep, LastCallbackLowers, UserCallback, CallbackReturns, Histories
<1>5. ASSUME NEW c \in Clients, NEW mode \in Modes, WaitBegin(c, mode) PROVE FALSE
  BY <1>5 DEF WaitBegin
<1>6. ASSUME NEW c \in Clients, SetBlobBegin(c) \/ InferBegin(c) PROVE FALSE
  BY <1>6 DEF SetBlobBegin, InferBegin
<1>7. ASSUME NEW c \in Clients, SetBlob(c) PROVE FALSE
  BY <1>1, <1>7 DEF SetBlob, Histories
<1>8. ASSUME NEW c \in Clients, InferUpdates(c) PROVE FALSE
  BY <1>8, UpdateTypes DEF InferUpdates
<1>9. ASSUME NEW c \in Clients, WaitSub(c) \/ WaitLowers(c) \/ InferWaits(c) \/ InferLowers(c)
      PROVE  FALSE
  BY <1>9 DEF WaitSub, WaitLowers, InferWaits, InferLowers
<1>10. CASE UNCHANGED vars
  BY <1>10 DEF vars
<1> QED
  BY <1>2, <1>3, <1>4, <1>5, <1>6, <1>7, <1>8, <1>9, <1>10
  DEF Next, StartStep, ClientStep, InferStep

LEMMA UsageStays == ASSUME [Next]_vars PROVE usage' = usage /\ topology' = topology
<1>1. ASSUME NEW p \in Threads, StartAsync(p) \/ StartStep(p)
      PROVE  usage' = usage /\ topology' = topology
  BY <1>1 DEF StartAsync, StartStep, StartRaises, StartUpdates, StartFirst
<1>2. ASSUME NEW s \in Subs, SubStep(s) PROVE usage' = usage /\ topology' = topology
  BY <1>2 DEF SubStep, SubInfers, CallbackBegins, CallbackStartsNext, TaskEnds
<1>3. ASSUME CallbackStep PROVE usage' = usage /\ topology' = topology
  BY <1>3 DEF CallbackStep, LastCallbackLowers, UserCallback, CallbackReturns
<1>4. ASSUME NEW c \in Clients, SetBlobBegin(c) \/ InferBegin(c)
      PROVE  usage' = usage /\ topology' = topology
  BY <1>4 DEF SetBlobBegin, InferBegin
<1>5. ASSUME NEW c \in Clients, NEW mode \in Modes, WaitBegin(c, mode)
      PROVE  usage' = usage /\ topology' = topology
  BY <1>5 DEF WaitBegin
<1>6. ASSUME NEW c \in Clients, SetBlob(c) PROVE usage' = usage /\ topology' = topology
  BY <1>6 DEF SetBlob
<1>7. ASSUME NEW c \in Clients, WaitSub(c) \/ WaitLowers(c) \/ InferStep(c)
      PROVE  usage' = usage /\ topology' = topology
  BY <1>7 DEF WaitSub, WaitLowers, InferStep, InferUpdates, InferStarts, InferWaits, InferLowers
<1>8. CASE UNCHANGED vars
  BY <1>8 DEF vars
<1> QED
  BY <1>1, <1>2, <1>3, <1>4, <1>5, <1>6, <1>7, <1>8 DEF Next, ClientStep

\* A thread comes to a start only through StartAsync(), ...
LEMMA StartersBegan ==
    ASSUME TypeOK, [Next]_vars, NEW p \in Threads, thread'[p].at \in StartPlaces
    PROVE  thread[p].at \in StartPlaces \/ (StartAsync(p) /\ history' = history)
<1> USE DEF StartPlaces
<1>1. thread \in [Threads -> ThreadStates]
  BY TypeParts
<1>2. ASSUME NEW q \in Threads, StartAsync(q) \/ StartStep(q)
      PROVE  thread[p].at \in StartPlaces \/ (StartAsync(p) /\ history' = history)
  BY <1>1, <1>2 DEF StartAsync, StartStep, StartRaises, StartUpdates, StartFirst, Move, GoTo, At,
     ThreadStates
<1>3. ASSUME NEW s \in Subs, SubStep(s) PROVE thread' = thread
  BY <1>3 DEF SubStep, SubInfers, CallbackBegins, CallbackStartsNext, TaskEnds
<1>4. ASSUME CallbackStep PROVE thread[p].at \in StartPlaces
  BY <1>1, <1>4 DEF CallbackStep, LastCallbackLowers, UserCallback, CallbackReturns, Move, GoTo,
     ThreadStates
<1>5. ASSUME NEW c \in Clients,
             SetBlobBegin(c) \/ InferBegin(c) \/ ClientStep(c)
               \/ \E mode \in Modes : WaitBegin(c, mode)
      PROVE  thread[p].at \in StartPlaces
  <2>1. CASE SetBlobBegin(c) \/ SetBlob(c)
    BY <2>1, SetBlobIs
  <2>6. CASE InferUpdates(c) \/ InferStarts(c)
    BY <1>1, <2>6 DEF InferUpdates, InferStarts, Move, GoTo, ThreadStates
  <2>2. CASE InferBegin(c) \/ InferWaits(c)
    BY <1>1, <2>2 DEF InferBegin, InferWaits, ThreadStates
  <2>3. CASE WaitLowers(c) \/ InferLowers(c)
    BY <1>1, <2>3 DEF WaitLowers, InferLowers, Idle, ThreadStates
  <2>4. CASE WaitSub(c)
    BY <1>1, <2>4 DEF WaitSub, ThreadStates
  <2>5. CASE \E mode \in Modes : WaitBegin(c, mode)
    BY <1>1, <2>5 DEF WaitBegin, ThreadStates
  <2> QED
    BY <1>5, <2>1, <2>2, <2>3, <2>4, <2>5, <2>6 DEF ClientStep, InferStep
<1>6. CASE UNCHANGED vars
  BY <1>6 DEF vars
<1> QED
  BY <1>2, <1>3, <1>4, <1>5, <1>6 DEF Next

\* ... and a round begins where nobody else is inside a start.
LEMMA RoundBegins ==
    ASSUME Inv, [Next]_vars, history'.round # history.round,
           NEW p \in Threads, thread[p].at \in StartPlaces
    PROVE  thread'[p].at \notin StartPlaces
<1> USE DEF Inv
<1>1. (\E q \in Threads : StartFirst(q)) \/ (\E c \in Clients : InferStarts(c))
  BY RoundSteps
<1>2. p = User \/ p = Callback
  BY StarterIs DEF StartPlaces
<1>3. ASSUME NEW q \in Threads, StartFirst(q) PROVE p = q
  <2>1. thread[q].at = "starting"
    BY <1>3 DEF StartFirst, Move, At
  <2>2. q = User \/ q = Callback
    BY <2>1, StarterIs
  <2> QED
    BY <1>2, <2>1, <2>2 DEF StartsOK, ThreadsOK, U, Cb, StartPlaces
<1>4. ASSUME NEW q \in Threads, StartFirst(q) PROVE thread'[p].at \notin StartPlaces
  <2>1. GoTo(p, Back(p))
    BY <1>3, <1>4 DEF StartFirst, Move
  <2> QED
    BY <2>1, MoveIs DEF Back, StartPlaces
<1>5. ASSUME NEW c \in Clients, InferStarts(c) PROVE FALSE
  <2>1. thread[c].at = "inferStarting"
    BY <1>5 DEF InferStarts, Move, At
  <2>2. c = User
    BY <2>1 DEF ThreadsOK, At
  <2> QED
    BY <1>2, <2>1, <2>2 DEF StartsOK, ThreadsOK, U, Cb, StartPlaces, InferPlaces
<1> QED
  BY <1>1, <1>4, <1>5

LEMMA NextFlag == Inv /\ FlagInv /\ [Next]_vars => FlagInv'
<1> SUFFICES ASSUME Inv, FlagInv, [Next]_vars PROVE FlagInv'
  OBVIOUS
<1>1. StartsHaveRound'
  <2> SUFFICES ASSUME NEW p \in Threads, thread'[p].at \in StartPlaces
               PROVE  history'.round < MaxRounds
    BY DEF StartsHaveRound, StartPlaces, Threads
  <2>1. thread[p].at \in StartPlaces \/ (StartAsync(p) /\ history' = history)
    BY StartersBegan DEF Inv
  <2>2. CASE thread[p].at \in StartPlaces
    BY <2>2, RoundBegins DEF FlagInv, StartsHaveRound
  <2>3. CASE StartAsync(p) /\ history' = history
    BY <2>3 DEF StartAsync, MayStart
  <2> QED
    BY <2>1, <2>2, <2>3
<1>2. usage' = usage
  BY UsageStays
<1>3. InferFails' <=> InferFails
  BY <1>2 DEF InferFails
<1>4. ASSUME ~InferFails PROVE Held'
  <2>1. Held
    BY <1>4 DEF FlagInv
  <2>2. ASSUME NEW p \in Threads, StartAsync(p) \/ StartStep(p) PROVE Held'
    BY <1>4, <2>2, StartHolds
  <2>3. ASSUME NEW s \in Subs, SubStep(s) PROVE Held'
    BY <1>4, <2>3, SubHolds
  <2>4. ASSUME CallbackStep PROVE Held'
    BY <1>4, <2>4, CallbackHolds
  <2>5. ASSUME NEW c \in Clients, SetBlobBegin(c) \/ InferBegin(c) \/ ClientStep(c) PROVE Held'
    BY <1>4, <2>5, ClientHolds
  <2>6. ASSUME NEW c \in Clients, NEW mode \in Modes, WaitBegin(c, mode) PROVE Held'
    BY <2>1, <2>6, WaitBeginHolds
  <2>7. CASE UNCHANGED vars
    <3>1. SamePhases /\ busy' = busy /\ thread' = thread
      BY <2>7 DEF vars, SamePhases
    <3> QED
      BY <2>1, <3>1, SameHold
  <2> QED
    BY <2>2, <2>3, <2>4, <2>5, <2>6, <2>7 DEF Next
<1> QED
  BY <1>1, <1>3, <1>4 DEF FlagInv

LEMMA InitFlag == Init => FlagInv
<1> SUFFICES ASSUME Init PROVE FlagInv
  OBVIOUS
<1>1. \A p \in Threads : thread[p].at = "idle"
  BY DEF Init, Idle
<1> QED
  BY <1>1 DEF Init, FlagInv, StartsHaveRound, StartPlaces, Held

(* While the flag is up a thread is inside a start or an Infer(), or a     *)
(* sub-request has an inference to make or a callback to call, or the last *)
(* round has failed: nobody forgets to lower the flag, except where the    *)
(* chain of the callbacks breaks.                                          *)
THEOREM FlagIsNotForgotten == OneUser /\ NoFailedInfer => (Spec => []FlagIsHeldForAReason)
<1> SUFFICES ASSUME OneUser, NoFailedInfer PROVE Spec => []FlagIsHeldForAReason
  OBVIOUS
<1>1. Inv /\ FlagInv => FlagIsHeldForAReason
  <2>1. Inv => ~InferFails
    BY TypeParts DEF Inv, NoFailedInfer, InferFails
  <2> QED
    BY <2>1, HeldIs DEF FlagInv
<1> QED
  BY <1>1, Invariant, NextFlag, InitFlag, PTL DEF Spec

-----------------------------------------------------------------------------
(* Who goes on                                                             *)

\* A network has an input or an output, which can be set.
SomeBlobIsAsked ==
    \A w \in Topologies : \E n \in Names : w[n].from = 0 \/ w[n].output

\* What is waited for has been begun.
BegunOK ==
    /\ \A s \in Subs : current[s] # 0 => phase[s][current[s]] # "none"
    /\ \A c \in Clients : At(c, "waiting") /\ thread[c].round # 0 =>
          phase[thread[c].sub][thread[c].round] # "none"

LEMMA InitBegun == Init => BegunOK
<1> SUFFICES ASSUME Init PROVE BegunOK
  OBVIOUS
<1>1. \A c \in Clients : ~At(c, "waiting")
  BY DEF Init, Idle, At, Threads
<1> QED
  BY <1>1 DEF Init, BegunOK

\* A phase that has been begun stays begun, ...
LEMMA BegunStays ==
    ASSUME TypeOK, NEW s \in Subs, NEW r \in Rounds, NEW p \in Phases \ {"none"},
           phase' = [phase EXCEPT ![s][r] = p]
    PROVE  /\ \A t \in Subs, q \in Rounds : phase[t][q] # "none" => phase'[t][q] # "none"
           /\ phase'[s][r] # "none"
BY PhaseChanges, TypeParts

\* ... and who becomes the current task is begun.
Begins == /\ \A s \in Subs, r \in Rounds : phase[s][r] # "none" => phase'[s][r] # "none"
          /\ \A s \in Subs : \/ current'[s] = current[s]
                             \/ current'[s] \in Rounds /\ phase'[s][current'[s]] # "none"

LEMMA StartSubBegins ==
    ASSUME TypeOK, NEW s \in Subs, NEW r \in Rounds, StartSub(s, r)
    PROVE  Begins
<1>1. /\ \A t \in Subs, q \in Rounds : phase[t][q] # "none" => phase'[t][q] # "none"
      /\ phase'[s][r] # "none"
  BY BegunStays DEF StartSub, Phases
<1>2. current'[s] = r /\ \A t \in Subs \ {s} : current'[t] = current[t]
  BY TypeParts DEF StartSub
<1> QED
  BY <1>1, <1>2 DEF Begins

LEMMA NextBegins ==
    ASSUME Inv, [Next]_vars
    PROVE  Begins
<1> USE DEF Inv
<1>1. ASSUME UNCHANGED <<phase, current>> PROVE Begins
  BY <1>1 DEF Begins
<1>2. ASSUME NEW p \in Threads, StartAsync(p) \/ StartRaises(p) \/ StartUpdates(p) PROVE Begins
  BY <1>1, <1>2 DEF StartAsync, StartRaises, StartUpdates
<1>3. ASSUME NEW p \in Threads, StartFirst(p) PROVE Begins
  <2>1. CASE AtRest(1) /\ history.round < MaxRounds
    <3>1. history.round + 1 \in Rounds /\ 1 \in Subs
      BY <2>1, HistoryIs, TypeParts, SubsAre DEF Rounds
    <3> QED
      BY <1>3, <2>1, <3>1, StartSubBegins DEF StartFirst
  <2>2. CASE ~(AtRest(1) /\ history.round < MaxRounds)
    BY <1>1, <1>3, <2>2 DEF StartFirst
  <2> QED
    BY <2>1, <2>2
<1>4. ASSUME NEW s \in Subs, SubInfers(s) \/ CallbackBegins(s) \/ TaskEnds(s) PROVE Begins
  <2>1. \E r \in Rounds, p \in Phases \ {"none"} : phase' = [phase EXCEPT ![s][r] = p]
    <3>1. CASE SubInfers(s)
      <4>1. PICK r \in Rounds, ok \in BOOLEAN :
              phase' = [phase EXCEPT ![s][r] = IF enabled[s] THEN "queued"
                                               ELSE IF ok THEN "done" ELSE "error"]
        BY <3>1 DEF SubInfers
      <4>2. (IF enabled[s] THEN "queued" ELSE IF ok THEN "done" ELSE "error") \in Phases \ {"none"}
        BY DEF Phases
      <4> QED
        BY <4>1, <4>2
    <3>2. CASE CallbackBegins(s)
      BY <3>2 DEF CallbackBegins, Phases
    <3>3. CASE TaskEnds(s)
      BY <3>3 DEF TaskEnds, Ended, Phases
    <3> QED
      BY <1>4, <3>1, <3>2, <3>3
  <2>2. current' = current
    BY <1>4 DEF SubInfers, CallbackBegins, TaskEnds
  <2> QED
    BY <2>1, <2>2, BegunStays DEF Begins
<1>5. ASSUME NEW s \in Subs, CallbackStartsNext(s) PROVE Begins
  <2>1. PICK r \in Rounds :
          /\ s < Length
          /\ phase' = [phase EXCEPT ![s][r] = "called",
                                    ![s + 1][r] = IF GoesOn(s, r) THEN "infer" ELSE @]
          /\ current' = [current EXCEPT ![s + 1] = IF GoesOn(s, r) THEN r ELSE @]
    BY <1>5 DEF CallbackStartsNext
  <2>2. s + 1 \in Subs /\ s + 1 # s
    BY <2>1, SubsAre
  <2>3. \A t \in Subs, q \in Rounds : phase[t][q] # "none" => phase'[t][q] # "none"
    BY <2>1, <2>2, TypeParts
  <2>4. GoesOn(s, r) => phase'[s + 1][r] # "none" /\ current'[s + 1] = r
    BY <2>1, <2>2, TypeParts
  <2>5. /\ \A t \in Subs \ {s + 1} : current'[t] = current[t]
        /\ ~GoesOn(s, r) => current'[s + 1] = current[s + 1]
    BY <2>1, <2>2, TypeParts
  <2> QED
    BY <2>2, <2>3, <2>4, <2>5 DEF Begins
<1>6. ASSUME CallbackStep PROVE Begins
  <2>1. CASE LastCallbackLowers
    <3>1. PICK r \in Rounds : phase' = [phase EXCEPT ![Length][r] = "called"]
      BY <2>1 DEF LastCallbackLowers
    <3>2. current' = current
      BY <2>1 DEF LastCallbackLowers
    <3> QED
      BY <3>1, <3>2, BegunStays, SubsAre DEF Begins, Phases
  <2>2. CASE UserCallback \/ CallbackReturns
    BY <1>1, <2>2 DEF UserCallback, CallbackReturns
  <2> QED
    BY <1>6, <2>1, <2>2 DEF CallbackStep
<1>7. ASSUME NEW c \in Clients, InferStarts(c) PROVE Begins
  <2>1. thread[c].at = "inferStarting"
    BY <1>7 DEF InferStarts, Move, At
  <2>2. c = User
    BY <2>1 DEF ThreadsOK, At
  <2>3. U.round \in Rounds /\ U.sub \in Subs
    BY <2>1, <2>2, TypeParts, UserIs DEF InfersOK, U, ThreadStates
  <2> QED
    BY <1>7, <2>2, <2>3, StartSubBegins DEF InferStarts, U
<1>8. ASSUME NEW c \in Clients,
             SetBlobBegin(c) \/ InferBegin(c) \/ \E mode \in Modes : WaitBegin(c, mode)
      PROVE  Begins
  BY <1>1, <1>8 DEF SetBlobBegin, InferBegin, WaitBegin
<1>9. ASSUME NEW c \in Clients, SetBlob(c) PROVE Begins
  BY <1>1, <1>9, SetBlobMoves DEF SamePhases
<1>10. ASSUME NEW c \in Clients,
              WaitSub(c) \/ WaitLowers(c) \/ InferUpdates(c) \/ InferWaits(c) \/ InferLowers(c)
       PROVE  Begins
  BY <1>1, <1>10 DEF WaitSub, WaitLowers, InferUpdates, InferWaits, InferLowers
<1>11. CASE UNCHANGED vars
  BY <1>1, <1>11 DEF vars
<1> QED
  BY <1>2, <1>3, <1>4, <1>5, <1>6, <1>7, <1>8, <1>9, <1>10, <1>11
  DEF Next, StartStep, SubStep, ClientStep, InferStep

\* Who waits takes over the current task of a sub-request, or goes on waiting.
LEMMA WaitersStay ==
    ASSUME Inv, [Next]_vars, NEW c \in Clients, thread'[c].at = "waiting"
    PROVE  \/ thread'[c] = thread[c]
           \/ /\ current' = current /\ thread'[c].sub \in Subs
              /\ thread'[c].round = current[thread'[c].sub]
<1> USE DEF Inv
<1>1. thread \in [Threads -> ThreadStates] /\ c \in Threads
  BY TypeParts DEF Threads
<1>2. ASSUME NEW p \in Threads, StartAsync(p) \/ StartStep(p) PROVE thread'[c] = thread[c]
  <2>1. PICK place \in {"raising", "updating", "starting", "idle", "calledBack"} : GoTo(p, place)
    BY <1>2 DEF StartAsync, StartStep, StartRaises, StartUpdates, StartFirst, Move, Back
  <2> QED
    BY <1>1, <2>1, MoveIs
<1>3. ASSUME NEW s \in Subs, SubStep(s) PROVE thread'[c] = thread[c]
  BY <1>3 DEF SubStep, SubInfers, CallbackBegins, CallbackStartsNext, TaskEnds
<1>4. ASSUME CallbackStep PROVE thread'[c] = thread[c]
  <2>1. c # Callback
    BY HeteroAssumption
  <2>2. thread' = thread \/ \E place \in {"calling", "inCallback", "idle"} : GoTo(Callback, place)
    BY <1>4 DEF CallbackStep, LastCallbackLowers, UserCallback, CallbackReturns, Move
  <2> QED
    BY <1>1, <2>1, <2>2, MoveIs, UserIs
<1>5. ASSUME NEW d \in Clients, SetBlobBegin(d) \/ SetBlob(d) PROVE thread'[c] = thread[c]
  BY <1>1, <1>5, SetBlobIs
<1>6. ASSUME NEW d \in Clients, InferUpdates(d) \/ InferStarts(d) PROVE thread'[c] = thread[c]
  <2>1. PICK place \in {"inferStarting", "inferWaiting"} : GoTo(d, place)
    BY <1>6 DEF InferUpdates, InferStarts, Move
  <2> QED
    BY <1>1, <2>1, MoveIs DEF Threads
<1>7. ASSUME NEW d \in Clients, InferBegin(d) \/ InferWaits(d) \/ InferLowers(d) \/ WaitLowers(d)
      PROVE  thread'[c] = thread[c]
  BY <1>1, <1>7 DEF InferBegin, InferWaits, InferLowers, WaitLowers, Idle, ThreadStates
<1>8. ASSUME NEW d \in Clients, WaitSub(d)
      PROVE  \/ thread'[c] = thread[c]
             \/ /\ current' = current /\ thread'[c].sub \in Subs
                /\ thread'[c].round = current[thread'[c].sub]
  <2>1. d \in Threads /\ thread[d].sub \in Subs
    BY <1>1 DEF Threads, ThreadStates
  <2>2. CASE /\ thread[d].sub < Length
             /\ thread' = [thread EXCEPT ![d].sub = thread[d].sub + 1,
                                         ![d].round = current[thread[d].sub + 1]]
    <3>1. thread[d].sub + 1 \in Subs
      BY <2>1, <2>2, SubsAre
    <3>2. d = c =>
            thread'[c].sub = thread[d].sub + 1 /\ thread'[c].round = current[thread[d].sub + 1]
      BY <1>1, <2>2 DEF ThreadStates
    <3>3. d # c => thread'[c] = thread[c]
      BY <1>1, <2>2
    <3> QED
      BY <1>8, <3>1, <3>2, <3>3 DEF WaitSub
  <2>3. CASE \E told : thread' = [thread EXCEPT ![d].at = "lowering", ![d].told = told]
    BY <1>1, <2>1, <2>3 DEF ThreadStates
  <2> QED
    BY <1>8, <2>2, <2>3 DEF WaitSub
<1>9. ASSUME NEW d \in Clients, NEW mode \in Modes, WaitBegin(d, mode)
      PROVE  \/ thread'[c] = thread[c]
             \/ /\ current' = current /\ thread'[c].sub \in Subs
                /\ thread'[c].round = current[thread'[c].sub]
  <2>1. current' = current
    BY <1>9 DEF WaitBegin
  <2>2. d = c => thread'[c].sub = 1 /\ thread'[c].round = current[1]
    BY <1>1, <1>9 DEF WaitBegin, ThreadStates
  <2>3. d # c => thread'[c] = thread[c]
    BY <1>1, <1>9 DEF WaitBegin
  <2> QED
    BY <2>1, <2>2, <2>3, SubsAre
<1>10. CASE UNCHANGED vars
  BY <1>10 DEF vars
<1> QED
  BY <1>2, <1>3, <1>4, <1>5, <1>6, <1>7, <1>8, <1>9, <1>10 DEF Next, ClientStep, InferStep

LEMMA NextBegun == Inv /\ Inv' /\ BegunOK /\ [Next]_vars => BegunOK'
<1> SUFFICES ASSUME Inv, Inv', BegunOK, [Next]_vars PROVE BegunOK'
  OBVIOUS
<1>1. Begins
  BY NextBegins
<1>2. /\ current \in [Subs -> 0..MaxRounds] /\ current' \in [Subs -> 0..MaxRounds]
      /\ thread \in [Threads -> ThreadStates]
  BY TypeParts DEF Inv, TypeOK
<1>3. \A s \in Subs : current'[s] # 0 => phase'[s][current'[s]] # "none"
  <2> SUFFICES ASSUME NEW s \in Subs, current'[s] # 0, current'[s] = current[s]
               PROVE  phase'[s][current'[s]] # "none"
    BY <1>1 DEF Begins
  <2>1. current[s] \in Rounds
    BY <1>2, SubsAre
  <2> QED
    BY <1>1, <2>1 DEF BegunOK, Begins
<1>4. ASSUME NEW c \in Clients, At(c, "waiting")', thread'[c].round # 0
      PROVE  phase'[thread'[c].sub][thread'[c].round] # "none"
  <2>1. CASE thread'[c] = thread[c]
    <3>1. thread[c].sub \in Subs /\ thread[c].round \in Rounds
      BY <1>2, <1>4, <2>1, SubsAre DEF ThreadStates, Threads
    <3> QED
      BY <1>1, <1>4, <2>1, <3>1 DEF BegunOK, Begins, At
  <2>2. CASE /\ current' = current /\ thread'[c].sub \in Subs
             /\ thread'[c].round = current[thread'[c].sub]
    BY <1>3, <1>4, <2>2
  <2> QED
    BY <1>4, <2>1, <2>2, WaitersStay DEF At
<1> QED
  BY <1>3, <1>4 DEF BegunOK

\* When nobody can go on, the callback thread is at rest and no sub-request
\* is active, ...
LEMMA StuckSubs ==
    ASSUME Inv, ~\E p \in Threads : ThreadGoesOn(p),
           ~\E s \in Subs, r \in Rounds : SubGoesOn(s, r)
    PROVE  /\ At(Callback, "idle")
           /\ \A s \in Subs, r \in Rounds : phase[s][r] \in {"none", "done", "error"}
<1> USE DEF Inv
<1>1. At(Callback, "idle")
  BY UserIs DEF ThreadGoesOn, ThreadsOK, Cb, At, CallbackPlaces, StartPlaces
<1>2. ASSUME NEW s \in Subs, NEW r \in Rounds
      PROVE  phase[s][r] \in {"none", "done", "error"}
  <2>1. phase[s][r] \in Phases
    BY TypeParts
  <2>2. phase[s][r] # "infer" /\ phase[s][r] # "called"
    BY <1>1 DEF SubGoesOn
  <2>3. phase[s][r] # "queued"
    <3> SUFFICES ASSUME phase[s][r] = "queued" PROVE FALSE
      OBVIOUS
    <3>1. \A q \in Rounds : q # r => ~IsActive(s, q)
      BY OneActive DEF IsActive
    <3> QED
      BY <3>1 DEF IsActive, SubGoesOn
  <2>4. phase[s][r] # "callback"
    <3> SUFFICES ASSUME phase[s][r] = "callback" PROVE FALSE
      OBVIOUS
    <3>1. s # Length
      BY <1>1 DEF SubGoesOn
    <3>2. s < Length /\ s + 1 \in Subs /\ s + 1 # s
      BY <3>1, SubsAre
    <3>3. \A q \in Rounds : ~IsActive(s + 1, q)
      BY <3>2, OneActive DEF IsActive
    <3>4. AtRest(s + 1)
      BY <3>3 DEF AtRest, IsActive
    <3> QED
      BY <3>2, <3>4 DEF SubGoesOn
  <2> QED
    BY <2>1, <2>2, <2>3, <2>4 DEF Phases
<1> QED
  BY <1>1, <1>2

\* ... so that nobody has anything to wait for.
LEMMA NobodyIsStuck ==
    ASSUME SomeBlobIsAsked, Inv, BegunOK
    PROVE  SomebodyGoesOn
<1> USE DEF Inv
<1> SUFFICES ASSUME ~\E p \in Threads : ThreadGoesOn(p),
                    ~\E s \in Subs, r \in Rounds : SubGoesOn(s, r)
             PROVE  Quiescent
  BY DEF SomebodyGoesOn
<1>1. /\ At(Callback, "idle")
      /\ \A s \in Subs, r \in Rounds : phase[s][r] \in {"none", "done", "error"}
  BY StuckSubs
<1>2. U \in ThreadStates /\ thread[User] = U /\ ~ThreadGoesOn(User)
  BY TypeParts, UserIs DEF U
<1>3. U.at \in {"idle", "setting", "waiting", "inferStarting", "inferWaiting"}
  BY <1>2 DEF ThreadGoesOn
<1>4. U.at # "setting"
  <2>1. PICK n \in Names : topology[n].from = 0 \/ topology[n].output
    BY TypeParts DEF SomeBlobIsAsked
  <2>2. Askers(n) # {}
    <3>1. topology[n] \in Wirings
      BY TypeParts, HeteroAssumption
    <3> QED
      BY <2>1, <3>1 DEF Wirings, Askers, IsInput, Readers
  <2> QED
    BY <1>2, <2>2 DEF ThreadGoesOn, At
<1>5. U.at # "inferStarting"
  <2>1. AtRest(U.sub)
    BY <1>1, <1>2 DEF AtRest, ThreadStates
  <2> QED
    BY <1>2, <2>1 DEF ThreadGoesOn, At
<1>6. U.at # "inferWaiting"
  <2> SUFFICES ASSUME U.at = "inferWaiting" PROVE FALSE
    OBVIOUS
  <2>1. U.round \in Rounds /\ U.sub \in Subs /\ phase[U.sub][U.round] \in {"infer", "done", "error"}
    BY <1>2 DEF InfersOK, ThreadStates
  <2>2. phase[U.sub][U.round] # "infer"
    BY <1>1, <2>1
  <2> QED
    BY <1>2, <2>1, <2>2 DEF ThreadGoesOn, At
<1>7. U.at # "waiting"
  <2> SUFFICES ASSUME U.at = "waiting" PROVE FALSE
    OBVIOUS
  <2>1. WaitStatus(U.sub, U.round) = "RESULT_NOT_READY"
    BY <1>2 DEF ThreadGoesOn, At
  <2>2. U.round # 0
    BY <2>1 DEF WaitStatus
  <2>3. U.sub \in Subs /\ U.round \in Rounds
    BY <1>2, <2>2, SubsAre DEF ThreadStates
  <2>4. phase[U.sub][U.round] # "none"
    BY <1>2, <2>2, UserIs DEF BegunOK, At
  <2>5. phase[U.sub][U.round] \in {"done", "error"}
    BY <1>1, <2>3, <2>4
  <2> QED
    BY <2>1, <2>2, <2>5 DEF WaitStatus
<1>8. \A p \in Threads : At(p, "idle")
  BY <1>1, <1>2, <1>3, <1>4, <1>5, <1>6, <1>7, UserIs DEF ThreadsOK, At
<1> QED
  BY <1>1, <1>8 DEF Quiescent

(* Never does everybody wait for everybody: while an inference or a call   *)
(* of the library is under way, a thread, a device or a callback can go on *)
(* without a timeout, in every way in which one client and the callback    *)
(* use the request, inferences that fail and Infer() included.             *)
THEOREM HeteroDoesNotDeadlock == OneUser /\ SomeBlobIsAsked => (Spec => []SomebodyGoesOn)
<1> SUFFICES ASSUME OneUser, SomeBlobIsAsked PROVE Spec => []SomebodyGoesOn
  OBVIOUS
<1>1. Inv /\ BegunOK => SomebodyGoesOn
  BY NobodyIsStuck
<1>2. Inv /\ Inv' /\ BegunOK /\ [Next]_vars => BegunOK'
  BY NextBegun
<1> QED
  BY <1>1, <1>2, InitBegun, Invariant, PTL DEF Spec
=============================================================================
