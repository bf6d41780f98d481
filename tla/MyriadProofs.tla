---------------------------- MODULE MyriadProofs ----------------------------
(***************************************************************************)
(* Proofs about the two components of the MYRIAD plugin.                   *)
(*                                                                         *)
(* MyriadDevicePool, for every set of sticks and networks: type            *)
(* correctness, _graphNum counts the networks of a device exactly, no      *)
(* stick is overfilled, a request has its graph on its device, and a stick *)
(* is shared only when none is empty.  The argument: one network at a time *)
(* enters or leaves the holders of one device, in the critical section     *)
(* that changes its count; a count is only raised below the maximum, or    *)
(* from zero; and each graph on a stick belongs to a holder.               *)
(*                                                                         *)
(* MyriadInferRequests, for every set of networks and of requests, every   *)
(* size of the FIFOs and every sharing of executors, when the clients of a *)
(* network agree on StartAsync() or on Infer(): the types, and, until a    *)
(* trigger is refused, the FIFOs hold the inferences in flight in the      *)
(* order in which they are read, and a request gets the result of its own  *)
(* input; each refused trigger leaves one element more.  The argument: a   *)
(* request writes and triggers at the head of its queue, and all requests  *)
(* of a network write from the same queue.  So when one writes, the others *)
(* in flight stand in the queue of results already, and it will join that  *)
(* queue behind them.                                                      *)
(***************************************************************************)
EXTENDS MyriadInferRequests, MyriadDevicePool, SequenceTheorems, FiniteSetTheorems, TLAPS

-----------------------------------------------------------------------------
(* MyriadDevicePool                                                        *)

\* A stick that has not been booted holds nothing.
UnbootedIsEmpty == ~closed => \A d \in Devices \ booted : graphNum[d] = 0 /\ Holders(d) = {}

NeverOverfull == \A d \in booted : graphNum[d] <= MaxGraphNum[d]

\* A graph on a stick belongs to a network that holds a place there, and a
\* loaded network has its graph on its stick.
GraphsBelong == \A n \in ExecutableNetworks :
    /\ n \in graphs => n \in Holders(network[n].on) /\ IsBooted(n)
    /\ IsAt(n, "loaded") /\ IsBooted(n) => n \in graphs

RequestsBelong == \A n \in requests : IsAt(n, "loaded")

\* Nothing is loaded, and no stick is open, when the plugin is unloaded.
ClosedIsEmpty == closed => /\ booted = {} /\ graphs = {}
                           /\ \A n \in ExecutableNetworks : ~IsAt(n, "opened")

PoolInv == /\ PoolTypeOK /\ UnbootedIsEmpty /\ CountsAreExact /\ NeverOverfull
       /\ GraphsBelong /\ RequestsBelong /\ ClosedIsEmpty /\ RequestsHaveGraph

-----------------------------------------------------------------------------
\* The holders of a device are finitely many.
LEMMA HoldersFinite ==
    ASSUME NEW d
    PROVE  IsFiniteSet(Holders(d)) /\ Cardinality(Holders(d)) \in Nat
<1>1. Holders(d) \subseteq ExecutableNetworks
  BY DEF Holders
<1>2. IsFiniteSet(Holders(d))
  BY <1>1, PoolAssumption, FS_Subset
<1> QED
  BY <1>2, FS_CardinalityType

LEMMA PoolInitInv == PoolInit => PoolInv
<1> SUFFICES ASSUME PoolInit PROVE PoolInv
  OBVIOUS
<1>1. PoolTypeOK
  BY PoolAssumption DEF PoolInit, PoolTypeOK
<1>2. \A d : Holders(d) = {}
  BY DEF PoolInit, Holders
<1>3. UnbootedIsEmpty
  BY <1>2 DEF PoolInit, UnbootedIsEmpty
<1> QED
  BY <1>1, <1>3 DEF PoolInit, PoolInv, CountsAreExact, NeverOverfull, GraphsBelong, RequestsBelong,
     ClosedIsEmpty, RequestsHaveGraph, IsAt, IsBooted

-----------------------------------------------------------------------------
\* A network gets a place on a device: one of the pool that is not full, or
\* one that is booted for it.
LEMMA PlaceInv ==
    ASSUME PoolInv, NEW n \in ExecutableNetworks, NEW d \in Devices, ~closed, IsAt(n, "none"),
           Place(n, d),
           \/ d \in booted /\ booted' = booted /\ graphNum[d] < MaxGraphNum[d]
           \/ d \notin booted /\ booted' = booted \cup {d}
    PROVE  PoolInv'
<1> USE DEF PoolInv
<1>1. PoolTypeOK'
  BY DEF Place, PoolTypeOK
<1>2. /\ network' = [network EXCEPT ![n] = [at |-> "opened", on |-> d]]
      /\ network'[n] = [at |-> "opened", on |-> d]
      /\ \A m \in ExecutableNetworks \ {n} : network'[m] = network[m]
  BY DEF Place, PoolTypeOK
<1>3. n \notin Holders(d) /\ Holders(d)' = Holders(d) \cup {n}
  BY <1>2 DEF Holders, IsAt
<1>4. \A e \in Devices \ {d} : Holders(e)' = Holders(e)
  BY <1>2 DEF Holders, IsAt
<1>5. graphNum[d] = Cardinality(Holders(d))
  <2>1. CASE d \in booted
    BY <2>1 DEF CountsAreExact
  <2>2. CASE d \notin booted
    BY <2>2, FS_EmptySet DEF UnbootedIsEmpty
  <2> QED
    BY <2>1, <2>2
<1>6. Cardinality(Holders(d)') = graphNum[d] + 1
  <2>1. IsFiniteSet(Holders(d))
    BY HoldersFinite
  <2>2. Cardinality(Holders(d) \cup {n}) = Cardinality(Holders(d)) + 1
    BY <1>3, <2>1, FS_AddElement
  <2> QED
    BY <1>3, <1>5, <2>2
<1>7. graphNum'[d] = graphNum[d] + 1 /\ \A e \in Devices \ {d} : graphNum'[e] = graphNum[e]
  BY DEF Place, PoolTypeOK
<1>8. graphNum[d] < MaxGraphNum[d]
  BY PoolAssumption DEF UnbootedIsEmpty
<1>9. booted \subseteq Devices /\ booted' \subseteq Devices
  BY DEF PoolTypeOK
<1>10. CountsAreExact'
  BY <1>4, <1>6, <1>7, <1>9 DEF CountsAreExact
<1>11. NeverOverfull'
  <2>1. graphNum[d] \in Nat /\ MaxGraphNum[d] \in Nat
    BY PoolAssumption DEF PoolTypeOK
  <2> QED
    BY <2>1, <1>7, <1>8, <1>9 DEF NeverOverfull
<1>12. UnbootedIsEmpty'
  BY <1>4, <1>7, <1>9 DEF UnbootedIsEmpty, Place
<1>13. GraphsBelong'
  <2>1. \A m \in ExecutableNetworks \ {n} : m \in Holders(network[m].on) =>
                                    m \in Holders(network[m].on)'
    BY <1>2 DEF Holders
  <2>2. n \notin graphs /\ graphs' = graphs
    BY DEF GraphsBelong, Holders, IsAt, Place
  <2>3. ~IsAt(n, "loaded")'
    BY <1>2 DEF IsAt
  <2>4. ASSUME NEW m \in ExecutableNetworks, m # n
        PROVE  (IsAt(m, "loaded")' <=> IsAt(m, "loaded")) /\ (IsBooted(m) => IsBooted(m)')
    BY <2>4, <1>2, <1>9 DEF IsAt, IsBooted
  <2>5. ASSUME NEW m \in ExecutableNetworks, m # n, IsAt(m, "loaded"), IsBooted(m)'
        PROVE  m \in graphs
    <3>1. network'[m] = network[m]
      BY <2>5, <1>2
    <3>2. CASE IsBooted(m)
      BY <3>2, <2>5 DEF GraphsBelong
    <3>3. CASE ~IsBooted(m)
      <4>1. network[m].on = d /\ d \notin booted
        BY <3>1, <3>3, <2>5 DEF IsBooted
      <4>2. m \in Holders(d)
        BY <4>1, <2>5 DEF Holders, IsAt
      <4> QED
        BY <4>1, <4>2 DEF UnbootedIsEmpty
    <3> QED
      BY <3>2, <3>3
  <2> QED
    BY <2>1, <2>2, <2>3, <2>4, <2>5, <1>2 DEF GraphsBelong
<1>14. RequestsBelong'
  BY <1>2 DEF RequestsBelong, Place, IsAt, PoolTypeOK
<1>15. ClosedIsEmpty' /\ RequestsHaveGraph'
  BY DEF ClosedIsEmpty, RequestsHaveGraph, Place
<1> QED
  BY <1>1, <1>10, <1>11, <1>12, <1>13, <1>14, <1>15

\* A step in which no network enters or leaves the holders of a device.
LEMMA SameHolders ==
    ASSUME PoolTypeOK, NEW n \in ExecutableNetworks,
           \/ network' = network
           \/ /\ network' = [network EXCEPT ![n].at = "gone"]
              /\ network[n].on \notin Devices \/ IsAt(n, "none")
           \/ /\ IsAt(n, "opened")
              /\ \/ network' = [network EXCEPT ![n].at = "loaded"]
                 \/ network' = [network EXCEPT ![n].at = "unwinding"]
    PROVE  \A d \in Devices : Holders(d)' = Holders(d)
BY DEF Holders, PoolTypeOK, IsAt

-----------------------------------------------------------------------------
LEMMA OpenDeviceInv ==
    ASSUME PoolInv, NEW n \in ExecutableNetworks, OpenDevice(n)
    PROVE  PoolInv'
<1> USE DEF OpenDevice
<1>1. /\ booted \subseteq Devices
      /\ \A d \in Devices : graphNum[d] \in Nat /\ MaxGraphNum[d] \in Nat \ {0}
  BY PoolAssumption DEF PoolInv, PoolTypeOK
<1>2. \A d \in Empty(n) : d \in booted /\ graphNum[d] < MaxGraphNum[d]
  BY <1>1 DEF Empty, Suitable
<1>3. \A d \in NotFull(n) : d \in booted /\ graphNum[d] < MaxGraphNum[d]
  BY DEF NotFull, Suitable
<1>4. ASSUME NEW d \in booted, graphNum[d] < MaxGraphNum[d], Place(n, d), UNCHANGED booted
      PROVE  PoolInv'
  BY <1>1, <1>4, PlaceInv
<1>5. ASSUME OpenThrows(n) \/ OpenNothing(n) PROVE PoolInv'
  <2>1. /\ UNCHANGED <<booted, graphNum, closed, graphs, config, requests>>
        /\ \/ network' = [network EXCEPT ![n].at = "gone"]
           \/ network' = [network EXCEPT ![n] = [at |-> "opened", on |-> Mock]]
    BY <1>5 DEF OpenThrows, OpenNothing
  <2>2. PoolTypeOK'
    BY <2>1 DEF PoolInv, PoolTypeOK
  <2>3. \A d \in Devices : Holders(d)' = Holders(d)
    BY <2>1, PoolAssumption DEF PoolInv, PoolTypeOK, Holders, IsAt
  <2>4. /\ UnbootedIsEmpty' /\ CountsAreExact' /\ NeverOverfull'
    BY <1>1, <2>1, <2>3 DEF PoolInv, UnbootedIsEmpty, CountsAreExact, NeverOverfull
  <2>5. n \notin graphs /\ n \notin requests
    BY DEF PoolInv, GraphsBelong, RequestsBelong, Holders, IsAt
  <2>6. \A m \in ExecutableNetworks \ {n} : network'[m] = network[m]
    BY <2>1 DEF PoolInv, PoolTypeOK
  <2>7. network'[n].at \in {"gone", "opened"}
    BY <2>1 DEF PoolInv, PoolTypeOK
  <2>8. GraphsBelong'
    BY <2>1, <2>5, <2>6, <2>7 DEF PoolInv, GraphsBelong, Holders, IsAt, IsBooted
  <2>9. RequestsBelong' /\ ClosedIsEmpty' /\ RequestsHaveGraph'
    BY <2>1, <2>5, <2>6 DEF PoolInv, PoolTypeOK, RequestsBelong, ClosedIsEmpty, RequestsHaveGraph, IsAt
  <2> QED
    BY <2>2, <2>4, <2>8, <2>9 DEF PoolInv
<1>6. CASE OpenEmpty(n)
  BY <1>2, <1>4, <1>6 DEF OpenEmpty
<1>7. CASE OpenNamed(n)
  BY <1>3, <1>4, <1>5, <1>7 DEF OpenNamed
<1>8. CASE OpenBoots(n)
  BY <1>8, PlaceInv DEF OpenBoots
<1>9. CASE BootThrows(n)
  BY <1>5, <1>9 DEF BootThrows
<1>10. CASE OpenShares(n)
  BY <1>3, <1>4, <1>10 DEF OpenShares, LeastLoaded
<1>11. CASE OpenNothing(n)
  BY <1>5, <1>11
<1> QED
  BY <1>6, <1>7, <1>8, <1>9, <1>10, <1>11

LEMMA LoadInv ==
    ASSUME PoolInv, NEW n \in ExecutableNetworks, Load(n) \/ LoadThrows(n)
    PROVE  PoolInv'
<1>1. /\ IsAt(n, "opened")
      /\ UNCHANGED <<booted, graphNum, closed, config, requests>>
      /\ \/ network' = [network EXCEPT ![n].at = "loaded"]
         \/ network' = [network EXCEPT ![n].at = "unwinding"]
      /\ graphs' = graphs \/ (IsBooted(n) /\ graphs' = graphs \cup {n})
      /\ (network'[n].at = "loaded" /\ IsBooted(n)) => n \in graphs'
  BY DEF Load, LoadThrows, PoolInv, PoolTypeOK
<1>2. PoolTypeOK'
  BY <1>1 DEF PoolInv, PoolTypeOK
<1>3. \A d \in Devices : Holders(d)' = Holders(d)
  BY <1>1, SameHolders DEF PoolInv
<1>4. UnbootedIsEmpty' /\ CountsAreExact' /\ NeverOverfull'
  BY <1>1, <1>3 DEF PoolInv, PoolTypeOK, UnbootedIsEmpty, CountsAreExact, NeverOverfull
<1>5. /\ \A m \in ExecutableNetworks \ {n} : network'[m] = network[m]
      /\ network'[n].on = network[n].on /\ network'[n].at \in {"loaded", "unwinding"}
  BY <1>1 DEF PoolInv, PoolTypeOK
<1>6. GraphsBelong'
  BY <1>1, <1>5 DEF PoolInv, GraphsBelong, Holders, IsAt, IsBooted
<1>7. n \notin requests
  BY <1>1 DEF PoolInv, RequestsBelong, IsAt
<1>8. RequestsBelong' /\ ClosedIsEmpty' /\ RequestsHaveGraph'
  <2>1. requests \subseteq ExecutableNetworks /\ ~closed
    BY <1>1 DEF PoolInv, PoolTypeOK, ClosedIsEmpty
  <2>2. RequestsBelong'
    BY <2>1, <1>1, <1>5, <1>7 DEF PoolInv, RequestsBelong, IsAt
  <2>3. graphs \subseteq graphs'
    BY <1>1
  <2> QED
    BY <2>1, <2>2, <2>3, <1>1 DEF PoolInv, ClosedIsEmpty, RequestsHaveGraph
<1> QED
  BY <1>2, <1>4, <1>6, <1>8 DEF PoolInv

LEMMA RequestInv ==
    ASSUME PoolInv, NEW n \in ExecutableNetworks, CreateInferRequest(n) \/ ReleaseRequest(n)
    PROVE  PoolInv'
<1>1. UNCHANGED <<booted, graphNum, closed, network, graphs, config>>
  BY DEF CreateInferRequest, ReleaseRequest
<1>2. /\ requests' \subseteq requests \cup {n}
      /\ n \in requests' => IsAt(n, "loaded") /\ IsBooted(n)
  BY DEF CreateInferRequest, ReleaseRequest, Infers
<1>3. PoolTypeOK' /\ UnbootedIsEmpty' /\ CountsAreExact' /\ NeverOverfull'
  BY <1>1, <1>2 DEF PoolInv, PoolTypeOK, UnbootedIsEmpty, CountsAreExact, NeverOverfull, Holders
<1>4. GraphsBelong' /\ ClosedIsEmpty'
  BY <1>1 DEF PoolInv, GraphsBelong, ClosedIsEmpty, Holders, IsAt, IsBooted
<1>5. RequestsBelong' /\ RequestsHaveGraph'
  BY <1>1, <1>2 DEF PoolInv, RequestsBelong, RequestsHaveGraph, GraphsBelong, IsAt
<1> QED
  BY <1>3, <1>4, <1>5 DEF PoolInv

\* The last holder but one leaves, or a network without a device ends.
LEMMA DeallocateInv ==
    ASSUME PoolInv, NEW n \in ExecutableNetworks, DeallocateGraph(n)
    PROVE  PoolInv'
<1> DEFINE d == network[n].on
<1>1. /\ n \notin requests
      /\ IsAt(n, "loaded") \/ IsAt(n, "unwinding")
      /\ graphs' = graphs \ {n}
      /\ graphNum' = IF d \in booted THEN [graphNum EXCEPT ![d] = @ - 1] ELSE graphNum
      /\ network' = [network EXCEPT ![n].at = "gone"]
      /\ UNCHANGED <<booted, closed, config, requests>>
  BY DEF DeallocateGraph, Ends, Decrements, IsBooted, PoolInv, RequestsBelong, IsAt
<1>2. /\ booted \subseteq Devices
      /\ \A m \in ExecutableNetworks \ {n} : network'[m] = network[m]
      /\ network'[n].at = "gone" /\ network'[n].on = d
  BY <1>1 DEF PoolInv, PoolTypeOK
<1>3. \A e \in Devices : Holders(e)' = Holders(e) \ {n}
  BY <1>2 DEF Holders
<1>4. n \in Holders(d) /\ \A e \in Devices \ {d} : n \notin Holders(e)
  BY <1>1 DEF Holders, IsAt
<1>5. ASSUME d \in booted
      PROVE  graphNum[d] \in Nat \ {0} /\ graphNum'[d] = Cardinality(Holders(d) \ {n})
  <2>1. IsFiniteSet(Holders(d)) /\ Cardinality(Holders(d)) \in Nat
    BY HoldersFinite
  <2>2. Cardinality(Holders(d) \ {n}) = Cardinality(Holders(d)) - 1
    BY <1>4, <2>1, FS_RemoveElement
  <2>3. IsFiniteSet(Holders(d) \ {n})
    BY <2>1, FS_Subset
  <2>4. Cardinality(Holders(d) \ {n}) \in Nat
    BY <2>3, FS_CardinalityType
  <2>5. graphNum[d] = Cardinality(Holders(d))
    BY <1>5 DEF PoolInv, CountsAreExact
  <2>6. graphNum'[d] = graphNum[d] - 1
    BY <1>1, <1>2, <1>5 DEF PoolInv, PoolTypeOK
  <2> QED
    BY <2>1, <2>2, <2>4, <2>5, <2>6
<1>6. \A e \in Devices : e # d \/ d \notin booted => graphNum'[e] = graphNum[e]
  BY <1>1, <1>2 DEF PoolInv, PoolTypeOK
<1>7. PoolTypeOK'
  <2>1. CASE d \in booted
    <3>1. graphNum[d] - 1 \in Nat /\ d \in Devices
      BY <2>1, <1>2, <1>5
    <3>2. graphNum' = [graphNum EXCEPT ![d] = graphNum[d] - 1]
      BY <2>1, <1>1
    <3>3. graphNum' \in [Devices -> Nat]
      BY <3>1, <3>2 DEF PoolInv, PoolTypeOK
    <3> QED
      BY <3>3, <1>1 DEF PoolInv, PoolTypeOK
  <2>2. CASE d \notin booted
    BY <2>2, <1>1 DEF PoolInv, PoolTypeOK
  <2> QED
    BY <2>1, <2>2
<1>8. CountsAreExact'
  <2> SUFFICES ASSUME NEW e \in booted PROVE graphNum'[e] = Cardinality(Holders(e)')
    BY <1>1 DEF CountsAreExact
  <2>1. CASE e = d
    BY <2>1, <1>2, <1>3, <1>5
  <2>2. CASE e # d
    <3>1. e \in Devices \ {d}
      BY <2>2, <1>2
    <3>2. Holders(e)' = Holders(e) \ {n} /\ n \notin Holders(e)
      BY <3>1, <1>3, <1>4
    <3>3. Holders(e) \ {n} = Holders(e)
      BY <3>2
    <3>4. Holders(e)' = Holders(e)
      BY <3>2, <3>3
    <3> QED
      BY <2>2, <3>1, <3>4, <1>2, <1>6 DEF PoolInv, CountsAreExact
  <2> QED
    BY <2>1, <2>2
<1>9. NeverOverfull'
  <2>1. \A e \in booted : graphNum'[e] <= graphNum[e] /\ graphNum[e] \in Nat /\ graphNum'[e] \in Nat
    BY <1>1, <1>2, <1>5, <1>6, <1>7 DEF PoolInv, PoolTypeOK
  <2>2. \A e \in booted : graphNum[e] <= MaxGraphNum[e] /\ MaxGraphNum[e] \in Nat
    BY <1>2, PoolAssumption DEF PoolInv, NeverOverfull
  <2> QED
    BY <2>1, <2>2, <1>1 DEF NeverOverfull
<1>10. UnbootedIsEmpty'
  BY <1>1, <1>2, <1>3, <1>6 DEF PoolInv, UnbootedIsEmpty
<1>11. GraphsBelong'
  BY <1>1, <1>2 DEF PoolInv, GraphsBelong, Holders, IsAt, IsBooted
<1>12. RequestsBelong' /\ ClosedIsEmpty' /\ RequestsHaveGraph'
  BY <1>1, <1>2 DEF PoolInv, RequestsBelong, ClosedIsEmpty, RequestsHaveGraph, IsAt
<1> QED
  BY <1>7, <1>8, <1>9, <1>10, <1>11, <1>12 DEF PoolInv

LEMMA CloseInv ==
    ASSUME PoolInv, CloseDevices
    PROVE  PoolInv'
BY DEF CloseDevices, PoolInv, PoolTypeOK, UnbootedIsEmpty, CountsAreExact, NeverOverfull, GraphsBelong,
   RequestsBelong, ClosedIsEmpty, RequestsHaveGraph, IsBooted, IsAt

LEMMA PoolNextInv == PoolInv /\ [PoolNext]_poolVars => PoolInv'
<1> SUFFICES ASSUME PoolInv, [PoolNext]_poolVars PROVE PoolInv'
  OBVIOUS
<1>1. ASSUME NEW n \in ExecutableNetworks, OpenDevice(n) PROVE PoolInv'
  BY <1>1, OpenDeviceInv
<1>2. ASSUME NEW n \in ExecutableNetworks, Load(n) \/ LoadThrows(n) PROVE PoolInv'
  BY <1>2, LoadInv
<1>3. ASSUME NEW n \in ExecutableNetworks, CreateInferRequest(n) \/ ReleaseRequest(n) PROVE PoolInv'
  BY <1>3, RequestInv
<1>4. ASSUME NEW n \in ExecutableNetworks, DeallocateGraph(n) PROVE PoolInv'
  BY <1>4, DeallocateInv
<1>5. CASE CloseDevices
  BY <1>5, CloseInv
<1>6. CASE UNCHANGED poolVars
  BY <1>6 DEF poolVars, PoolInv, PoolTypeOK, UnbootedIsEmpty, CountsAreExact, NeverOverfull, GraphsBelong,
     RequestsBelong, ClosedIsEmpty, RequestsHaveGraph, IsBooted, IsAt, Holders
<1> QED
  BY <1>1, <1>2, <1>3, <1>4, <1>5, <1>6 DEF PoolNext

THEOREM PoolInvariant == PoolSpec => []PoolInv
BY PoolInitInv, PoolNextInv, PTL DEF PoolSpec

(* The pool keeps its types, and no count goes below zero.                 *)
THEOREM PoolTypeCorrect == PoolSpec => []PoolTypeOK
<1>1. PoolInv => PoolTypeOK
  BY DEF PoolInv
<1> QED
  BY <1>1, PoolInvariant, PTL

(* _graphNum is the number of networks that hold a place on the device.    *)
THEOREM PoolCountsAreExact == PoolSpec => []CountsAreExact
<1>1. PoolInv => CountsAreExact
  BY DEF PoolInv
<1> QED
  BY <1>1, PoolInvariant, PTL

(* No stick holds more graphs than it can.                                 *)
THEOREM PoolGraphsFit == PoolSpec => []GraphsFit
<1>1. ASSUME PoolInv PROVE GraphsFit
  <2> SUFFICES ASSUME NEW d \in booted
               PROVE  Cardinality({n \in graphs : network[n].on = d}) <= MaxGraphNum[d]
    BY DEF GraphsFit
  <2> DEFINE held == {n \in graphs : network[n].on = d}
  <2>1. held \subseteq Holders(d)
    BY <1>1 DEF PoolInv, PoolTypeOK, GraphsBelong, Holders
  <2>2. IsFiniteSet(Holders(d)) /\ Cardinality(Holders(d)) \in Nat
    BY HoldersFinite
  <2>3. IsFiniteSet(held) /\ Cardinality(held) <= Cardinality(Holders(d))
    BY <2>1, <2>2, FS_Subset
  <2>4. Cardinality(held) \in Nat
    BY <2>3, FS_CardinalityType
  <2>5. /\ Cardinality(Holders(d)) = graphNum[d] /\ graphNum[d] <= MaxGraphNum[d]
        /\ MaxGraphNum[d] \in Nat
    BY <1>1, PoolAssumption DEF PoolInv, PoolTypeOK, CountsAreExact, NeverOverfull
  <2> QED
    BY <2>2, <2>3, <2>4, <2>5
<1> QED
  BY <1>1, PoolInvariant, PTL

(* A request has its graph on its device.                                  *)
THEOREM PoolRequestsHaveGraph == PoolSpec => []RequestsHaveGraph
<1>1. PoolInv => RequestsHaveGraph
  BY DEF PoolInv
<1> QED
  BY <1>1, PoolInvariant, PTL

\* A device of the pool without graphs is one that nobody holds.
LEMMA EmptyIsUnheld ==
    ASSUME PoolInv, NEW d \in booted
    PROVE  graphNum[d] = 0 <=> Holders(d) = {}
BY HoldersFinite, FS_EmptySet DEF PoolInv, CountsAreExact

(* A device is shared only if no suitable stick of the pool stands empty.  *)
THEOREM PoolSharesLast == PoolSpec => SharesOnlyIfNoneEmpty
<1>1. ASSUME PoolInv, [PoolNext]_poolVars, NEW n \in ExecutableNetworks, NEW d \in Devices,
             network[n].on # d, network'[n].on = d, ~IsNamed(n), Holders(d) # {},
             NEW e \in Suitable(n)
      PROVE  Holders(e) # {}
  <2>1. booted \subseteq Devices /\ e \in booted
    BY <1>1 DEF PoolInv, PoolTypeOK, Suitable
  <2>2. OpenDevice(n)
    <3>1. ASSUME NEW m \in ExecutableNetworks, OpenDevice(m), m # n PROVE network'[n] = network[n]
      BY <1>1, <3>1 DEF OpenDevice, OpenEmpty, OpenNamed, OpenBoots, BootThrows, OpenShares,
         OpenNothing, OpenThrows, Place, PoolInv, PoolTypeOK
    <3>2. ASSUME NEW m \in ExecutableNetworks,
                 Load(m) \/ LoadThrows(m) \/ CreateInferRequest(m) \/ ReleaseRequest(m)
                 \/ DeallocateGraph(m) \/ CloseDevices \/ UNCHANGED poolVars
          PROVE  network'[n].on = network[n].on
      BY <1>1, <3>2 DEF Load, LoadThrows, CreateInferRequest, ReleaseRequest, DeallocateGraph,
         CloseDevices, poolVars, PoolInv, PoolTypeOK
    <3> QED
      BY <1>1, <3>1, <3>2 DEF PoolNext
  <2>3. ~OpenThrows(n) /\ ~OpenNothing(n)
    BY <1>1, PoolAssumption DEF OpenThrows, OpenNothing, PoolInv, PoolTypeOK
  <2>4. ASSUME NEW f \in Devices, Place(n, f) PROVE f = d
    BY <1>1, <2>4 DEF Place, PoolInv, PoolTypeOK
  <2>5. ~OpenEmpty(n)
    BY <1>1, <2>1, <2>4, EmptyIsUnheld DEF OpenEmpty, Empty, Suitable
  <2>6. ~OpenBoots(n)
    BY <1>1, <2>2, <2>4 DEF OpenBoots, OpenDevice, PoolInv, UnbootedIsEmpty
  <2>7. MustBoot(n)
    BY <1>1, <2>2, <2>3, <2>5, <2>6 DEF OpenDevice, OpenNamed, OpenShares, BootThrows
  <2> QED
    BY <1>1, <2>1, <2>7, EmptyIsUnheld DEF MustBoot, Empty
<1>2. PoolInv /\ [PoolNext]_poolVars =>
        [\A n \in ExecutableNetworks, d \in Devices :
            /\ network[n].on # d /\ network'[n].on = d
            /\ ~IsNamed(n)
            /\ Holders(d) # {}
            => \A e \in Suitable(n) : Holders(e) # {}]_poolVars
  BY <1>1
<1> QED
  BY <1>2, PoolInvariant, PTL DEF PoolSpec, SharesOnlyIfNoneEmpty

-----------------------------------------------------------------------------
(* MyriadInferRequests                                                     *)

USE DEF RequestStates

\* The clients of a network all use StartAsync(), or all Infer().
OneWayEach == \A u \in Usages : \A n \in Networks : "async" \notin u[n] \/ "sync" \notin u[n]

Stands(r, l) == \E i \in 1..Len(line[l]) : line[l][i] = r

\* The queues hold the requests that are under way, each of them once.
QueuesOK ==
    /\ \A l \in Lines : \A i \in 1..Len(line[l]) : ~AtRest(line[l][i]) /\ LineOf(line[l][i]) = l
    /\ \A l \in Lines : \A i, j \in 1..Len(line[l]) : line[l][i] = line[l][j] => i = j
    /\ \A r \in Requests : At(r, "handed") => Stands(r, LineOf(r))
    /\ \A r \in Requests : At(r, "written") \/ At(r, "triggered") => Serves(r)

\* Requests are started the way their network is used.
ModesOK ==
    \A r \in Requests :
        /\ ~AtRest(r) => request[r].mode \in usage[NetworkOf[r]]
        /\ At(r, "handed") => ~IsSync(r)

IsInFlight(r) == request[r].at \in {"written", "triggered", "handed"}

\* Whoever writes has not triggered yet.
TriggersOK(n) ==
    /\ triggers[n] + refused[n] <= Len(input[n])
    /\ \A r \in Requests : NetworkOf[r] = n /\ At(r, "written") =>
          triggers[n] + refused[n] < Len(input[n])

\* Each refused trigger leaves one element in the FIFOs of its graph.
LevelOK(n) == Len(Pipe(n)) = Cardinality(InFlight(n)) + refused[n]

\* The inferences in the FIFOs of a graph are those in flight, in order.
PipeOK(n) ==
    /\ \A i \in 1..Len(Pipe(n)) :
          \E r \in Requests : IsInFlight(r) /\ NetworkOf[r] = n /\ Pipe(n)[i] = Input(r)
    /\ \A r \in Requests : IsInFlight(r) /\ NetworkOf[r] = n =>
          \E i \in 1..Len(Pipe(n)) : Pipe(n)[i] = Input(r)
    /\ \A i, j \in 1..Len(Pipe(n)) : \A q, r \in InFlight(n) :
          i < j /\ Pipe(n)[i] = Input(q) /\ Pipe(n)[j] = Input(r) => ReadsBefore(q, r)

ElementsOK(n) == LevelOK(n) /\ (refused[n] = 0 => PipeOK(n))

FifosOK == linkUp => \A n \in Networks : ElementsOK(n) /\ TriggersOK(n)

Inv == TypeOK /\ QueuesOK /\ ModesOK /\ FifosOK /\ IntactResultsMatch

-----------------------------------------------------------------------------
LEMMA LinesAre ==
    /\ \A r \in Requests : LineOf(r) \in Lines
    /\ \A n \in Networks : \A kind \in {"infer", "result", "sync"} :
          Line(kind, n) \in Lines /\ Line(kind, n)[1] = kind
    /\ \A r \in Requests :
          LineOf(r) = Line(IF IsSync(r) THEN "sync" ELSE IF At(r, "handed") THEN "result" ELSE "infer",
                           NetworkOf[r])
<1>1. \A n \in Networks : \A kind \in {"infer", "result", "sync"} :
        Line(kind, n) \in Lines /\ Line(kind, n)[1] = kind
  BY DEF Line, Lines
<1>2. \A r \in Requests :
        LineOf(r) = Line(IF IsSync(r) THEN "sync" ELSE IF At(r, "handed") THEN "result" ELSE "infer",
                         NetworkOf[r])
  BY DEF LineOf, Line
<1>3. \A r \in Requests : NetworkOf[r] \in Networks
  BY RequestsAssumption
<1> QED
  BY <1>1, <1>2, <1>3

\* A request stands in a queue of results only when it was handed over.
LEMMA ResultLines ==
    ASSUME NEW r \in Requests, NEW n \in Networks, LineOf(r) = Line("result", n)
    PROVE  At(r, "handed") /\ ~IsSync(r)
<1>1. LineOf(r)[1] = "result" /\ NetworkOf[r] \in Networks
  BY LinesAre, RequestsAssumption
<1> QED
  BY <1>1, LinesAre

\* Another move of a request that changes its place only.
LEMMA MoveFacts ==
    ASSUME TypeOK, NEW r \in Requests, NEW place \in Places, Move(r, place)
    PROVE  /\ request' \in [Requests -> RequestStates]
           /\ request'[r].at = place /\ request'[r].mode = request[r].mode
           /\ request'[r].starts = request[r].starts /\ request'[r].result = request[r].result
           /\ \A q \in Requests \ {r} : request'[q] = request[q]
BY DEF TypeOK, Move

\* Those who write and trigger in the same network are one: they serve.
LEMMA OneWrites ==
    ASSUME Inv, OneWayEach, NEW q \in Requests, NEW r \in Requests, NetworkOf[q] = NetworkOf[r],
           Serves(q), Serves(r), ~AtRest(q), ~AtRest(r), ~At(q, "handed"), ~At(r, "handed")
    PROVE  q = r
<1>1. IsSync(q) <=> IsSync(r)
  BY RequestsAssumption DEF Inv, TypeOK, ModesOK, OneWayEach, IsSync
<1>2. LineOf(q) = LineOf(r)
  BY <1>1, LinesAre
<1> QED
  BY <1>2 DEF Serves

\* When r serves before it is handed over, all others in flight have been.
LEMMA OthersHanded ==
    ASSUME Inv, OneWayEach, NEW q \in Requests, NEW r \in Requests, NetworkOf[q] = NetworkOf[r],
           Serves(r), ~AtRest(r), ~At(r, "handed"), IsInFlight(q), q # r
    PROVE  At(q, "handed") /\ ~IsSync(r)
<1>1. At(q, "handed")
  <2> SUFFICES ASSUME ~At(q, "handed") PROVE FALSE
    OBVIOUS
  <2>1. Serves(q) /\ ~AtRest(q)
    BY DEF IsInFlight, At, AtRest, Inv, QueuesOK
  <2> QED
    BY <2>1, OneWrites
<1>2. ~IsSync(q) /\ ~AtRest(q)
  BY <1>1 DEF Inv, ModesOK, At, AtRest
<1>3. ~IsSync(r)
  BY <1>2, RequestsAssumption DEF Inv, TypeOK, ModesOK, OneWayEach, IsSync
<1> QED
  BY <1>1, <1>3

\* No request reads before itself.
LEMMA NotBeforeItself ==
    ASSUME Inv, NEW r \in Requests PROVE ~ReadsBefore(r, r)
<1>1. Line("result", NetworkOf[r]) \in Lines
  BY LinesAre, RequestsAssumption
<1> QED
  BY <1>1 DEF ReadsBefore, Inv, QueuesOK

-----------------------------------------------------------------------------
(* The queues. *)

\* The queues stay, and so do the queues of the requests.
LEMMA QueuesFrame ==
    ASSUME Inv, UNCHANGED <<shared, line>>,
           \A q \in Requests : /\ AtRest(q)' <=> AtRest(q)
                               /\ LineOf(q)' = LineOf(q)
                               /\ At(q, "handed")' => At(q, "handed")
                               /\ At(q, "written")' \/ At(q, "triggered")' => Serves(q)
    PROVE  QueuesOK'
<1> USE DEF Inv, TypeOK
<1>1. \A l \in Lines : \A i \in 1..Len(line[l]) : line[l][i] \in Requests
  OBVIOUS
<1>2. \A l \in Lines : \A i \in 1..Len(line'[l]) : (~AtRest(line[l][i]) /\ LineOf(line[l][i]) = l)'
  <2> SUFFICES ASSUME NEW l \in Lines, NEW i \in 1..Len(line[l])
               PROVE  ~AtRest(line[l][i])' /\ LineOf(line[l][i])' = l
    OBVIOUS
  <2> DEFINE q == line[l][i]
  <2>1. q \in Requests /\ ~AtRest(q) /\ LineOf(q) = l
    BY <1>1 DEF QueuesOK
  <2>2. (AtRest(q)' <=> AtRest(q)) /\ LineOf(q)' = LineOf(q)
    BY <2>1
  <2> QED
    BY <2>1, <2>2 DEF AtRest, LineOf, Line, IsSync, At
<1>3. \A q \in Requests : At(q, "handed")' => Stands(q, LineOf(q))'
  BY DEF QueuesOK, Stands
<1>4. \A q \in Requests : Serves(q) => Serves(q)'
  BY DEF Serves
<1>5. \A l \in Lines : \A i, j \in 1..Len(line'[l]) : line'[l][i] = line'[l][j] => i = j
  BY DEF QueuesOK
<1> QED
  BY <1>2, <1>3, <1>4, <1>5 DEF QueuesOK

\* The head of a queue leaves it and comes to rest.
LEMMA LeavesQueues ==
    ASSUME Inv, NEW r \in Requests, Serves(r), ~AtRest(r), Leaves(r), AtRest(r)',
           UNCHANGED shared,
           \A q \in Requests \ {r} : request'[q] = request[q]
    PROVE  QueuesOK' /\ line' \in [Lines -> Seq(Requests)]
<1> DEFINE lr == LineOf(r)
<1>0. lr \in Lines /\ line[lr] \in Seq(Requests) /\ line[lr] # <<>> /\ Head(line[lr]) = r
  BY LinesAre DEF Inv, TypeOK, Serves
<1>1. /\ line' \in [Lines -> Seq(Requests)]
      /\ line'[lr] = Tail(line[lr])
      /\ \A l \in Lines \ {lr} : line'[l] = line[l]
  BY <1>0 DEF Leaves, Inv, TypeOK
<1>2. /\ Len(line'[lr]) = Len(line[lr]) - 1
      /\ \A i \in 1..Len(line'[lr]) : i + 1 \in 1..Len(line[lr]) /\ line'[lr][i] = line[lr][i + 1]
      /\ line[lr][1] = r /\ 1 \in 1..Len(line[lr])
  BY <1>0, <1>1
<1>3. \A q \in Requests \ {r} :
        /\ LineOf(q)' = LineOf(q) /\ (AtRest(q)' <=> AtRest(q))
        /\ \A place \in Places : At(q, place)' <=> At(q, place)
  BY DEF LineOf, Line, IsSync, At, AtRest
<1>4. \A l \in Lines : \A i \in 1..Len(line'[l]) : line'[l][i] \in Requests \ {r}
  <2> SUFFICES ASSUME NEW l \in Lines, NEW i \in 1..Len(line'[l])
               PROVE  line'[l][i] \in Requests \ {r}
    OBVIOUS
  <2>1. CASE l = lr
    BY <2>1, <1>0, <1>2, SMTT(60) DEF Inv, QueuesOK
  <2>2. CASE l # lr
    BY <2>2, <1>1 DEF Inv, QueuesOK, TypeOK
  <2> QED
    BY <2>1, <2>2
<1>5. \A l \in Lines : \A i \in 1..Len(line'[l]) :
        (~AtRest(line[l][i]) /\ LineOf(line[l][i]) = l)'
  <2> SUFFICES ASSUME NEW l \in Lines, NEW i \in 1..Len(line'[l])
               PROVE  ~AtRest(line'[l][i]) /\ LineOf(line'[l][i]) = l
    BY <1>4 DEF AtRest, LineOf, Line, IsSync, At
  <2>1. CASE l = lr
    BY <2>1, <1>0, <1>2 DEF Inv, QueuesOK
  <2>2. CASE l # lr
    BY <2>2, <1>1 DEF Inv, QueuesOK
  <2> QED
    BY <2>1, <2>2
<1>6. \A l \in Lines : \A i, j \in 1..Len(line'[l]) : line'[l][i] = line'[l][j] => i = j
  <2> SUFFICES ASSUME NEW l \in Lines, NEW i \in 1..Len(line'[l]), NEW j \in 1..Len(line'[l]),
                      line'[l][i] = line'[l][j]
               PROVE  i = j
    OBVIOUS
  <2>1. CASE l = lr
    <3>1. line[lr][i + 1] = line[lr][j + 1] /\ i + 1 \in 1..Len(line[lr]) /\ j + 1 \in 1..Len(line[lr])
      BY <2>1, <1>2
    <3>2. i + 1 = j + 1
      BY <3>1, <1>0 DEF Inv, QueuesOK
    <3> QED
      BY <3>2
  <2>2. CASE l # lr
    BY <2>2, <1>1 DEF Inv, QueuesOK
  <2> QED
    BY <2>1, <2>2
<1>7. ASSUME NEW q \in Requests, At(q, "handed")' PROVE Stands(q, LineOf(q))'
  <2>1. q # r
    BY <1>7 DEF At, AtRest
  <2>2. At(q, "handed") /\ LineOf(q)' = LineOf(q) /\ LineOf(q) \in Lines
    BY <1>3, <1>7, <2>1, LinesAre DEF Places
  <2>3. PICK i \in 1..Len(line[LineOf(q)]) : line[LineOf(q)][i] = q
    BY <2>2 DEF Inv, QueuesOK, Stands
  <2>4. CASE LineOf(q) = lr
    <3>1. i # 1
      BY <1>2, <2>1, <2>3, <2>4
    <3>2. i - 1 \in 1..Len(line'[lr]) /\ line'[lr][i - 1] = q
      BY <1>0, <1>1, <2>3, <2>4, <3>1
    <3> QED
      BY <3>2, <2>2, <2>4 DEF Stands
  <2>5. CASE LineOf(q) # lr
    BY <2>2, <2>3, <2>5, <1>1 DEF Stands
  <2> QED
    BY <2>4, <2>5
<1>8. ASSUME NEW q \in Requests, At(q, "written")' \/ At(q, "triggered")' PROVE Serves(q)'
  <2>1. q # r
    BY <1>8 DEF At, AtRest
  <2>2. Serves(q) /\ LineOf(q)' = LineOf(q) /\ LineOf(q) \in Lines
    BY <1>3, <1>8, <2>1, LinesAre DEF Places, Inv, QueuesOK
  <2>3. LineOf(q) # lr
    BY <2>1, <2>2, <1>0 DEF Serves
  <2> QED
    BY <2>2, <2>3, <1>1 DEF Serves
<1> QED
  BY <1>1, <1>5, <1>6, <1>7, <1>8 DEF QueuesOK

\* A request at rest joins a queue that is not one of results.
LEMMA StartQueues ==
    ASSUME Inv, NEW r \in Requests, NEW mode \in {"async", "sync"}, Start(r, mode)
    PROVE  QueuesOK' /\ line' \in [Lines -> Seq(Requests)]
<1> DEFINE l0 == Line(IF mode = "sync" THEN "sync" ELSE "infer", NetworkOf[r])
<1>0. /\ l0 \in Lines /\ line[l0] \in Seq(Requests)
      /\ request \in [Requests -> RequestStates]
  BY LinesAre, RequestsAssumption DEF Inv, TypeOK
<1>1. /\ line' \in [Lines -> Seq(Requests)]
      /\ line'[l0] = Append(line[l0], r)
      /\ \A l \in Lines \ {l0} : line'[l] = line[l]
  BY <1>0 DEF Start, Inv, TypeOK
<1>2. /\ Len(line'[l0]) = Len(line[l0]) + 1 /\ line'[l0][Len(line[l0]) + 1] = r
      /\ \A i \in 1..Len(line[l0]) : line'[l0][i] = line[l0][i] /\ i \in 1..Len(line'[l0])
  BY <1>0, <1>1
<1>3. /\ request'[r].at = "queued" /\ request'[r].mode = mode
      /\ \A q \in Requests \ {r} : request'[q] = request[q]
  BY <1>0 DEF Start
<1>4. /\ LineOf(r)' = l0 /\ ~AtRest(r)'
      /\ \A q \in Requests \ {r} : LineOf(q)' = LineOf(q) /\ (AtRest(q)' <=> AtRest(q))
  BY <1>3 DEF LineOf, Line, IsSync, At, AtRest, Start
<1>5. \A l \in Lines : \A i \in 1..Len(line[l]) : line[l][i] \in Requests \ {r}
  BY DEF Start, Inv, QueuesOK, TypeOK
<1>6. \A l \in Lines : \A i \in 1..Len(line'[l]) :
        \/ i \in 1..Len(line[l]) /\ line'[l][i] = line[l][i]
        \/ l = l0 /\ i = Len(line[l]) + 1 /\ line'[l][i] = r
  BY <1>0, <1>1, <1>2
<1>7. \A l \in Lines : \A i \in 1..Len(line'[l]) :
        (~AtRest(line[l][i]) /\ LineOf(line[l][i]) = l)'
  <2> SUFFICES ASSUME NEW l \in Lines, NEW i \in 1..Len(line'[l])
               PROVE  (~AtRest(line[l][i]) /\ LineOf(line[l][i]) = l)'
    OBVIOUS
  <2>1. CASE i \in 1..Len(line[l]) /\ line'[l][i] = line[l][i]
    <3> DEFINE q == line[l][i]
    <3>1. q \in Requests \ {r} /\ ~AtRest(q) /\ LineOf(q) = l
      BY <1>5, <2>1 DEF Inv, QueuesOK
    <3>2. ~AtRest(q) /\ request'[q] = request[q] /\ UNCHANGED shared
      BY <3>1, <1>3 DEF Start
    <3> QED
      BY <3>1, <3>2, <2>1 DEF AtRest, LineOf, Line, IsSync, At
  <2>2. CASE l = l0 /\ line'[l][i] = r
    BY <2>2, <1>4 DEF AtRest, LineOf, Line, IsSync, At
  <2> QED
    BY <1>6, <2>1, <2>2
<1>8. \A l \in Lines : \A i, j \in 1..Len(line'[l]) : line'[l][i] = line'[l][j] => i = j
  <2> SUFFICES ASSUME NEW l \in Lines, NEW i \in 1..Len(line'[l]), NEW j \in 1..Len(line'[l]),
                      line'[l][i] = line'[l][j]
               PROVE  i = j
    OBVIOUS
  <2> QED
    BY <1>5, <1>6 DEF Inv, QueuesOK
<1>9. ASSUME NEW q \in Requests, At(q, "handed")' PROVE Stands(q, LineOf(q))'
  <2>1. q # r
    BY <1>9, <1>3 DEF At
  <2>2. At(q, "handed") /\ LineOf(q)' = LineOf(q) /\ LineOf(q) \in Lines
    BY <1>3, <1>4, <1>9, <2>1, LinesAre DEF At
  <2>3. PICK i \in 1..Len(line[LineOf(q)]) : line[LineOf(q)][i] = q
    BY <2>2 DEF Inv, QueuesOK, Stands
  <2>4. i \in 1..Len(line'[LineOf(q)]) /\ line'[LineOf(q)][i] = q
    BY <1>1, <1>2, <2>2, <2>3
  <2> QED
    BY <2>2, <2>4 DEF Stands
<1>10. ASSUME NEW q \in Requests, At(q, "written")' \/ At(q, "triggered")' PROVE Serves(q)'
  <2>1. q # r
    BY <1>10, <1>3 DEF At
  <2>2. Serves(q) /\ LineOf(q)' = LineOf(q) /\ LineOf(q) \in Lines
    BY <1>3, <1>4, <1>10, <2>1, LinesAre DEF At, Inv, QueuesOK
  <2>3. line[LineOf(q)] \in Seq(Requests) /\ line[LineOf(q)] # <<>> /\ line[LineOf(q)][1] = q
    BY <2>2 DEF Serves, Inv, TypeOK
  <2>4. line'[LineOf(q)] # <<>> /\ Head(line'[LineOf(q)]) = q
    BY <1>0, <1>1, <1>2, <2>2, <2>3, SMTT(60)
  <2> QED
    BY <2>2, <2>4 DEF Serves
<1> QED
  BY <1>1, <1>7, <1>8, <1>9, <1>10 DEF QueuesOK

LEMMA TwoQueues ==
    ASSUME NEW f \in [Lines -> Seq(Requests)], NEW a \in Lines, NEW b \in Lines, a # b,
           NEW r \in Requests, f[a] # <<>>
    PROVE  LET g == [f EXCEPT ![a] = Tail(@), ![b] = Append(@, r)] IN
           /\ g \in [Lines -> Seq(Requests)]
           /\ g[a] = Tail(f[a]) /\ g[b] = Append(f[b], r)
           /\ \A l \in Lines \ {a, b} : g[l] = f[l]
<1> DEFINE g == [f EXCEPT ![a] = Tail(@), ![b] = Append(@, r)]
           h == [f EXCEPT ![a] = Tail(f[a])]
<1>1. g = [h EXCEPT ![b] = Append(h[b], r)]
  OBVIOUS
<1>2. Tail(f[a]) \in Seq(Requests) /\ Append(f[b], r) \in Seq(Requests)
  OBVIOUS
<1>3. h \in [Lines -> Seq(Requests)] /\ h[b] = f[b]
  BY <1>2
<1> HIDE DEF h
<1>4. h[a] = Tail(f[a]) /\ \A l \in Lines \ {a} : h[l] = f[l]
  BY <1>2 DEF h
<1> HIDE DEF g
<1> SUFFICES /\ g \in [Lines -> Seq(Requests)]
             /\ g[a] = Tail(f[a]) /\ g[b] = Append(f[b], r)
             /\ \A l \in Lines \ {a, b} : g[l] = f[l]
  BY DEF g
<1> QED
  BY <1>1, <1>2, <1>3, <1>4

\* A request leaves its queue and joins the queue of results.
LEMMA JoinsQueues ==
    ASSUME Inv, NEW r \in Requests, HandOver(r)
    PROVE  /\ QueuesOK' /\ line' \in [Lines -> Seq(Requests)]
           /\ \A n \in Networks :
                 LET l == Line("result", n) IN
                 \/ line'[l] = line[l]
                 \/ l = Line("result", NetworkOf[r]) /\ line'[l] = Append(line[l], r)
           /\ line'[Line("result", NetworkOf[r])] = Append(line[Line("result", NetworkOf[r])], r)
<1> DEFINE lr == LineOf(r)
           lj == Line("result", NetworkOf[r])
<1>0. /\ lr \in Lines /\ line[lr] \in Seq(Requests) /\ line[lr] # <<>> /\ Head(line[lr]) = r
      /\ lj \in Lines /\ line[lj] \in Seq(Requests)
  BY LinesAre, RequestsAssumption DEF Inv, TypeOK, Serves, HandOver
<1>1. ~IsSync(r) /\ At(r, "triggered") /\ ~At(r, "handed") /\ ~AtRest(r)
  BY DEF HandOver, At, AtRest
<1>2. lr # lj
  BY <1>1, LinesAre, RequestsAssumption, ResultLines
<1>3. /\ line' \in [Lines -> Seq(Requests)]
      /\ line'[lr] = Tail(line[lr]) /\ line'[lj] = Append(line[lj], r)
      /\ \A l \in Lines \ {lr, lj} : line'[l] = line[l]
  <2>1. /\ line' = [line EXCEPT ![lr] = Tail(@), ![lj] = Append(@, r)]
        /\ line \in [Lines -> Seq(Requests)]
    BY DEF HandOver, Joins, Inv, TypeOK
  <2> HIDE DEF lr, lj
  <2> DEFINE g == [line EXCEPT ![lr] = Tail(@), ![lj] = Append(@, r)]
  <2>2. /\ g \in [Lines -> Seq(Requests)]
        /\ g[lr] = Tail(line[lr]) /\ g[lj] = Append(line[lj], r)
        /\ \A l \in Lines \ {lr, lj} : g[l] = line[l]
    <3>1. /\ lr \in Lines /\ lj \in Lines /\ lr # lj /\ r \in Requests /\ line[lr] # <<>>
          /\ line \in [Lines -> Seq(Requests)]
      BY <2>1, <1>0, <1>2
    <3> QED
      BY <3>1, TwoQueues, ZenonT(30)
  <2> QED
    BY <2>1, <2>2, Zenon
<1>4. /\ request'[r].at = "handed" /\ request'[r].mode = request[r].mode
      /\ \A q \in Requests \ {r} : request'[q] = request[q]
  BY MoveFacts DEF HandOver, Places, Inv
<1>5. /\ LineOf(r)' = lj /\ ~AtRest(r)'
      /\ \A q \in Requests \ {r} : LineOf(q)' = LineOf(q) /\ (AtRest(q)' <=> AtRest(q))
  BY <1>1, <1>4 DEF LineOf, Line, IsSync, At, AtRest, HandOver
<1>6. /\ Len(line'[lr]) = Len(line[lr]) - 1
      /\ \A i \in 1..Len(line'[lr]) : i + 1 \in 1..Len(line[lr]) /\ line'[lr][i] = line[lr][i + 1]
      /\ line[lr][1] = r /\ 1 \in 1..Len(line[lr])
  BY <1>0, <1>3
<1>7. /\ Len(line'[lj]) = Len(line[lj]) + 1 /\ line'[lj][Len(line[lj]) + 1] = r
      /\ \A i \in 1..Len(line[lj]) : line'[lj][i] = line[lj][i] /\ i \in 1..Len(line'[lj])
  BY <1>0, <1>3
<1>8. \A l \in Lines : \A i \in 1..Len(line[l]) : line[l][i] = r => l = lr /\ i = 1
  BY <1>0, <1>6 DEF Inv, QueuesOK
<1>9. \A l \in Lines : \A i \in 1..Len(line'[l]) :
        \/ l # lr /\ i \in 1..Len(line[l]) /\ line'[l][i] = line[l][i] /\ line'[l][i] # r
        \/ l = lr /\ i + 1 \in 1..Len(line[l]) /\ line'[l][i] = line[l][i + 1] /\ line'[l][i] # r
        \/ l = lj /\ i = Len(line[l]) + 1 /\ line'[l][i] = r
  <2> SUFFICES ASSUME NEW l \in Lines, NEW i \in 1..Len(line'[l])
               PROVE  \/ l # lr /\ i \in 1..Len(line[l]) /\ line'[l][i] = line[l][i] /\ line'[l][i] # r
                      \/ l = lr /\ i + 1 \in 1..Len(line[l]) /\ line'[l][i] = line[l][i + 1] /\ line'[l][i] # r
                      \/ l = lj /\ i = Len(line[l]) + 1 /\ line'[l][i] = r
    OBVIOUS
  <2>1. CASE l = lr
    BY <2>1, <1>0, <1>6, <1>8
  <2>2. CASE l = lj
    BY <2>2, <1>0, <1>2, <1>7, <1>8
  <2>3. CASE l # lr /\ l # lj
    BY <2>3, <1>3, <1>8
  <2> QED
    BY <2>1, <2>2, <2>3
<1>10. \A l \in Lines : \A i \in 1..Len(line'[l]) :
        (~AtRest(line[l][i]) /\ LineOf(line[l][i]) = l)'
  <2> SUFFICES ASSUME NEW l \in Lines, NEW i \in 1..Len(line'[l])
               PROVE  (~AtRest(line[l][i]) /\ LineOf(line[l][i]) = l)'
    OBVIOUS
  <2> DEFINE q == line'[l][i]
  <2>1. q \in Requests
    BY <1>3
  <2>2. CASE q # r
    <3>1. ~AtRest(q) /\ LineOf(q) = l
      BY <2>2, <1>9 DEF Inv, QueuesOK
    <3>2. request'[q] = request[q] /\ UNCHANGED shared
      BY <2>1, <2>2, <1>4 DEF HandOver
    <3> QED
      BY <3>1, <3>2 DEF AtRest, LineOf, Line, IsSync, At
  <2>3. CASE q = r
    BY <2>3, <1>5, <1>9 DEF AtRest, LineOf, Line, IsSync, At
  <2> QED
    BY <2>2, <2>3
<1>11. \A l \in Lines : \A i, j \in 1..Len(line'[l]) : line'[l][i] = line'[l][j] => i = j
  <2> SUFFICES ASSUME NEW l \in Lines, NEW i \in 1..Len(line'[l]), NEW j \in 1..Len(line'[l]),
                      line'[l][i] = line'[l][j]
               PROVE  i = j
    OBVIOUS
  <2>1. CASE l = lr
    <3>1. /\ i + 1 \in 1..Len(line[l]) /\ line'[l][i] = line[l][i + 1]
          /\ j + 1 \in 1..Len(line[l]) /\ line'[l][j] = line[l][j + 1]
      BY <2>1, <1>6
    <3>2. i + 1 = j + 1
      BY <3>1 DEF Inv, QueuesOK
    <3> QED
      BY <3>2
  <2>2. CASE l # lr
    BY <2>2, <1>9 DEF Inv, QueuesOK
  <2> QED
    BY <2>1, <2>2
<1>12. ASSUME NEW q \in Requests, At(q, "handed")' PROVE Stands(q, LineOf(q))'
  <2>1. CASE q = r
    <3>1. Len(line[lj]) + 1 \in 1..Len(line'[lj])
      BY <1>0, <1>7
    <3> QED
      BY <3>1, <2>1, <1>5, <1>7 DEF Stands
  <2>2. CASE q # r
    <3>1. At(q, "handed") /\ LineOf(q)' = LineOf(q) /\ LineOf(q) \in Lines
      BY <1>4, <1>5, <1>12, <2>2, LinesAre DEF At
    <3>2. PICK i \in 1..Len(line[LineOf(q)]) : line[LineOf(q)][i] = q
      BY <3>1 DEF Inv, QueuesOK, Stands
    <3>3. LineOf(q) # lr
      <4>1. ~IsSync(q) /\ LineOf(q)[1] = "result" /\ lr[1] = "infer"
        BY <1>1, <3>1, LinesAre, RequestsAssumption DEF Inv, ModesOK
      <4> QED
        BY <4>1
    <3>4. i \in 1..Len(line'[LineOf(q)]) /\ line'[LineOf(q)][i] = q
      BY <1>3, <1>7, <3>1, <3>2, <3>3
    <3> QED
      BY <3>1, <3>4 DEF Stands
  <2> QED
    BY <2>1, <2>2
<1>13. ASSUME NEW q \in Requests, At(q, "written")' \/ At(q, "triggered")' PROVE Serves(q)'
  <2>1. q # r
    BY <1>13, <1>4 DEF At
  <2>2. Serves(q) /\ LineOf(q)' = LineOf(q) /\ LineOf(q) \in Lines /\ ~At(q, "handed")
    BY <1>4, <1>5, <1>13, <2>1, LinesAre DEF At, Inv, QueuesOK
  <2>3. LineOf(q) # lr
    BY <2>1, <2>2, <1>0 DEF Serves
  <2>4. LineOf(q) # lj
    BY <2>2, ResultLines, RequestsAssumption
  <2> QED
    BY <1>3, <2>2, <2>3, <2>4 DEF Serves
<1>14. \A n \in Networks : Line("result", n) \in Lines /\ Line("result", n) # lr
  BY <1>1, LinesAre, ResultLines
<1>15. \A n \in Networks : \/ line'[Line("result", n)] = line[Line("result", n)]
                           \/ Line("result", n) = lj
  BY <1>3, <1>14
<1> QED
  BY <1>3, <1>10, <1>11, <1>12, <1>13, <1>15 DEF QueuesOK
-----------------------------------------------------------------------------
(* The FIFOs. *)

LEMMA AppendPipe ==
    ASSUME NEW S, NEW o \in Seq(S), NEW i \in Seq(S), NEW e \in S
    PROVE  Append(o \o i, e) = o \o Append(i, e) /\ o \o i \in Seq(S)
<1>1. o \o i \in Seq(S)
  BY ConcatProperties
<1>2. Append(o \o i, e) = o \o Append(i, e)
  OBVIOUS
<1> QED
  BY <1>1, <1>2

LEMMA ShiftPipe ==
    ASSUME NEW S, NEW o \in Seq(S), NEW i \in Seq(S), i # <<>>
    PROVE  Append(o, Head(i)) \o Tail(i) = o \o i
OBVIOUS

LEMMA TailPipe ==
    ASSUME NEW S, NEW o \in Seq(S), NEW i \in Seq(S), o # <<>>
    PROVE  Tail(o) \o i = Tail(o \o i) /\ (o \o i)[1] = Head(o) /\ o \o i # <<>> /\ o \o i \in Seq(S)
<1>1. Tail(o) \in Seq(S) /\ Len(Tail(o)) = Len(o) - 1 /\ \A k \in 1..Len(Tail(o)) : Tail(o)[k] = o[k + 1]
  BY HeadTailProperties
<1>2. /\ Len(o) \in Nat /\ Len(i) \in Nat /\ Len(o) >= 1 /\ Len(o \o i) = Len(o) + Len(i)
      /\ \A k \in 1..Len(o) + Len(i) : (o \o i)[k] = IF k <= Len(o) THEN o[k] ELSE i[k - Len(o)]
  BY ConcatProperties, EmptySeq
<1>3. o \o i # <<>> /\ (o \o i)[1] = Head(o)
  BY <1>2
<1>4. /\ Tail(o \o i) \in Seq(S) /\ Len(Tail(o \o i)) = Len(o) + Len(i) - 1
      /\ \A k \in 1..Len(Tail(o \o i)) : Tail(o \o i)[k] = (o \o i)[k + 1]
  BY <1>2, <1>3, ConcatProperties, HeadTailProperties
<1>5. /\ Tail(o) \o i \in Seq(S) /\ Len(Tail(o) \o i) = Len(o) + Len(i) - 1
      /\ \A k \in 1..Len(Tail(o) \o i) :
            (Tail(o) \o i)[k] = IF k <= Len(o) - 1 THEN Tail(o)[k] ELSE i[k - (Len(o) - 1)]
  <2>1. /\ Tail(o) \o i \in Seq(S) /\ Len(Tail(o) \o i) = Len(Tail(o)) + Len(i)
        /\ \A k \in 1..Len(Tail(o)) + Len(i) :
              (Tail(o) \o i)[k] = IF k <= Len(Tail(o)) THEN Tail(o)[k] ELSE i[k - Len(Tail(o))]
    BY <1>1, ConcatProperties
  <2> QED
    BY <2>1, <1>1, <1>2
<1>6. ASSUME NEW k \in 1..Len(Tail(o) \o i) PROVE (Tail(o) \o i)[k] = Tail(o \o i)[k]
  <2>1. k \in 1..(Len(o) + Len(i) - 1) /\ Tail(o \o i)[k] = (o \o i)[k + 1]
    BY <1>2, <1>4, <1>5
  <2>2. CASE k <= Len(o) - 1
    BY <2>1, <2>2, <1>1, <1>2, <1>5
  <2>3. CASE k > Len(o) - 1
    BY <2>1, <2>3, <1>1, <1>2, <1>5
  <2> QED
    BY <2>1, <2>2, <2>3, <1>2
<1>7. Tail(o) \o i = Tail(o \o i)
  BY <1>4, <1>5, <1>6, SeqEqual
<1> QED
  BY <1>3, <1>7, ConcatProperties

LEMMA InFlightFinite == \A n \in Networks : IsFiniteSet(InFlight(n)) /\ Cardinality(InFlight(n)) \in Nat
BY RequestsAssumption, FS_Subset, FS_CardinalityType DEF InFlight

LEMMA OneMoreInFlight ==
    ASSUME NEW r \in Requests, ~IsInFlight(r),
           \A q \in Requests : IsInFlight(q)' <=> IsInFlight(q) \/ q = r
    PROVE  Cardinality(InFlight(NetworkOf[r]))' = Cardinality(InFlight(NetworkOf[r])) + 1
<1>1. /\ InFlight(NetworkOf[r])' = InFlight(NetworkOf[r]) \cup {r}
      /\ r \notin InFlight(NetworkOf[r]) /\ IsFiniteSet(InFlight(NetworkOf[r]))
  BY InFlightFinite, RequestsAssumption DEF InFlight, IsInFlight
<1> QED
  BY <1>1, FS_AddElement

LEMMA OneLessInFlight ==
    ASSUME NEW r \in Requests, IsInFlight(r),
           \A q \in Requests : IsInFlight(q)' <=> IsInFlight(q) /\ q # r
    PROVE  Cardinality(InFlight(NetworkOf[r]))' = Cardinality(InFlight(NetworkOf[r])) - 1
<1>1. /\ InFlight(NetworkOf[r])' = InFlight(NetworkOf[r]) \ {r}
      /\ r \in InFlight(NetworkOf[r]) /\ IsFiniteSet(InFlight(NetworkOf[r]))
  BY InFlightFinite, RequestsAssumption DEF InFlight, IsInFlight
<1> QED
  BY <1>1, FS_RemoveElement

\* The inferences of a graph stay, and so does the order in which they are read.
LEMMA PipeFrame ==
    ASSUME NEW n \in Networks, ElementsOK(n), Pipe(n)' = Pipe(n), refused'[n] = refused[n],
           \A r \in Requests : NetworkOf[r] = n =>
               /\ IsInFlight(r)' <=> IsInFlight(r)
               /\ IsInFlight(r) => Input(r)' = Input(r),
           \A q, r \in InFlight(n) : ReadsBefore(q, r) => ReadsBefore(q, r)'
    PROVE  ElementsOK(n)'
<1> DEFINE p == Pipe(n)
<1>1. InFlight(n)' = InFlight(n) /\ \A r \in InFlight(n) : Input(r)' = Input(r)
  BY DEF InFlight, IsInFlight
<1>2. LevelOK(n)'
  BY <1>1 DEF LevelOK, ElementsOK
<1>3. ASSUME PipeOK(n) PROVE PipeOK(n)'
  <2>1. \A i \in 1..Len(p) : \E r \in Requests : (IsInFlight(r) /\ NetworkOf[r] = n)' /\ p[i] = Input(r)'
    BY <1>3 DEF PipeOK
  <2>2. \A r \in Requests : IsInFlight(r)' /\ NetworkOf[r] = n => \E i \in 1..Len(p) : p[i] = Input(r)'
    BY <1>3 DEF PipeOK
  <2>3. \A i, j \in 1..Len(p) : \A q, r \in InFlight(n)' :
          i < j /\ p[i] = Input(q)' /\ p[j] = Input(r)' => ReadsBefore(q, r)'
    BY <1>1, <1>3 DEF PipeOK
  <2> QED
    BY <2>1, <2>2, <2>3 DEF PipeOK
<1> QED
  BY <1>2, <1>3 DEF ElementsOK

\* What is read after whom follows from the queues of results.
LEMMA ReadsFrame ==
    ASSUME NEW q \in Requests, NEW r \in Requests, UNCHANGED shared, ReadsBefore(q, r),
           At(q, "handed")', At(r, "handed")' => At(r, "handed"),
           line'[Line("result", NetworkOf[q])] = line[Line("result", NetworkOf[q])]
    PROVE  ReadsBefore(q, r)'
BY DEF ReadsBefore, Line

\* A step of a request that is not in flight, which changes no queue of results.
LEMMA RequestFifos ==
    ASSUME Inv, NEW r \in Requests, UNCHANGED <<shared, fifos, refused, linkUp>>,
           ~IsInFlight(r), ~IsInFlight(r)',
           \A q \in Requests \ {r} : request'[q] = request[q],
           \A n \in Networks : line'[Line("result", n)] = line[Line("result", n)]
    PROVE  FifosOK'
<1> SUFFICES ASSUME linkUp, NEW n \in Networks PROVE (ElementsOK(n) /\ TriggersOK(n))'
  BY DEF FifosOK
<1>0. ElementsOK(n) /\ TriggersOK(n)
  BY DEF Inv, FifosOK
<1>1. Pipe(n)' = Pipe(n)
  BY DEF Pipe, fifos
<1>2. \A q \in Requests : /\ IsInFlight(q)' <=> IsInFlight(q)
                          /\ IsInFlight(q) => Input(q)' = Input(q)
                          /\ \A place \in Places : IsInFlight(q) => (At(q, place)' <=> At(q, place))
  BY DEF IsInFlight, Input, At
<1>3. ASSUME NEW q \in InFlight(n), NEW s \in InFlight(n), ReadsBefore(q, s)
      PROVE  ReadsBefore(q, s)'
  <2>1. q \in Requests /\ s \in Requests /\ IsInFlight(q) /\ IsInFlight(s) /\ NetworkOf[q] = n
    BY DEF InFlight, IsInFlight
  <2>2. At(q, "handed")' /\ (At(s, "handed")' => At(s, "handed"))
    BY <1>2, <1>3, <2>1 DEF ReadsBefore, Places
  <2> QED
    BY <1>3, <2>1, <2>2, ReadsFrame
<1>4. TriggersOK(n)'
  BY <1>0 DEF TriggersOK, At, IsInFlight, fifos
<1> QED
  BY <1>0, <1>1, <1>2, <1>3, <1>4, PipeFrame

LEMMA WriteFifos ==
    ASSUME Inv, OneWayEach, NEW r \in Requests, WriteElem(r)
    PROVE  FifosOK'
<1> DEFINE n == NetworkOf[r]
<1>0. /\ n \in Networks /\ linkUp /\ ElementsOK(n) /\ TriggersOK(n)
      /\ input \in [Networks -> Seq(Requests \X Nat)] /\ output \in [Networks -> Seq(Requests \X Nat)]
      /\ triggers \in [Networks -> Nat] /\ refused \in [Networks -> Nat]
  BY RequestsAssumption DEF WriteElem, Inv, FifosOK, TypeOK
<1>1. /\ request'[r].at = "written" /\ request'[r].starts = request[r].starts /\ request[r].starts \in Nat
      /\ \A q \in Requests \ {r} : request'[q] = request[q]
  BY MoveFacts DEF WriteElem, Places, Inv, TypeOK
<1>2. /\ Input(r) \in Requests \X Nat /\ Input(r)' = Input(r)
      /\ \A q \in Requests : Input(q)' = Input(q)
  BY <1>1 DEF Input
<1>3. /\ input'[n] = Append(input[n], Input(r))
      /\ \A k \in Networks \ {n} : input'[k] = input[k]
      /\ output' = output /\ triggers' = triggers /\ shared' = shared /\ line' = line /\ linkUp' = linkUp
      /\ refused' = refused
  BY <1>0 DEF WriteElem
<1>4. \A q \in Requests : IsInFlight(q)' <=> IsInFlight(q) \/ q = r
  BY <1>1 DEF IsInFlight
<1>5. ~IsInFlight(r) /\ Serves(r) /\ ~AtRest(r) /\ ~At(r, "handed")
  BY DEF WriteElem, IsInFlight, At, AtRest
<1>6. \A q \in Requests : IsInFlight(q) /\ NetworkOf[q] = n => At(q, "handed")
  BY <1>5, OthersHanded
<1>7. TriggersOK(n)'
  BY <1>0, <1>1, <1>3 DEF TriggersOK
<1>8. ElementsOK(n)'
  <2> DEFINE p == Pipe(n)
             e == Input(r)
  <2>1. p \in Seq(Requests \X Nat) /\ Pipe(n)' = Append(p, e)
    <3>1. p = output[n] \o input[n] /\ Pipe(n)' = output[n] \o Append(input[n], e)
      BY <1>3 DEF Pipe
    <3> DEFINE S == Requests \X Nat
    <3>2. output[n] \in Seq(S) /\ input[n] \in Seq(S) /\ e \in S
      BY <1>0, <1>2
    <3> HIDE DEF p, e, S
    <3>4. Append(output[n] \o input[n], e) = output[n] \o Append(input[n], e) /\ output[n] \o input[n] \in Seq(S)
      BY <3>2, AppendPipe
    <3> QED
      BY <3>1, <3>4 DEF S
  <2> HIDE DEF p
  <2>2. /\ Len(Pipe(n)') = Len(p) + 1 /\ Pipe(n)'[Len(p) + 1] = e
        /\ \A i \in 1..Len(p) : Pipe(n)'[i] = p[i]
    BY <1>2, <2>1
  <2>3. \A i \in 1..Len(Pipe(n)') : i \in 1..Len(p) \/ i = Len(p) + 1
    BY <2>1, <2>2
  <2>4. LevelOK(n)'
    <3>1. Len(p) = Cardinality(InFlight(n)) + refused[n] /\ refused'[n] = refused[n] /\ refused[n] \in Nat
      BY <1>0, <1>3 DEF ElementsOK, LevelOK, p
    <3>2. Cardinality(InFlight(n))' = Cardinality(InFlight(n)) + 1 /\ Cardinality(InFlight(n)) \in Nat
      BY <1>0, <1>4, <1>5, OneMoreInFlight, InFlightFinite
    <3> QED
      BY <2>2, <3>1, <3>2 DEF LevelOK
  <2>5. ASSUME refused[n] = 0 PROVE PipeOK(n)'
    <3>0. PipeOK(n)
      BY <1>0, <2>5 DEF ElementsOK
    <3>4. \A i \in 1..Len(p) : \E q \in Requests : IsInFlight(q) /\ NetworkOf[q] = n /\ p[i] = Input(q)
      BY <3>0 DEF PipeOK, p
    <3>5. \A q \in Requests : IsInFlight(q) /\ NetworkOf[q] = n => \E i \in 1..Len(p) : p[i] = Input(q)
      BY <3>0 DEF PipeOK, p
    <3>6. \A i, j \in 1..Len(p) : \A q, s \in InFlight(n) :
            i < j /\ p[i] = Input(q) /\ p[j] = Input(s) => ReadsBefore(q, s)
      BY <3>0 DEF PipeOK, p
    <3>7. \A i \in 1..Len(p) : p[i] # e
      <4> SUFFICES ASSUME NEW i \in 1..Len(p), p[i] = e PROVE FALSE
        OBVIOUS
      <4>1. PICK q \in Requests : IsInFlight(q) /\ p[i] = Input(q)
        BY <3>4
      <4>2. q = r
        BY <4>1 DEF Input
      <4> QED
        BY <4>1, <4>2, <1>5
    <3>8. \A i \in 1..Len(Pipe(n)') :
            \E q \in Requests : IsInFlight(q)' /\ NetworkOf[q] = n /\ Pipe(n)'[i] = Input(q)'
      <4> SUFFICES ASSUME NEW i \in 1..Len(Pipe(n)')
                   PROVE  \E q \in Requests : IsInFlight(q)' /\ NetworkOf[q] = n /\ Pipe(n)'[i] = Input(q)'
        OBVIOUS
      <4>1. CASE i \in 1..Len(p)
        BY <4>1, <2>2, <3>4, <1>2, <1>4
      <4>2. CASE i = Len(p) + 1
        BY <4>2, <2>2, <1>2, <1>4
      <4> QED
        BY <4>1, <4>2, <2>3
    <3>9. \A q \in Requests : IsInFlight(q)' /\ NetworkOf[q] = n =>
            \E i \in 1..Len(Pipe(n)') : Pipe(n)'[i] = Input(q)'
      <4> SUFFICES ASSUME NEW q \in Requests, IsInFlight(q)', NetworkOf[q] = n
                   PROVE  \E i \in 1..Len(Pipe(n)') : Pipe(n)'[i] = Input(q)'
        OBVIOUS
      <4>1. CASE q = r
        <5>1. Len(p) + 1 \in 1..Len(Pipe(n)')
          BY <2>1, <2>2
        <5> QED
          BY <4>1, <5>1, <2>2, <1>2
      <4>2. CASE IsInFlight(q)
        <5>1. PICK i \in 1..Len(p) : p[i] = Input(q)
          BY <4>2, <3>5
        <5>2. i \in 1..Len(Pipe(n)')
          BY <2>1, <2>2
        <5> QED
          BY <5>1, <5>2, <2>2, <1>2
      <4> QED
        BY <4>1, <4>2, <1>4
    <3>10. ASSUME NEW i \in 1..Len(Pipe(n)'), NEW j \in 1..Len(Pipe(n)'),
                  NEW q \in InFlight(n)', NEW s \in InFlight(n)',
                  i < j, Pipe(n)'[i] = Input(q)', Pipe(n)'[j] = Input(s)'
           PROVE  ReadsBefore(q, s)'
      <4>1. /\ q \in Requests /\ NetworkOf[q] = n /\ (IsInFlight(q) \/ q = r)
            /\ s \in Requests /\ NetworkOf[s] = n /\ (IsInFlight(s) \/ s = r)
        BY <1>4 DEF InFlight, IsInFlight
      <4>2. i \in 1..Len(p) /\ Pipe(n)'[i] = p[i]
        BY <2>1, <2>2, <2>3, <3>10
      <4>3. q # r
        BY <4>2, <3>7, <3>10, <1>2
      <4>4. At(q, "handed") /\ At(q, "handed")'
        BY <4>1, <4>3, <1>1, <1>6 DEF At
      <4>5. CASE s = r
        BY <4>4, <4>5, <1>1 DEF ReadsBefore, At
      <4>6. CASE s # r
        <5>1. j \in 1..Len(p) /\ Pipe(n)'[j] = p[j]
          <6>1. j # Len(p) + 1
            <7> SUFFICES ASSUME j = Len(p) + 1 PROVE FALSE
              OBVIOUS
            <7>1. Input(s) = Input(r)
              BY <2>2, <3>10, <1>2, <4>1
            <7> QED
              BY <7>1, <4>6 DEF Input
          <6> QED
            BY <6>1, <2>2, <2>3
        <5>2. q \in InFlight(n) /\ s \in InFlight(n)
          BY <4>1, <4>3, <4>6 DEF InFlight, IsInFlight
        <5>3. ReadsBefore(q, s)
          BY <5>1, <5>2, <4>1, <4>2, <3>6, <3>10, <1>2
        <5>4. At(s, "handed")' => At(s, "handed")
          BY <4>1, <4>6, <1>1 DEF At
        <5> QED
          BY <5>3, <5>4, <4>1, <4>4, <1>3, ReadsFrame
      <4> QED
        BY <4>5, <4>6
    <3> QED
      BY <3>8, <3>9, <3>10 DEF PipeOK
  <2> QED
    BY <2>4, <2>5, <1>3 DEF ElementsOK
<1>9. ASSUME NEW k \in Networks \ {n} PROVE ElementsOK(k)' /\ TriggersOK(k)'
  <2>0. ElementsOK(k) /\ TriggersOK(k)
    BY <1>0 DEF Inv, FifosOK
  <2>1. Pipe(k)' = Pipe(k) /\ refused'[k] = refused[k]
    BY <1>3 DEF Pipe
  <2>2. TriggersOK(k)'
    BY <2>0, <1>1, <1>3 DEF TriggersOK, At
  <2>3. \A q, s \in InFlight(k) : ReadsBefore(q, s) => ReadsBefore(q, s)'
    BY <1>1, <1>3, SMTT(60) DEF InFlight, ReadsBefore, At, Line
  <2> QED
    BY <2>0, <2>1, <2>2, <2>3, <1>2, <1>4, PipeFrame
<1> QED
  BY <1>7, <1>8, <1>9 DEF FifosOK

LEMMA TriggerFifos ==
    ASSUME Inv, OneWayEach, NEW r \in Requests, Trigger(r)
    PROVE  FifosOK'
<1> DEFINE n == NetworkOf[r]
<1>0. /\ n \in Networks /\ linkUp /\ Serves(r) /\ At(r, "written") /\ ~AtRest(r) /\ ~At(r, "handed")
      /\ input \in [Networks -> Seq(Requests \X Nat)] /\ triggers \in [Networks -> Nat]
      /\ refused \in [Networks -> Nat]
  BY RequestsAssumption DEF Trigger, Inv, TypeOK, At, AtRest
<1>1. /\ request'[r].at = "triggered" /\ request'[r].starts = request[r].starts
      /\ \A q \in Requests \ {r} : request'[q] = request[q]
  BY MoveFacts DEF Trigger, Places, Inv
<1>2. \A q \in Requests : Input(q)' = Input(q) /\ (IsInFlight(q)' <=> IsInFlight(q))
  BY <1>0, <1>1 DEF Input, IsInFlight, At
<1>3. /\ triggers'[n] = triggers[n] + 1 /\ \A k \in Networks \ {n} : triggers'[k] = triggers[k]
      /\ input' = input /\ output' = output /\ shared' = shared /\ line' = line /\ linkUp' = linkUp
      /\ refused' = refused
  BY <1>0 DEF Trigger
<1>4. ASSUME NEW q \in Requests, NetworkOf[q] = n, At(q, "written")' PROVE FALSE
  <2>1. q # r /\ At(q, "written")
    BY <1>1, <1>4 DEF At
  <2>2. IsInFlight(q) /\ ~At(q, "handed")
    BY <2>1 DEF At, IsInFlight
  <2> QED
    BY <2>1, <2>2, <1>0, <1>4, OthersHanded
<1>5. ASSUME NEW k \in Networks PROVE ElementsOK(k)' /\ TriggersOK(k)'
  <2>0. ElementsOK(k) /\ TriggersOK(k)
    BY <1>0 DEF Inv, FifosOK
  <2>1. Pipe(k)' = Pipe(k) /\ refused'[k] = refused[k]
    BY <1>3 DEF Pipe
  <2>2. TriggersOK(k)'
    <3>1. CASE k = n
      <4>1. /\ triggers[n] + refused[n] < Len(input[n]) /\ Len(input[n]) \in Nat
            /\ triggers[n] \in Nat /\ refused[n] \in Nat
        BY <3>1, <2>0, <1>0 DEF TriggersOK
      <4> QED
        BY <4>1, <3>1, <1>3, <1>4 DEF TriggersOK
    <3>2. CASE k # n
      BY <3>2, <2>0, <1>1, <1>3 DEF TriggersOK, At
    <3> QED
      BY <3>1, <3>2
  <2>3. \A q, s \in InFlight(k) : ReadsBefore(q, s) => ReadsBefore(q, s)'
    BY <1>0, <1>1, <1>3, ZenonT(60) DEF InFlight, ReadsBefore, At, Line
  <2> QED
    BY <2>0, <2>1, <2>2, <2>3, <1>2, PipeFrame
<1> QED
  BY <1>5 DEF FifosOK

LEMMA HandOverFifos ==
    ASSUME Inv, NEW r \in Requests, HandOver(r)
    PROVE  FifosOK'
<1>0. At(r, "triggered") /\ ~IsSync(r) /\ UNCHANGED <<shared, linkUp, input, output, triggers, refused>>
  BY DEF HandOver, fifos
<1>1. /\ request'[r].at = "handed" /\ request'[r].starts = request[r].starts
      /\ \A q \in Requests \ {r} : request'[q] = request[q]
  BY MoveFacts DEF HandOver, Places, Inv
<1>2. \A q \in Requests : Input(q)' = Input(q) /\ (IsInFlight(q)' <=> IsInFlight(q))
  BY <1>0, <1>1 DEF Input, IsInFlight, At
<1> SUFFICES ASSUME linkUp, NEW k \in Networks PROVE ElementsOK(k)' /\ TriggersOK(k)'
  BY <1>0 DEF FifosOK
<1> DEFINE l == Line("result", k)
<1>3. /\ line' \in [Lines -> Seq(Requests)] /\ line \in [Lines -> Seq(Requests)] /\ l \in Lines
      /\ line'[l] = line[l] \/ (l = Line("result", NetworkOf[r]) /\ line'[l] = Append(line[l], r))
      /\ NetworkOf[r] = k => line'[l] = Append(line[l], r)
  BY JoinsQueues, LinesAre DEF Inv, TypeOK
<1>4. ElementsOK(k) /\ TriggersOK(k)
  BY DEF Inv, FifosOK
<1>5. Pipe(k)' = Pipe(k) /\ refused'[k] = refused[k]
  BY <1>0 DEF Pipe
<1>6. TriggersOK(k)'
  BY <1>0, <1>1, <1>4 DEF TriggersOK, At
<1>7. ASSUME NEW q \in InFlight(k), NEW s \in InFlight(k), ReadsBefore(q, s) PROVE ReadsBefore(q, s)'
  <2>1. /\ q \in Requests /\ s \in Requests /\ NetworkOf[q] = k /\ NetworkOf[s] = k
        /\ At(q, "handed") /\ q # r /\ At(q, "handed")'
    BY <1>0, <1>1, <1>7 DEF InFlight, ReadsBefore, At
  <2>2. \A i \in 1..Len(line[l]) : i \in 1..Len(line'[l]) /\ line'[l][i] = line[l][i]
    <3>1. line[l] \in Seq(Requests)
      BY <1>3
    <3> QED
      BY <3>1, <1>3, SMTT(60)
  <2>3. CASE s = r
    <3>1. ~IsSync(q) /\ LineOf(q) = l /\ Stands(q, l)
      <4>1. ~IsSync(q) /\ Stands(q, LineOf(q))
        BY <2>1 DEF Inv, QueuesOK, ModesOK
      <4>2. LineOf(q) = l
        BY <2>1, <4>1, LinesAre
      <4> QED
        BY <4>1, <4>2
    <3>2. PICK i \in 1..Len(line[l]) : line[l][i] = q
      BY <3>1 DEF Stands
    <3>3. /\ Len(line[l]) + 1 \in 1..Len(line'[l]) /\ line'[l][Len(line[l]) + 1] = r
          /\ i < Len(line[l]) + 1 /\ line'[l][i] = q /\ i \in 1..Len(line'[l])
      <4>1. line[l] \in Seq(Requests) /\ line'[l] = Append(line[l], r)
        BY <1>3, <2>1, <2>3
      <4> QED
        BY <4>1, <3>2
    <3>4. \E i1, j1 \in 1..Len(line'[l]) : i1 < j1 /\ line'[l][i1] = q /\ line'[l][j1] = s
      BY <3>3, <2>3
    <3> QED
      BY <3>4, <2>1, <1>0 DEF ReadsBefore, Line
  <2>4. CASE s # r /\ ~At(s, "handed")
    BY <2>1, <2>4, <1>1 DEF ReadsBefore, At
  <2>5. CASE s # r /\ At(s, "handed")
    <3>1. PICK i, j \in 1..Len(line[l]) : i < j /\ line[l][i] = q /\ line[l][j] = s
      BY <1>7, <2>1, <2>5 DEF ReadsBefore
    <3>2. \E i1, j1 \in 1..Len(line'[l]) : i1 < j1 /\ line'[l][i1] = q /\ line'[l][j1] = s
      BY <3>1, <2>2
    <3> QED
      BY <3>2, <2>1, <1>0 DEF ReadsBefore, Line
  <2> QED
    BY <2>3, <2>4, <2>5
<1> QED
  BY <1>2, <1>4, <1>5, <1>6, <1>7, PipeFrame

LEMMA DeviceFifos ==
    ASSUME Inv, NEW n \in Networks, DeviceRuns(n)
    PROVE  /\ FifosOK'
           /\ input' \in [Networks -> Seq(Requests \X Nat)]
           /\ triggers' \in [Networks -> Nat]
           /\ output' \in [Networks -> Seq(Requests \X Nat)]
<1>0. /\ linkUp /\ ElementsOK(n) /\ TriggersOK(n) /\ triggers[n] > 0
      /\ input \in [Networks -> Seq(Requests \X Nat)] /\ output \in [Networks -> Seq(Requests \X Nat)]
      /\ triggers \in [Networks -> Nat] /\ refused \in [Networks -> Nat]
      /\ input[n] \in Seq(Requests \X Nat) /\ output[n] \in Seq(Requests \X Nat)
  BY DEF DeviceRuns, Inv, FifosOK, TypeOK
<1>1. input[n] # <<>> /\ Len(input[n]) \in Nat /\ triggers[n] \in Nat /\ refused[n] \in Nat
  BY <1>0 DEF TriggersOK
<1>2. /\ Head(input[n]) \in Requests \X Nat
      /\ Tail(input[n]) \in Seq(Requests \X Nat) /\ Len(Tail(input[n])) = Len(input[n]) - 1
  BY <1>0, <1>1, HeadTailProperties, Zenon
<1>3. Append(output[n], Head(input[n])) \in Seq(Requests \X Nat)
  BY <1>0, <1>2, AppendProperties, Zenon
<1>4. /\ input'[n] = Tail(input[n]) /\ \A k \in Networks \ {n} : input'[k] = input[k]
      /\ input' \in [Networks -> Seq(Requests \X Nat)]
      /\ output'[n] = Append(output[n], Head(input[n])) /\ \A k \in Networks \ {n} : output'[k] = output[k]
      /\ output' \in [Networks -> Seq(Requests \X Nat)]
      /\ triggers'[n] = triggers[n] - 1 /\ \A k \in Networks \ {n} : triggers'[k] = triggers[k]
      /\ triggers' \in [Networks -> Nat]
      /\ UNCHANGED <<shared, request, line, refused, linkUp>>
  <2>1. /\ input' = [input EXCEPT ![n] = Tail(input[n])]
        /\ triggers' = [triggers EXCEPT ![n] = triggers[n] - 1]
        /\ output' = [output EXCEPT ![n] = Append(output[n], Head(input[n]))]
        /\ UNCHANGED <<shared, request, line, refused, linkUp>>
    BY DEF DeviceRuns
  <2>2. triggers[n] - 1 \in Nat
    BY <1>0, <1>1
  <2> DEFINE t == Tail(input[n])
             a == Append(output[n], Head(input[n]))
             S == Seq(Requests \X Nat)
  <2>3. t \in S /\ a \in S /\ input \in [Networks -> S] /\ output \in [Networks -> S]
    BY <1>0, <1>2, <1>3
  <2> HIDE DEF t, a, S
  <2>4. /\ input' = [input EXCEPT ![n] = t] /\ output' = [output EXCEPT ![n] = a]
    BY <2>1 DEF t, a
  <2>5. /\ input'[n] = t /\ \A k \in Networks \ {n} : input'[k] = input[k]
        /\ output'[n] = a /\ \A k \in Networks \ {n} : output'[k] = output[k]
        /\ input' \in [Networks -> S] /\ output' \in [Networks -> S]
    BY <2>3, <2>4
  <2>6. /\ triggers'[n] = triggers[n] - 1 /\ \A k \in Networks \ {n} : triggers'[k] = triggers[k]
        /\ triggers' \in [Networks -> Nat]
    BY <2>1, <2>2, <1>0
  <2> QED
    BY <2>1, <2>5, <2>6 DEF t, a, S
<1>5. Pipe(n)' = Pipe(n)
  <2>1. Append(output[n], Head(input[n])) \o Tail(input[n]) = output[n] \o input[n]
    <3> DEFINE S == Requests \X Nat
    <3>1. input[n] \in Seq(S) /\ output[n] \in Seq(S)
      BY <1>0
    <3> HIDE DEF S
    <3> QED
      BY <3>1, <1>1, ShiftPipe
  <2> QED
    BY <2>1, <1>4 DEF Pipe
<1>6. ASSUME NEW k \in Networks PROVE ElementsOK(k)' /\ TriggersOK(k)'
  <2>0. ElementsOK(k) /\ TriggersOK(k)
    BY <1>0 DEF Inv, FifosOK
  <2>1. Pipe(k)' = Pipe(k) /\ refused'[k] = refused[k]
    BY <1>4, <1>5 DEF Pipe
  <2>2. TriggersOK(k)'
    <3>1. CASE k = n
      <4>1. /\ triggers'[n] = triggers[n] - 1 /\ Len(input'[n]) = Len(input[n]) - 1
            /\ request' = request /\ refused' = refused
        BY <1>2, <1>4
      <4>2. /\ triggers[n] + refused[n] <= Len(input[n])
            /\ \A r \in Requests : NetworkOf[r] = n /\ At(r, "written") =>
                  triggers[n] + refused[n] < Len(input[n])
        BY <1>0 DEF TriggersOK
      <4> QED
        BY <3>1, <4>1, <4>2, <1>1 DEF TriggersOK, At
    <3>2. CASE k # n
      BY <3>2, <2>0, <1>4 DEF TriggersOK, At
    <3> QED
      BY <3>1, <3>2
  <2>3. \A q, s \in InFlight(k) : ReadsBefore(q, s) => ReadsBefore(q, s)'
    BY <1>4 DEF ReadsBefore, At, Line
  <2>4. \A q \in Requests : Input(q)' = Input(q) /\ (IsInFlight(q)' <=> IsInFlight(q))
    BY <1>4 DEF Input, IsInFlight
  <2> QED
    BY <2>0, <2>1, <2>2, <2>3, <2>4, PipeFrame
<1> QED
  BY <1>4, <1>6 DEF FifosOK

\* Who reads is the first of those in flight.
LEMMA ReaderIsFirst ==
    ASSUME Inv, OneWayEach, NEW r \in Requests, NEW q \in Requests, Reads(r), Serves(r),
           NetworkOf[q] = NetworkOf[r], IsInFlight(q), q # r, ReadsBefore(q, r)
    PROVE  FALSE
<1>1. CASE At(r, "triggered") /\ IsSync(r)
  <2>1. ~AtRest(r) /\ ~At(r, "handed")
    BY <1>1 DEF At, AtRest
  <2> QED
    BY <1>1, <2>1, OthersHanded
<1>2. CASE At(r, "handed")
  <2> DEFINE l == Line("result", NetworkOf[q])
  <2>1. l \in Lines /\ LineOf(r) = l
    BY <1>2, LinesAre, RequestsAssumption DEF Inv, ModesOK
  <2>2. line[l] \in Seq(Requests) /\ line[l] # <<>> /\ line[l][1] = r
    BY <2>1 DEF Serves, Inv, TypeOK
  <2>3. PICK i, j \in 1..Len(line[l]) : i < j /\ line[l][j] = r
    BY <1>2 DEF ReadsBefore
  <2>4. 1 \in 1..Len(line[l]) /\ j = 1
    BY <2>1, <2>2, <2>3 DEF Inv, QueuesOK
  <2> QED
    BY <2>3, <2>4
<1> QED
  BY <1>1, <1>2 DEF Reads

\* Who reads finds the result of its own input first in the FIFOs.
LEMMA ReadsOwn ==
    ASSUME Inv, OneWayEach, NEW r \in Requests, Reads(r), Serves(r), linkUp, output[NetworkOf[r]] # <<>>
    PROVE  /\ refused[NetworkOf[r]] = 0 =>
                /\ Head(output[NetworkOf[r]]) = Input(r)
                /\ Pipe(NetworkOf[r])[1] = Input(r)
           /\ Tail(output[NetworkOf[r]]) \o input[NetworkOf[r]] = Tail(Pipe(NetworkOf[r]))
           /\ Pipe(NetworkOf[r]) \in Seq(Requests \X Nat) /\ Pipe(NetworkOf[r]) # <<>>
<1> DEFINE n == NetworkOf[r]
           p == Pipe(n)
           S == Requests \X Nat
<1>0. n \in Networks /\ ElementsOK(n) /\ output[n] \in Seq(S) /\ input[n] \in Seq(S) /\ IsInFlight(r)
  BY RequestsAssumption DEF Inv, FifosOK, TypeOK, IsInFlight, Reads, At
<1>1. p[1] = Head(output[n]) /\ p \in Seq(S) /\ p # <<>> /\ Tail(output[n]) \o input[n] = Tail(p)
  <2> HIDE DEF S
  <2> QED
    BY <1>0, TailPipe DEF Pipe
<1>2. ASSUME refused[n] = 0 PROVE p[1] = Input(r)
  <2> SUFFICES ASSUME p[1] # Input(r) PROVE FALSE
    OBVIOUS
  <2>1. 1 \in 1..Len(p) /\ PipeOK(n)
    BY <1>0, <1>1, <1>2 DEF ElementsOK
  <2>2. PICK k \in 1..Len(p) : p[k] = Input(r)
    BY <1>0, <2>1 DEF PipeOK
  <2>3. PICK q \in Requests : IsInFlight(q) /\ NetworkOf[q] = n /\ p[1] = Input(q)
    BY <2>1 DEF PipeOK
  <2>4. q # r /\ k # 1 /\ 1 < k
    BY <2>2, <2>3
  <2>5. q \in InFlight(n) /\ r \in InFlight(n)
    BY <1>0, <2>3 DEF InFlight, IsInFlight
  <2>6. ReadsBefore(q, r)
    BY <2>1, <2>2, <2>3, <2>4, <2>5 DEF PipeOK
  <2> QED
    BY <2>3, <2>4, <2>6, ReaderIsFirst
<1> QED
  BY <1>1, <1>2

LEMMA GetFifos ==
    ASSUME Inv, OneWayEach, NEW r \in Requests, GetResult(r),
           AtRest(r)', \A q \in Requests \ {r} : request'[q] = request[q]
    PROVE  FifosOK'
<1> DEFINE n == NetworkOf[r]
           p == Pipe(n)
<1>0. /\ n \in Networks /\ linkUp /\ Reads(r) /\ Serves(r) /\ output[n] # <<>>
      /\ output \in [Networks -> Seq(Requests \X Nat)]
      /\ line \in [Lines -> Seq(Requests)]
      /\ UNCHANGED <<shared, input, triggers, refused, linkUp>>
      /\ refused \in [Networks -> Nat]
  BY RequestsAssumption DEF GetResult, Inv, TypeOK
<1>1. output'[n] = Tail(output[n]) /\ \A k \in Networks \ {n} : output'[k] = output[k]
  BY <1>0 DEF GetResult
<1>2. /\ IsInFlight(r) /\ ~IsInFlight(r)' /\ ~At(r, "written")'
      /\ \A q \in Requests \ {r} : /\ IsInFlight(q)' <=> IsInFlight(q)
                                   /\ Input(q)' = Input(q)
                                   /\ At(q, "written")' <=> At(q, "written")
                                   /\ At(q, "handed")' <=> At(q, "handed")
  BY <1>0 DEF IsInFlight, Input, Reads, At, AtRest
<1>3. /\ refused[n] = 0 => p[1] = Input(r)
      /\ Pipe(n)' = Tail(p) /\ p \in Seq(Requests \X Nat) /\ p # <<>>
  BY <1>0, <1>1, ReadsOwn DEF Pipe
<1>4. ASSUME NEW k \in Networks, NEW q \in Requests \ {r}, NEW s \in Requests \ {r},
             NetworkOf[q] = k, ReadsBefore(q, s)
      PROVE  ReadsBefore(q, s)'
  <2> DEFINE l == Line("result", k)
  <2>1. l \in Lines /\ LineOf(r) \in Lines
    BY LinesAre
  <2>2. CASE ~At(s, "handed")
    BY <1>2, <1>4, <2>2 DEF ReadsBefore
  <2>3. CASE At(s, "handed")
    <3>1. PICK i, j \in 1..Len(line[l]) : i < j /\ line[l][i] = q /\ line[l][j] = s
      BY <1>4, <2>3 DEF ReadsBefore
    <3>2. CASE l = LineOf(r)
      <4>1. line[l] \in Seq(Requests) /\ line[l] # <<>> /\ line[l][1] = r /\ line'[l] = Tail(line[l])
        BY <1>0, <2>1, <3>2 DEF GetResult, Leaves, Serves
      <4>2. i # 1 /\ j # 1
        BY <4>1, <3>1
      <4>3. /\ i - 1 \in 1..Len(line'[l]) /\ line'[l][i - 1] = q
            /\ j - 1 \in 1..Len(line'[l]) /\ line'[l][j - 1] = s /\ i - 1 < j - 1
        BY <3>1, <4>1, <4>2
      <4>4. \E i1, j1 \in 1..Len(line'[l]) : i1 < j1 /\ line'[l][i1] = q /\ line'[l][j1] = s
        BY <4>3
      <4> QED
        BY <4>4, <1>0, <1>2, <1>4 DEF ReadsBefore, Line
    <3>3. CASE l # LineOf(r)
      <4>1. line'[l] = line[l]
        BY <1>0, <2>1, <3>3 DEF GetResult, Leaves
      <4>2. At(q, "handed")' /\ (At(s, "handed")' => At(s, "handed")) /\ shared' = shared
        BY <1>0, <1>2, <1>4 DEF ReadsBefore
      <4> QED
        BY <4>1, <4>2, <1>4, ReadsFrame
    <3> QED
      BY <3>2, <3>3
  <2> QED
    BY <2>2, <2>3
<1>5. ASSUME refused[n] = 0 PROVE PipeOK(n)'
  <2>0. PipeOK(n) /\ p[1] = Input(r)
    BY <1>0, <1>3, <1>5 DEF Inv, FifosOK, ElementsOK
  <2>1. /\ \A i \in 1..Len(p) : \E q \in Requests : IsInFlight(q) /\ NetworkOf[q] = n /\ p[i] = Input(q)
        /\ \A q \in Requests : IsInFlight(q) /\ NetworkOf[q] = n => \E i \in 1..Len(p) : p[i] = Input(q)
        /\ \A i, j \in 1..Len(p) : \A q, s \in InFlight(n) :
              i < j /\ p[i] = Input(q) /\ p[j] = Input(s) => ReadsBefore(q, s)
    BY <2>0 DEF PipeOK
  <2>2. /\ Len(Pipe(n)') = Len(p) - 1 /\ 1 \in 1..Len(p) /\ Len(p) \in Nat
        /\ \A i \in 1..Len(Pipe(n)') : i + 1 \in 1..Len(p) /\ Pipe(n)'[i] = p[i + 1] /\ 1 < i + 1
    BY <1>3, SMTT(60)
  <2> HIDE DEF p
  <2>3. \A i \in 1..Len(p) : 1 < i => p[i] # Input(r)
    <3>1. r \in InFlight(n) /\ ~ReadsBefore(r, r)
      BY <1>2, NotBeforeItself DEF InFlight, IsInFlight
    <3> QED
      BY <3>1, <2>0, <2>1, <2>2 DEF p
  <2>4. ASSUME NEW i \in 1..Len(Pipe(n)')
        PROVE  \E q \in Requests : IsInFlight(q)' /\ NetworkOf[q] = n /\ Pipe(n)'[i] = Input(q)'
    <3>1. PICK q \in Requests : IsInFlight(q) /\ NetworkOf[q] = n /\ p[i + 1] = Input(q)
      BY <2>1, <2>2
    <3>2. q # r
      BY <3>1, <2>2, <2>3
    <3> QED
      BY <3>1, <3>2, <2>2, <1>2
  <2>5. ASSUME NEW q \in Requests, IsInFlight(q)', NetworkOf[q] = n
        PROVE  \E i \in 1..Len(Pipe(n)') : Pipe(n)'[i] = Input(q)'
    <3>1. q # r /\ IsInFlight(q) /\ Input(q)' = Input(q) /\ Input(q) # Input(r)
      BY <2>5, <1>2 DEF Input
    <3>2. PICK i \in 1..Len(p) : p[i] = Input(q)
      BY <3>1, <2>1, <2>5
    <3>3. i # 1
      BY <3>1, <3>2, <2>0 DEF p
    <3>4. i - 1 \in 1..Len(Pipe(n)') /\ Pipe(n)'[i - 1] = p[i]
      <4>1. i - 1 \in 1..Len(Pipe(n)')
        BY <3>3, <2>2
      <4> QED
        BY <4>1, <2>2
    <3> QED
      BY <3>1, <3>2, <3>4
  <2>6. ASSUME NEW i \in 1..Len(Pipe(n)'), NEW j \in 1..Len(Pipe(n)'),
               NEW q \in InFlight(n)', NEW s \in InFlight(n)',
               i < j, Pipe(n)'[i] = Input(q)', Pipe(n)'[j] = Input(s)'
        PROVE  ReadsBefore(q, s)'
    <3>1. /\ q \in Requests \ {r} /\ NetworkOf[q] = n /\ q \in InFlight(n)
          /\ s \in Requests \ {r} /\ NetworkOf[s] = n /\ s \in InFlight(n)
      BY <1>2 DEF InFlight, IsInFlight
    <3>2. /\ i + 1 \in 1..Len(p) /\ p[i + 1] = Input(q)
          /\ j + 1 \in 1..Len(p) /\ p[j + 1] = Input(s) /\ i + 1 < j + 1
      BY <2>2, <2>6, <3>1, <1>2
    <3>3. ReadsBefore(q, s)
      BY <2>1, <3>1, <3>2
    <3> QED
      BY <3>1, <3>3, <1>0, <1>4
  <2> QED
    BY <2>4, <2>5, <2>6 DEF PipeOK
<1>6. LevelOK(n)'
  <2>1. Len(p) = Cardinality(InFlight(n)) + refused[n] /\ refused'[n] = refused[n] /\ refused[n] \in Nat
    BY <1>0 DEF Inv, FifosOK, ElementsOK, LevelOK
  <2>2. Cardinality(InFlight(n))' = Cardinality(InFlight(n)) - 1 /\ Cardinality(InFlight(n)) \in Nat
    <3>1. \A q \in Requests : IsInFlight(q)' <=> IsInFlight(q) /\ q # r
      BY <1>2
    <3> QED
      BY <3>1, <1>0, <1>2, OneLessInFlight, InFlightFinite
  <2>3. Len(Pipe(n)') = Len(p) - 1
    BY <1>3
  <2> QED
    BY <2>1, <2>2, <2>3 DEF LevelOK
<1>7. ASSUME NEW k \in Networks \ {n} PROVE ElementsOK(k)'
  <2>0. ElementsOK(k) /\ Pipe(k)' = Pipe(k) /\ refused'[k] = refused[k]
    BY <1>0, <1>1 DEF Inv, FifosOK, Pipe
  <2>1. \A q \in Requests : NetworkOf[q] = k => q # r
    OBVIOUS
  <2>2. \A q, s \in InFlight(k) : ReadsBefore(q, s) => ReadsBefore(q, s)'
    BY <2>1, <1>4 DEF InFlight
  <2> QED
    BY <2>0, <2>1, <2>2, <1>2, PipeFrame
<1>8. ASSUME NEW k \in Networks PROVE TriggersOK(k)'
  <2>1. TriggersOK(k)
    BY <1>0 DEF Inv, FifosOK
  <2> QED
    BY <2>1, <1>0, <1>2 DEF TriggersOK
<1> QED
  BY <1>0, <1>5, <1>6, <1>7, <1>8 DEF FifosOK, ElementsOK
-----------------------------------------------------------------------------
LEMMA InitInv == Init => Inv
<1> SUFFICES ASSUME Init PROVE Inv
  OBVIOUS
<1>1. TypeOK
  BY DEF Init, TypeOK, Places
<1>2. \A r \in Requests : request[r].at = "idle"
  BY DEF Init
<1>3. QueuesOK /\ ModesOK /\ IntactResultsMatch
  BY <1>2 DEF Init, QueuesOK, ModesOK, IntactResultsMatch, OwnResult, At, AtRest
<1>4. ASSUME NEW n \in Networks PROVE ElementsOK(n) /\ TriggersOK(n)
  <2>1. Len(Pipe(n)) = 0
    BY DEF Init, Pipe
  <2>2. \A r \in Requests : ~IsInFlight(r) /\ ~At(r, "written")
    BY <1>2 DEF IsInFlight, At
  <2>3. triggers[n] = 0 /\ Len(input[n]) = 0 /\ refused[n] = 0
    BY DEF Init
  <2>4. Cardinality(InFlight(n)) = 0
    <3>1. InFlight(n) = {}
      BY <2>2 DEF InFlight, IsInFlight
    <3> QED
      BY <3>1, FS_EmptySet
  <2> QED
    BY <2>1, <2>2, <2>3, <2>4 DEF PipeOK, TriggersOK, LevelOK, ElementsOK
<1> QED
  BY <1>1, <1>3, <1>4 DEF Inv, FifosOK

\* The modes and the results of the requests that a step leaves alone.
LEMMA RequestFrame ==
    ASSUME Inv, NEW r \in Requests, UNCHANGED usage,
           \A q \in Requests \ {r} : request'[q] = request[q],
           AtRest(r)' \/ (request'[r].mode \in usage[NetworkOf[r]] /\ ~At(r, "handed")')
                      \/ (request'[r].mode = "async" /\ "async" \in usage[NetworkOf[r]]),
           \A n \in Networks : refused'[n] = 0 => refused[n] = 0,
           refused'[NetworkOf[r]] = 0 => OwnResult(r)'
    PROVE  ModesOK' /\ IntactResultsMatch'
<1>1. ModesOK'
  BY DEF Inv, ModesOK, AtRest, At, IsSync
<1>2. ASSUME NEW q \in Requests, refused'[NetworkOf[q]] = 0 PROVE OwnResult(q)'
  <2>1. CASE q = r
    BY <1>2, <2>1
  <2>2. CASE q # r
    <3>1. OwnResult(q)
      BY <1>2, RequestsAssumption DEF Inv, IntactResultsMatch
    <3> QED
      BY <3>1, <2>2 DEF OwnResult, At, Input
  <2> QED
    BY <2>1, <2>2
<1> QED
  BY <1>1, <1>2 DEF IntactResultsMatch

LEMMA StartInv ==
    ASSUME Inv, NEW r \in Requests, NEW mode \in {"async", "sync"}, Start(r, mode)
    PROVE  Inv'
<1>1. request \in [Requests -> RequestStates]
  BY DEF Inv, TypeOK
<1>2. /\ request'[r] = [at |-> "queued", mode |-> mode, starts |-> request[r].starts + 1, result |-> <<>>]
      /\ \A q \in Requests \ {r} : request'[q] = request[q]
  BY <1>1 DEF Start
<1>3. request' \in [Requests -> RequestStates]
  BY <1>1 DEF Start, Places
<1>4. QueuesOK' /\ line' \in [Lines -> Seq(Requests)]
  BY StartQueues
<1>5. TypeOK'
  BY <1>3, <1>4 DEF Inv, TypeOK, Start, fifos
<1>6. ModesOK' /\ IntactResultsMatch'
  BY <1>2, RequestFrame DEF Start, At, AtRest, OwnResult
<1>7. FifosOK'
  <2>1. ~IsInFlight(r) /\ ~IsInFlight(r)'
    BY <1>2 DEF Start, AtRest, IsInFlight
  <2>2. \A n \in Networks : line'[Line("result", n)] = line[Line("result", n)]
    <3>1. \A n \in Networks :
            Line("result", n) \in Lines /\ Line("result", n) # Line(IF mode = "sync" THEN "sync" ELSE "infer", NetworkOf[r])
      BY LinesAre, RequestsAssumption
    <3> QED
      BY <3>1 DEF Start, Inv, TypeOK
  <2> QED
    BY <1>2, <2>1, <2>2, RequestFifos DEF Start
<1> QED
  BY <1>4, <1>5, <1>6, <1>7 DEF Inv

\* A request whose executor throws leaves its queue.
LEMMA FailFacts ==
    ASSUME Inv, NEW r \in Requests, Serves(r), ~AtRest(r), Fail(r), UNCHANGED <<shared, usage, fifos, linkUp>>,
           \A n \in Networks : refused'[n] = 0 => refused[n] = 0, refused' \in [Networks -> Nat]
    PROVE  /\ TypeOK' /\ QueuesOK' /\ ModesOK' /\ IntactResultsMatch'
           /\ request'[r].at = "failed"
           /\ \A q \in Requests \ {r} : request'[q] = request[q]
<1>1. /\ request' \in [Requests -> RequestStates]
      /\ request'[r].at = "failed"
      /\ \A q \in Requests \ {r} : request'[q] = request[q]
  BY MoveFacts DEF Fail, Places, Inv
<1>2. QueuesOK' /\ line' \in [Lines -> Seq(Requests)]
  BY <1>1, LeavesQueues DEF Fail, AtRest
<1>3. TypeOK'
  BY <1>1, <1>2 DEF Inv, TypeOK, fifos
<1>4. ModesOK' /\ IntactResultsMatch'
  BY <1>1, RequestFrame DEF AtRest, At, OwnResult
<1> QED
  BY <1>1, <1>2, <1>3, <1>4

LEMMA ThrowsInv ==
    ASSUME Inv, NEW r \in Requests, Throws(r) PROVE Inv'
<1>1. request[r].at = "queued" /\ ~AtRest(r) /\ Serves(r) /\ ~IsInFlight(r)
  BY DEF Throws, Checks, AtRest, IsInFlight
<1>2. /\ TypeOK' /\ QueuesOK' /\ ModesOK' /\ IntactResultsMatch'
      /\ request'[r].at = "failed"
      /\ \A q \in Requests \ {r} : request'[q] = request[q]
  BY <1>1, FailFacts DEF Throws, Inv, TypeOK
<1>3. \A n \in Networks : line'[Line("result", n)] = line[Line("result", n)]
  <2>1. \A n \in Networks : Line("result", n) \in Lines /\ Line("result", n) # LineOf(r)
    BY <1>1, LinesAre, ResultLines DEF At
  <2> QED
    BY <2>1 DEF Throws, Fail, Leaves, Inv, TypeOK
<1>4. FifosOK'
  <2>1. ~IsInFlight(r)'
    BY <1>2 DEF IsInFlight
  <2> QED
    BY <1>1, <1>2, <1>3, <2>1, RequestFifos DEF Throws
<1> QED
  BY <1>2, <1>4 DEF Inv

LEMMA CallFailsInv ==
    ASSUME Inv, NEW r \in Requests, CallFails(r) PROVE Inv'
<1>1. ~AtRest(r) /\ Serves(r) /\ ~linkUp'
  BY DEF CallFails, Calls, Reads, At, AtRest
<1>2. TypeOK' /\ QueuesOK' /\ ModesOK' /\ IntactResultsMatch'
  BY <1>1, FailFacts DEF CallFails, Inv, TypeOK
<1> QED
  BY <1>1, <1>2 DEF Inv, FifosOK

\* The input of a refused trigger stays, and so does everything that was
\* handed over before.
LEMMA RefusedInv ==
    ASSUME Inv, OneWayEach, NEW r \in Requests, TriggerRefused(r) PROVE Inv'
<1> DEFINE n == NetworkOf[r]
<1>0. /\ n \in Networks /\ linkUp /\ Serves(r) /\ At(r, "written") /\ ~AtRest(r) /\ ~At(r, "handed")
      /\ IsInFlight(r) /\ triggers \in [Networks -> Nat] /\ refused \in [Networks -> Nat]
      /\ input \in [Networks -> Seq(Requests \X Nat)]
  BY RequestsAssumption DEF TriggerRefused, Inv, TypeOK, At, AtRest, IsInFlight
<1>1. /\ refused'[n] = refused[n] + 1 /\ \A k \in Networks \ {n} : refused'[k] = refused[k]
      /\ refused' \in [Networks -> Nat]
      /\ UNCHANGED <<shared, usage, input, triggers, output, linkUp>> /\ Fail(r)
  BY <1>0 DEF TriggerRefused, fifos
<1>2. /\ TypeOK' /\ QueuesOK' /\ ModesOK' /\ IntactResultsMatch'
      /\ request'[r].at = "failed"
      /\ \A q \in Requests \ {r} : request'[q] = request[q]
  <2>1. \A k \in Networks : refused'[k] = 0 => refused[k] = 0
    BY <1>0, <1>1
  <2> QED
    BY <2>1, <1>0, <1>1, FailFacts DEF fifos
<1>3. \A k \in Networks : line'[Line("result", k)] = line[Line("result", k)]
  <2>1. \A k \in Networks : Line("result", k) \in Lines /\ Line("result", k) # LineOf(r)
    BY <1>0, LinesAre, ResultLines
  <2> QED
    BY <2>1, <1>1 DEF Fail, Leaves, Inv, TypeOK
<1>4. \A q \in Requests : /\ IsInFlight(q)' <=> IsInFlight(q) /\ q # r
                          /\ IsInFlight(q) /\ q # r => Input(q)' = Input(q)
  BY <1>2 DEF IsInFlight, Input
<1>5. ElementsOK(n)' /\ TriggersOK(n)'
  <2>1. ElementsOK(n) /\ TriggersOK(n)
    BY <1>0 DEF Inv, FifosOK
  <2>2. /\ triggers[n] + refused[n] < Len(input[n])
        /\ triggers[n] \in Nat /\ refused[n] \in Nat /\ Len(input[n]) \in Nat
    BY <1>0, <2>1 DEF TriggersOK
  <2>3. ASSUME NEW q \in Requests, NetworkOf[q] = n, At(q, "written")' PROVE FALSE
    <3>1. q # r /\ At(q, "written")
      BY <1>2, <2>3 DEF At
    <3>2. IsInFlight(q) /\ ~At(q, "handed")
      BY <3>1 DEF At, IsInFlight
    <3> QED
      BY <3>1, <3>2, <1>0, <2>3, OthersHanded
  <2>4. TriggersOK(n)'
    BY <1>1, <2>2, <2>3 DEF TriggersOK
  <2>5. Cardinality(InFlight(n))' = Cardinality(InFlight(n)) - 1 /\ Cardinality(InFlight(n)) \in Nat
    BY <1>0, <1>4, OneLessInFlight, InFlightFinite
  <2>6. LevelOK(n)'
    BY <1>1, <2>1, <2>2, <2>5 DEF LevelOK, ElementsOK, Pipe
  <2>7. refused'[n] # 0
    BY <1>1, <2>2
  <2> QED
    BY <2>4, <2>6, <2>7 DEF ElementsOK
<1>6. ASSUME NEW k \in Networks \ {n} PROVE ElementsOK(k)' /\ TriggersOK(k)'
  <2>0. ElementsOK(k) /\ TriggersOK(k)
    BY <1>0 DEF Inv, FifosOK
  <2>1. Pipe(k)' = Pipe(k) /\ refused'[k] = refused[k]
    BY <1>1 DEF Pipe
  <2>2. TriggersOK(k)'
    BY <2>0, <2>1, <1>1, <1>2 DEF TriggersOK, At
  <2>3. ASSUME NEW q \in InFlight(k), NEW s \in InFlight(k), ReadsBefore(q, s) PROVE ReadsBefore(q, s)'
    <3>1. q \in Requests \ {r} /\ s \in Requests \ {r} /\ NetworkOf[q] = k
      BY DEF InFlight
    <3>2. At(q, "handed")' /\ (At(s, "handed")' => At(s, "handed"))
      BY <3>1, <1>2, <2>3 DEF ReadsBefore, At
    <3> QED
      BY <2>3, <3>1, <3>2, <1>1, <1>3, ReadsFrame
  <2>4. \A q \in Requests : NetworkOf[q] = k => q # r
    OBVIOUS
  <2> QED
    BY <2>0, <2>1, <2>2, <2>3, <2>4, <1>4, PipeFrame
<1> QED
  BY <1>2, <1>5, <1>6 DEF Inv, FifosOK

\* A request moves on in its queue, or hands itself over to the next one.
LEMMA MoveInv ==
    ASSUME Inv, OneWayEach, NEW r \in Requests, WriteElem(r) \/ Trigger(r) \/ HandOver(r)
    PROVE  Inv'
<1>1. PICK place \in {"written", "triggered", "handed"} :
        /\ Move(r, place)
        /\ place = "handed" => HandOver(r)
        /\ place # "handed" => line' = line /\ (At(r, "queued") \/ At(r, "written")) /\ Serves(r)
  BY DEF WriteElem, Trigger, HandOver
<1>2. /\ request' \in [Requests -> RequestStates]
      /\ request'[r].at = place /\ request'[r].mode = request[r].mode
      /\ \A q \in Requests \ {r} : request'[q] = request[q]
  BY <1>1, MoveFacts DEF Places, Inv
<1>3. ~AtRest(r) /\ UNCHANGED <<shared, usage, refused>>
  BY DEF WriteElem, Trigger, HandOver, At, AtRest
<1>4. QueuesOK' /\ line' \in [Lines -> Seq(Requests)]
  <2>1. CASE place = "handed"
    BY <2>1, <1>1, JoinsQueues
  <2>2. CASE place # "handed"
    <3>1. \A q \in Requests : /\ AtRest(q)' <=> AtRest(q)
                              /\ LineOf(q)' = LineOf(q)
                              /\ At(q, "handed")' => At(q, "handed")
                              /\ At(q, "written")' \/ At(q, "triggered")' => Serves(q)
      BY <2>2, <1>1, <1>2, <1>3 DEF AtRest, LineOf, Line, IsSync, At, Inv, QueuesOK
    <3> QED
      BY <3>1, <2>2, <1>1, <1>3, QueuesFrame DEF Inv, TypeOK
  <2> QED
    BY <2>1, <2>2
<1>5. ModesOK' /\ IntactResultsMatch'
  <2>1. request[r].mode \in usage[NetworkOf[r]]
    BY <1>3 DEF Inv, ModesOK
  <2>2. place = "handed" => request[r].mode = "async"
    BY <1>1 DEF HandOver, IsSync, Inv, TypeOK
  <2> QED
    BY <2>1, <2>2, <1>2, <1>3, RequestFrame DEF At, OwnResult
<1>6. FifosOK'
  BY WriteFifos, TriggerFifos, HandOverFifos
<1>7. input' \in [Networks -> Seq(Requests \X Nat)] /\ triggers' \in [Networks -> Nat]
  <2>1. CASE WriteElem(r)
    <3> DEFINE S == Requests \X Nat
    <3>1. Input(r) \in S /\ input \in [Networks -> Seq(S)] /\ triggers \in [Networks -> Nat]
      BY DEF Input, Inv, TypeOK
    <3> HIDE DEF S
    <3>2. input' = [input EXCEPT ![NetworkOf[r]] = Append(input[NetworkOf[r]], Input(r))] /\ triggers' = triggers
      BY <2>1 DEF WriteElem
    <3>3. NetworkOf[r] \in Networks /\ input[NetworkOf[r]] \in Seq(S)
      BY <3>1, RequestsAssumption
    <3>4. Append(input[NetworkOf[r]], Input(r)) \in Seq(S)
      BY <3>1, <3>3, AppendProperties
    <3>5. input' \in [Networks -> Seq(S)]
      BY <3>1, <3>2, <3>3, <3>4
    <3> QED
      BY <3>1, <3>2, <3>5 DEF S
  <2>2. CASE Trigger(r)
    <3>1. triggers \in [Networks -> Nat] /\ input' = input /\ input \in [Networks -> Seq(Requests \X Nat)]
      BY <2>2 DEF Trigger, Inv, TypeOK
    <3>2. triggers' = [triggers EXCEPT ![NetworkOf[r]] = triggers[NetworkOf[r]] + 1] /\ NetworkOf[r] \in Networks
      BY <2>2, RequestsAssumption DEF Trigger
    <3>3. triggers' \in [Networks -> Nat]
      BY <3>1, <3>2
    <3> QED
      BY <3>1, <3>3
  <2>3. CASE HandOver(r)
    BY <2>3 DEF HandOver, fifos, Inv, TypeOK
  <2> QED
    BY <2>1, <2>2, <2>3
<1>8. UNCHANGED <<output, linkUp>>
  BY DEF WriteElem, Trigger, HandOver, fifos
<1>9. TypeOK'
  BY <1>2, <1>3, <1>4, <1>7, <1>8 DEF Inv, TypeOK
<1> QED
  BY <1>4, <1>5, <1>6, <1>9 DEF Inv

LEMMA GetResultInv ==
    ASSUME Inv, OneWayEach, NEW r \in Requests, GetResult(r)
    PROVE  Inv'
<1> DEFINE n == NetworkOf[r]
<1>1. /\ ~AtRest(r) /\ Serves(r) /\ Reads(r) /\ linkUp /\ output[n] # <<>> /\ n \in Networks
      /\ UNCHANGED <<shared, usage, input, triggers, refused, linkUp>> /\ Leaves(r)
  BY RequestsAssumption DEF GetResult, Reads, At, AtRest
<1>2. refused[n] = 0 => Head(output[n]) = Input(r)
  BY <1>1, ReadsOwn
<1>3. request \in [Requests -> RequestStates]
  BY DEF Inv, TypeOK
<1> DEFINE e == Head(output[n])
<1>4. PICK outcome \in {"done", "failed"} :
        request' = [request EXCEPT ![r] = [request[r] EXCEPT !.at = outcome, !.result = e]]
  BY DEF GetResult
<1>5. /\ AtRest(r)' /\ (refused[n] = 0 => (request[r].result = Input(r))')
      /\ \A q \in Requests \ {r} : request'[q] = request[q]
      /\ request' \in [Requests -> RequestStates]
  <2> DEFINE rec == [request[r] EXCEPT !.at = outcome, !.result = e]
  <2>1. e \in Requests \X Nat
    <3> DEFINE S == Requests \X Nat
    <3>1. output[n] \in Seq(S) /\ output[n] # <<>>
      BY <1>1 DEF Inv, TypeOK
    <3> HIDE DEF S
    <3> QED
      BY <3>1, HeadTailProperties DEF S
  <2>0. refused[n] = 0 => e = Input(r)
    BY <1>2
  <2> HIDE DEF e
  <2>2. /\ rec \in RequestStates
        /\ rec.at = outcome /\ rec.result = e /\ rec.starts = request[r].starts
    BY <2>1, <1>3, ZenonT(60) DEF Places
  <2> HIDE DEF rec
  <2>3. request' = [request EXCEPT ![r] = rec]
    BY <1>4 DEF rec
  <2>4. request'[r] = rec
    BY <2>3, <1>3
  <2> QED
    BY <2>0, <2>2, <2>3, <2>4, <1>3 DEF AtRest, Input
<1>6. QueuesOK' /\ line' \in [Lines -> Seq(Requests)]
  BY <1>1, <1>5, LeavesQueues
<1>7. ModesOK' /\ IntactResultsMatch'
  BY <1>1, <1>5, RequestFrame DEF OwnResult
<1>8. FifosOK'
  BY <1>5, GetFifos
<1>9. output' \in [Networks -> Seq(Requests \X Nat)]
  <2> DEFINE S == Requests \X Nat
  <2>1. output \in [Networks -> Seq(S)]
    BY DEF Inv, TypeOK
  <2> HIDE DEF S
  <2>2. Tail(output[n]) \in Seq(S)
    BY <1>1, <2>1
  <2>3. output' \in [Networks -> Seq(S)]
    BY <2>1, <2>2 DEF GetResult
  <2> QED
    BY <2>3 DEF S
<1>10. TypeOK'
  BY <1>1, <1>5, <1>6, <1>9 DEF Inv, TypeOK
<1> QED
  BY <1>6, <1>7, <1>8, <1>10 DEF Inv

\* A step that leaves the requests and their queues alone.
LEMMA DeviceInv ==
    ASSUME Inv, UNCHANGED <<shared, usage, request, line, refused>>,
           linkUp' \in BOOLEAN, FifosOK',
           input' \in [Networks -> Seq(Requests \X Nat)], triggers' \in [Networks -> Nat],
           output' \in [Networks -> Seq(Requests \X Nat)]
    PROVE  Inv'
<1>1. TypeOK'
  BY DEF Inv, TypeOK
<1>2. QueuesOK'
  <2>1. \A q \in Requests : /\ AtRest(q)' <=> AtRest(q)
                            /\ LineOf(q)' = LineOf(q)
                            /\ At(q, "handed")' => At(q, "handed")
                            /\ At(q, "written")' \/ At(q, "triggered")' => Serves(q)
    BY DEF AtRest, LineOf, Line, IsSync, At, Inv, QueuesOK
  <2> QED
    BY <2>1, QueuesFrame
<1>3. ModesOK' /\ IntactResultsMatch'
  BY DEF Inv, ModesOK, IntactResultsMatch, OwnResult, AtRest, At, IsSync, Input
<1> QED
  BY <1>1, <1>2, <1>3 DEF Inv

LEMMA NextInv == OneWayEach /\ Inv /\ [Next]_vars => Inv'
<1> SUFFICES ASSUME OneWayEach, Inv, [Next]_vars PROVE Inv'
  OBVIOUS
<1>1. ASSUME NEW r \in Requests, NEW mode \in {"async", "sync"}, Start(r, mode) PROVE Inv'
  BY <1>1, StartInv
<1>2. ASSUME NEW r \in Requests, Throws(r) PROVE Inv'
  BY <1>2, ThrowsInv
<1>3. ASSUME NEW r \in Requests, WriteElem(r) \/ Trigger(r) \/ HandOver(r) PROVE Inv'
  BY <1>3, MoveInv
<1>4. ASSUME NEW r \in Requests, GetResult(r) PROVE Inv'
  BY <1>4, GetResultInv
<1>5. ASSUME NEW r \in Requests, CallFails(r) PROVE Inv'
  BY <1>5, CallFailsInv
<1>6. ASSUME NEW n \in Networks, DeviceRuns(n) PROVE Inv'
  <2>1. UNCHANGED <<shared, usage, request, line, refused, linkUp>> /\ linkUp \in BOOLEAN
    BY <1>6 DEF DeviceRuns, Inv, TypeOK
  <2> QED
    BY <2>1, <1>6, DeviceFifos, DeviceInv
<1>7. CASE LinkDown
  <2>1. /\ UNCHANGED <<shared, usage, request, line, refused>> /\ linkUp' = FALSE
        /\ UNCHANGED <<input, triggers, output>>
    BY <1>7 DEF LinkDown, fifos
  <2>2. FifosOK'
    BY <2>1 DEF FifosOK
  <2> QED
    BY <2>1, <2>2, DeviceInv DEF Inv, TypeOK
<1>8. CASE UNCHANGED vars
  <2>1. UNCHANGED <<shared, usage, request, line, refused, linkUp, input, triggers, output>>
    BY <1>8 DEF vars, fifos
  <2>2. FifosOK'
    <3>1. \A n \in Networks : Pipe(n)' = Pipe(n) /\ refused'[n] = refused[n]
      BY <2>1 DEF Pipe
    <3>2. \A q \in Requests : Input(q)' = Input(q) /\ (IsInFlight(q)' <=> IsInFlight(q))
      BY <2>1 DEF Input, IsInFlight
    <3>3. \A n \in Networks : \A q, s \in InFlight(n) : ReadsBefore(q, s) => ReadsBefore(q, s)'
      BY <2>1 DEF ReadsBefore, At, Line
    <3>4. \A n \in Networks : TriggersOK(n) => TriggersOK(n)'
      BY <2>1 DEF TriggersOK, At
    <3>5. ASSUME linkUp, NEW n \in Networks PROVE ElementsOK(n)' /\ TriggersOK(n)'
      BY <3>1, <3>2, <3>3, <3>4, <3>5, PipeFrame DEF Inv, FifosOK
    <3> QED
      BY <2>1, <3>5 DEF FifosOK
  <2> QED
    BY <2>1, <2>2, DeviceInv DEF Inv, TypeOK
<1>9. ASSUME NEW r \in Requests, TriggerRefused(r) PROVE Inv'
  BY <1>9, RefusedInv
<1> QED
  BY <1>1, <1>2, <1>3, <1>4, <1>5, <1>6, <1>7, <1>8, <1>9 DEF Next, Progress

LEMMA SpecInv == ASSUME OneWayEach PROVE Spec => []Inv
<1>1. OneWayEach
  OBVIOUS
<1> QED
  BY <1>1, InitInv, NextInv, PTL DEF Spec

(* The types of all variables, when the clients of a network agree on how  *)
(* they infer; the device never takes an input from an empty FIFO.         *)
THEOREM RequestsTypeCorrect == ASSUME OneWayEach PROVE Spec => []TypeOK
<1>1. Inv => TypeOK
  BY DEF Inv
<1> QED
  BY <1>1, SpecInv, PTL

(* A request gets the output of its own input, for every number of         *)
(* networks, requests and elements of the FIFOs, every sharing of the      *)
(* executors, and whatever fails, until a trigger of its network is        *)
(* refused.                                                                *)
THEOREM ResultsAreOfTheInput == ASSUME OneWayEach PROVE Spec => []IntactResultsMatch
<1>1. Inv => IntactResultsMatch
  BY DEF Inv
<1> QED
  BY <1>1, SpecInv, PTL

(* While the device answers, its FIFOs hold one element for each inference *)
(* in flight and for each refused trigger; without refused triggers, the   *)
(* inferences in flight, in the order in which they will be read.          *)
THEOREM FifosHoldInferencesInOrder == ASSUME OneWayEach PROVE Spec => []FifosFollowLines
<1>1. Inv => FifosFollowLines
  <2> SUFFICES ASSUME Inv, linkUp, NEW n \in Networks
               PROVE  /\ triggers[n] + refused[n] <= Len(input[n])
                      /\ Len(Pipe(n)) = Cardinality(InFlight(n)) + refused[n]
                      /\ refused[n] = 0 =>
                          /\ {Pipe(n)[i] : i \in 1..Len(Pipe(n))} = {Input(r) : r \in InFlight(n)}
                          /\ \A i, j \in 1..Len(Pipe(n)) : \A q, r \in InFlight(n) :
                                i < j /\ Pipe(n)[i] = Input(q) /\ Pipe(n)[j] = Input(r) => ReadsBefore(q, r)
    BY DEF FifosFollowLines
  <2>1. ElementsOK(n) /\ TriggersOK(n)
    BY DEF Inv, FifosOK
  <2>2. ASSUME PipeOK(n)
        PROVE  {Pipe(n)[i] : i \in 1..Len(Pipe(n))} = {Input(r) : r \in InFlight(n)}
    BY <2>2 DEF PipeOK, InFlight, IsInFlight
  <2> QED
    BY <2>1, <2>2 DEF ElementsOK, LevelOK, PipeOK, TriggersOK
<1> QED
  BY <1>1, SpecInv, PTL
=============================================================================
