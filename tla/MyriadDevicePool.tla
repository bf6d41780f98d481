-------------------------- MODULE MyriadDevicePool --------------------------
(***************************************************************************)
(* The sticks of the MYRIAD plugin and the networks loaded on them:        *)
(*   vpu/myriad_plugin/myriad_executor.{h,cpp}                             *)
(*   vpu/myriad_plugin/myriad_executable_network.{h,cpp}                   *)
(*                                                                         *)
(* A network that is loaded gets a device of the pool: an empty one, or a  *)
(* stick that is booted for it, or one that it shares, or, when it asks    *)
(* for a platform that is not there, a mock device without a handle.  Then *)
(* it is compiled, and its graph and FIFOs are allocated on the device     *)
(* with no lock held.  Each of these may throw; the constructor delegates  *)
(* to the one that opened the device, so the destructor runs and gives     *)
(* the place back.                                                         *)
(*                                                                         *)
(* A step of openDevice(), deallocateGraph() or closeDevices() is a whole  *)
(* critical section of device_mutex.  The order of the pool is left out:   *)
(* where the code takes the first device that fits, any one is taken.      *)
(***************************************************************************)
EXTENDS Integers, FiniteSets

CONSTANTS
    ExecutableNetworks, \* the networks that are loaded, each at most once
    Devices,            \* the sticks
    PlatformOf,         \* the platform of each stick; protocols are left out
    MaxGraphNum,        \* NC_RO_DEVICE_MAX_GRAPH_NUM of each stick
    Configs,            \* the configurations that networks are loaded with
    Unset,              \* no device name, or no platform, is asked for
    Mock                \* the device without a handle

Platforms == {PlatformOf[d] : d \in Devices}

ASSUME PoolAssumption ==
    /\ IsFiniteSet(ExecutableNetworks)
    /\ MaxGraphNum \in [Devices -> Nat \ {0}]
    /\ Configs \subseteq [name : Devices \cup {Unset}, platform : Platforms \cup {Unset}]
    /\ Unset \notin Devices \cup Platforms
    /\ Mock \notin Devices \cup {Unset}

VARIABLES
    booted,   \* the devices of the pool whose _deviceHandle is not null
    graphNum, \* _graphNum of each stick
    closed,   \* the plugin is unloaded
    network,  \* how far each network is, and its _device
    graphs,   \* the networks whose graph is on a stick
    config,   \* what each network is loaded with
    requests  \* the networks that have an infer request

poolVars == <<booted, graphNum, closed, network, graphs, config, requests>>

PoolInit == /\ booted = {}
            /\ graphNum = [d \in Devices |-> 0]
            /\ closed = FALSE
            /\ network = [n \in ExecutableNetworks |-> [at |-> "none", on |-> Unset]]
            /\ graphs = {}
            /\ config \in [ExecutableNetworks -> Configs]
            /\ requests = {}

IsAt(n, place) == network[n].at = place

IsNamed(n) == config[n].name # Unset

Fits(n, d) == /\ config[n].name \in {Unset, d}
              /\ config[n].platform \in {Unset, PlatformOf[d]}

\* isBooted() && isSuitableForConfig(config), and those isEmpty() / isNotFull().
Suitable(n) == {d \in booted : Fits(n, d)}
Empty(n)    == {d \in Suitable(n) : graphNum[d] = 0}

\* MUTANT: a device may take one graph too many.
NotOverfull(n) == {d \in Suitable(n) : graphNum[d] <= MaxGraphNum[d]}

NotFull(n) == {d \in Suitable(n) : graphNum[d] < MaxGraphNum[d]}

-----------------------------------------------------------------------------
(* openDevice()                                                            *)

\* A place on a device, with `_graphNum = 1` or `_graphNum++`.
Place(n, d) == /\ graphNum' = [graphNum EXCEPT ![d] = @ + 1]
               /\ network' = [network EXCEPT ![n] = [at |-> "opened", on |-> d]]
               /\ UNCHANGED <<closed, graphs, config, requests>>

\* The constructor that opens the device throws: there is nothing to undo.
OpenThrows(n) == /\ network' = [network EXCEPT ![n].at = "gone"]
                 /\ UNCHANGED <<booted, graphNum, closed, graphs, config, requests>>

OpenEmpty(n) == \E d \in Empty(n) : Place(n, d) /\ UNCHANGED booted

\* The device asked for by name is booted: it is that one or none.
OpenNamed(n) ==
    /\ Empty(n) = {} /\ IsNamed(n) /\ Suitable(n) # {}
    /\ IF NotFull(n) = {} THEN OpenThrows(n)
                          ELSE \E d \in NotFull(n) : Place(n, d) /\ UNCHANGED booted

MustBoot(n) == Empty(n) = {} /\ ~(IsNamed(n) /\ Suitable(n) # {})

\* bootNextDevice() boots a stick that is not booted yet, ...
OpenBoots(n) ==
    /\ MustBoot(n)
    /\ \E d \in Devices \ booted :
          Fits(n, d) /\ booted' = booted \cup {d} /\ Place(n, d)

\* ... throws when the named device is not there or has another platform, ...
BootThrows(n) == MustBoot(n) /\ IsNamed(n) /\ OpenThrows(n)

\* ... or fails: then the device with the fewest graphs is shared, ...
LeastLoaded(n) == {d \in NotFull(n) : \A e \in NotFull(n) : graphNum[d] <= graphNum[e]}

OpenShares(n) ==
    /\ MustBoot(n)
    /\ \E d \in LeastLoaded(n) : Place(n, d) /\ UNCHANGED booted

\* ... and without one the network gets a mock device, or an exception.
OpenNothing(n) ==
    /\ MustBoot(n) /\ NotFull(n) = {}
    /\ IF config[n].platform = Unset
         THEN OpenThrows(n)
         ELSE /\ network' = [network EXCEPT ![n] = [at |-> "opened", on |-> Mock]]
              /\ UNCHANGED <<booted, graphNum, closed, graphs, config, requests>>

OpenDevice(n) ==
    /\ IsAt(n, "none") /\ ~closed
    /\ \/ OpenEmpty(n)
       \/ OpenNamed(n)
       \/ OpenBoots(n)
       \/ BootThrows(n)
       \/ OpenShares(n)
       \/ OpenNothing(n)

-----------------------------------------------------------------------------
(* The rest of the constructor, requests, and the destructor               *)

IsBooted(n) == network[n].on \in booted

\* allocateGraph(); the constructor returns before it for a mock device.
Load(n) ==
    /\ IsAt(n, "opened")
    /\ graphs' = IF IsBooted(n) THEN graphs \cup {n} ELSE graphs
    /\ network' = [network EXCEPT ![n].at = "loaded"]
    /\ UNCHANGED <<booted, graphNum, closed, config, requests>>

\* The compiler throws, or one of the calls of allocateGraph(), with the
\* graph on the device or not.
LoadThrows(n) ==
    /\ IsAt(n, "opened")
    /\ \/ UNCHANGED graphs
       \/ IsBooted(n) /\ graphs' = graphs \cup {n}
    /\ network' = [network EXCEPT ![n].at = "unwinding"]
    /\ UNCHANGED <<booted, graphNum, closed, config, requests>>

Infers(n) == IsBooted(n)

CreateInferRequest(n) ==
    /\ IsAt(n, "loaded")
    /\ Infers(n)
    /\ requests' = requests \cup {n}
    /\ UNCHANGED <<booted, graphNum, closed, network, graphs, config>>

\* The requests of a network hold it, so they end before it does.
ReleaseRequest(n) ==
    /\ n \in requests
    /\ requests' = requests \ {n}
    /\ UNCHANGED <<booted, graphNum, closed, network, graphs, config>>

\* MUTANT: the place is given back when the network was loaded, only.
DecrementIfLoaded(n) == IsBooted(n) /\ IsAt(n, "loaded")

Decrements(n) == IsBooted(n)

\* The user gives up the network, or the constructor has thrown.
Ends(n) == IsAt(n, "unwinding") \/ (IsAt(n, "loaded") /\ n \notin requests)

\* deallocateGraph(), called by the destructor.
DeallocateGraph(n) ==
    /\ Ends(n)
    /\ graphs' = graphs \ {n}
    /\ graphNum' = IF Decrements(n) THEN [graphNum EXCEPT ![network[n].on] = @ - 1]
                                    ELSE graphNum
    /\ network' = [network EXCEPT ![n].at = "gone"]
    /\ UNCHANGED <<booted, closed, config, requests>>

\* ~Engine(), which may come before the destructors of the networks, not
\* while one is loaded.  A stick that is closed holds no graph.
CloseDevices ==
    /\ ~closed
    /\ \A n \in ExecutableNetworks : ~IsAt(n, "opened") /\ ~IsAt(n, "unwinding")
    /\ closed' = TRUE
    /\ booted' = {}
    /\ graphs' = {}
    /\ UNCHANGED <<graphNum, network, config, requests>>

PoolNext == \/ \E n \in ExecutableNetworks : \/ OpenDevice(n)
                                               \/ Load(n)
                                               \/ LoadThrows(n)
                                               \/ CreateInferRequest(n)
                                               \/ ReleaseRequest(n)
                                               \/ DeallocateGraph(n)
            \/ CloseDevices

PoolSpec == PoolInit /\ [][PoolNext]_poolVars

-----------------------------------------------------------------------------
PoolTypeOK ==
    /\ booted \subseteq Devices
    /\ graphNum \in [Devices -> Nat]
    /\ closed \in BOOLEAN
    /\ network \in [ExecutableNetworks ->
                       [at : {"none", "opened", "loaded", "unwinding", "gone"},
                        on : Devices \cup {Unset, Mock}]]
    /\ graphs \subseteq ExecutableNetworks
    /\ config \in [ExecutableNetworks -> Configs]
    /\ requests \subseteq ExecutableNetworks

\* The networks that hold a place on a device.
Holders(d) == {n \in ExecutableNetworks :
                  /\ network[n].on = d
                  /\ network[n].at \in {"opened", "loaded", "unwinding"}}

(* openDevice() relies on _graphNum: it is the number of networks that are *)
(* on the device, those that are still loaded or whose load has thrown     *)
(* included.  A count too low overfills the stick, one too high loses a    *)
(* place for ever.                                                         *)
CountsAreExact == \A d \in booted : graphNum[d] = Cardinality(Holders(d))

(* A stick never holds more graphs than it can, however loads, failures    *)
(* and releases of several networks interleave.                            *)
GraphsFit == \A d \in booted :
                Cardinality({n \in graphs : network[n].on = d}) <= MaxGraphNum[d]

(* A network with an infer request has its graph on its device, until the  *)
(* plugin is unloaded: the mock device serves no request.                  *)
RequestsHaveGraph == closed \/ requests \subseteq graphs

(* A network shares a device, when it does not ask for it by name, only    *)
(* if no suitable stick of the pool stands empty.                          *)
SharesOnlyIfNoneEmpty ==
    [][\A n \in ExecutableNetworks, d \in Devices :
          /\ network[n].on # d /\ network'[n].on = d
          /\ ~IsNamed(n)
          /\ Holders(d) # {}
          => \A e \in Suitable(n) : Holders(e) # {}]_poolVars
=============================================================================
