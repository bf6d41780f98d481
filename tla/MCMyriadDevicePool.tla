------------------------- MODULE MCMyriadDevicePool -------------------------
(* TLC instance of MyriadDevicePool: three sticks of two platforms, that   *)
(* hold one, two and one graph, and networks with and without wishes.      *)
EXTENDS MyriadDevicePool, TLC

Sticks    == {"s1", "s2", "s3"}
TwoKinds  == [s1 |-> "ma2450", s2 |-> "ma2480", s3 |-> "ma2480"]
Capacity  == [s1 |-> 1, s2 |-> 2, s3 |-> 1]
Wishes    == {[name |-> "any", platform |-> "any"], [name |-> "any", platform |-> "ma2480"],
              [name |-> "s2", platform |-> "any"]}

Symmetry == Permutations(ExecutableNetworks)
=============================================================================
