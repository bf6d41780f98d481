-------------------------- MODULE SubRequestChain ---------------------------
(***************************************************************************)
(* What a HETERO request promises about its sub-requests: the inferences   *)
(* that it accepts are made one after the other, and each of them passes   *)
(* the sub-requests in their order, up to the first one that fails.        *)
(***************************************************************************)
EXTENDS Naturals

CONSTANTS Length,     \* the number of sub-requests
          MaxRounds   \* BOUND: inferences accepted

VARIABLES round,      \* the inferences accepted
          passed,     \* the sub-requests that have inferred in this round
          broken      \* a sub-request of this round has failed

chainVars == <<round, passed, broken>>

Init == round = 0 /\ passed = Length /\ broken = FALSE

\* A round begins when the previous one is over.
Accept == /\ passed = Length \/ broken
          /\ round < MaxRounds
          /\ round' = round + 1
          /\ passed' = 0
          /\ broken' = FALSE

SubRequestInfers == /\ passed < Length /\ ~broken
                    /\ passed' = passed + 1
                    /\ UNCHANGED <<round, broken>>

SubRequestFails == /\ passed < Length /\ ~broken
                   /\ broken' = TRUE
                   /\ UNCHANGED <<round, passed>>

Next == Accept \/ SubRequestInfers \/ SubRequestFails

Spec == Init /\ [][Next]_chainVars
=============================================================================
