----------------------- MODULE MCMyriadInferRequests -----------------------
(* TLC instance of MyriadInferRequests: a network with three requests,     *)
(* more than a FIFO holds, and one with one.                               *)
EXTENDS MyriadInferRequests

Owner == [a1 |-> "a", a2 |-> "a", a3 |-> "a", b1 |-> "b"]

One == [a1 |-> "a", a2 |-> "a"]

Unshared   == {{}}
AnySharing == {{}, {"result"}, {"infer", "result"}}

\* The clients of a network all use StartAsync(), or all Infer() ...
OneWay == {[a |-> {"async"}, b |-> {"async"}], [a |-> {"sync"}, b |-> {"async"}]}

\* ... or either of them.
Mixed == {[n \in Networks |-> {"async", "sync"}]}
=============================================================================
