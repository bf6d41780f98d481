------------------------ MODULE MCHeteroInferRequest ------------------------
(* TLC instances of HeteroInferRequest.                                    *)
EXTENDS HeteroInferRequest

\* Subgraphs in a row: "in" goes to the first, "mid" through all, "out" comes
\* from the last.
Rows == {[in  |-> [from |-> 0, to |-> {1}, output |-> FALSE],
          mid |-> [from |-> 1, to |-> 2..Length, output |-> FALSE],
          out |-> [from |-> Length, to |-> {}, output |-> TRUE]]}

\* Ways to use a request that the code serves correctly.
SoundUsages == {
    \* the callback starts the request again; blobs are set between the starts
    {"callback", "restart", "set"},
    \* failures and timeouts, with and without waiting
    {"wait", "poll", "fail"},
    \* Infer() and StartAsync(), preprocessing
    {"callback", "wait", "infer"},
    {"infer", "set", "roi"}}

\* A sub-request fails and nobody waits for the result.
FailingUsages == {{"callback", "fail"}}
=============================================================================
