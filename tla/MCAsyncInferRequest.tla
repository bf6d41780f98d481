------------------------ MODULE MCAsyncInferRequest -------------------------
(* TLC instances of AsyncInferRequest.  Each .cfg chooses what the clients *)
(* and the callback do.                                                    *)
EXTENDS AsyncInferRequest

\* Ways to use a request that the runtime serves correctly.
SoundUsages == {
    \* several impatient clients and a callback that starts the request again
    {"shared", "callback", "restart", "impatient", "sync", "full"},
    \* no callback, one impatient client, failing inferences
    {"impatient", "sync", "fail"},
    {"impatient", "plugin", "fail"},
    \* the CPU and GPU plugins, a client that waits for the result
    {"callback", "wait", "plugin"},
    \* failing inferences and timeouts, with a client that starts again only
    \* when it has the result
    {"callback", "fail", "wait", "sync", "timed"},
    {"fail", "sync", "timed"}}

\* A client starts again after a timeout.
TimedUsages == {{"timed", "sync", "impatient"}}
=============================================================================
