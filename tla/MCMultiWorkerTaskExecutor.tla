---------------------- MODULE MCMultiWorkerTaskExecutor ----------------------
(* TLC instance of MultiWorkerTaskExecutor: three streams, so that a       *)
(* notification can reach the wrong sleeper while another stream works.    *)
EXTENDS MultiWorkerTaskExecutor
=============================================================================
