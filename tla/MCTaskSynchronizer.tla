------------------------- MODULE MCTaskSynchronizer -------------------------
(* TLC instance of TaskSynchronizer: more threads than places in the queue *)
(* and a ticket counter that wraps.                                        *)
EXTENDS TaskSynchronizer
=============================================================================
