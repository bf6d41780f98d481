--------------------------- MODULE MCTaskExecutor ---------------------------
(* TLC instance of TaskExecutor: two tasks that two clients       *)
(* start, restart and wait for, with a destructor at any moment.           *)
EXTENDS TaskExecutor
=============================================================================
