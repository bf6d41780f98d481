------------------------------ MODULE TaskQueue ------------------------------
(***************************************************************************)
(* What a task executor promises: every task it accepts is executed once;  *)
(* tasks begin in the order of acceptance, and at most MaxActive of them   *)
(* execute at a time; a task that is waiting or executing is not accepted  *)
(* again; and the executor closes only when it has executed all it         *)
(* accepted.  MaxActive is 1 for TaskExecutor and the number of streams    *)
(* for MultiWorkerTaskExecutor.                                            *)
(***************************************************************************)
EXTENDS Naturals, Sequences, FiniteSets

CONSTANTS Tasks, MaxActive

VARIABLES todo,      \* tasks accepted and not begun, in order
          active,    \* the tasks that are executing
          closed     \* the executor no longer exists

queueVars == <<todo, active, closed>>

Waiting(k) == \E i \in 1..Len(todo) : todo[i] = k

Init == todo = <<>> /\ active = {} /\ closed = FALSE

Accept(k) == /\ ~closed
             /\ ~Waiting(k)
             /\ k \notin active
             /\ todo' = Append(todo, k)
             /\ UNCHANGED <<active, closed>>

Begin == /\ Cardinality(active) < MaxActive
         /\ todo # <<>>
         /\ active' = active \cup {Head(todo)}
         /\ todo' = Tail(todo)
         /\ UNCHANGED closed

Finish(k) == /\ k \in active
             /\ active' = active \ {k}
             /\ UNCHANGED <<todo, closed>>

Close == /\ ~closed
         /\ todo = <<>>
         /\ active = {}
         /\ closed' = TRUE
         /\ UNCHANGED <<todo, active>>

Next == Begin \/ Close \/ \E k \in Tasks : Accept(k) \/ Finish(k)

\* What is accepted is begun, and what is begun finishes.
Spec == Init /\ [][Next]_queueVars /\ WF_queueVars(Begin)
             /\ \A k \in Tasks : WF_queueVars(Finish(k))
=============================================================================
