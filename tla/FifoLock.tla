------------------------------ MODULE FifoLock ------------------------------
(***************************************************************************)
(* What a TaskSynchronizer promises to its callers: a lock that serves its *)
(* callers one at a time, in the order in which they joined the line, and  *)
(* that refuses a caller while `Capacity` others are in the line.          *)
(***************************************************************************)
EXTENDS Naturals, Sequences

CONSTANTS Threads,   \* the callers
          Capacity   \* the longest line, at least 1

VARIABLES line,      \* the callers in the line, the one in service first
          serving    \* the head of the line is inside the critical section

lockVars == <<line, serving>>

InLine(t) == \E i \in 1..Len(line) : line[i] = t

Init == line = <<>> /\ serving = FALSE

Join(t) == /\ ~InLine(t)
           /\ Len(line) < Capacity
           /\ line' = Append(line, t)
           /\ UNCHANGED serving

Enter == /\ line # <<>>
         /\ ~serving
         /\ serving' = TRUE
         /\ UNCHANGED line

Leave == /\ serving
         /\ serving' = FALSE
         /\ line' = Tail(line)

Next == Enter \/ Leave \/ \E t \in Threads : Join(t)

\* Somebody in the line is always served, and the one in service leaves.
Spec == Init /\ [][Next]_lockVars /\ WF_lockVars(Enter) /\ WF_lockVars(Leave)
=============================================================================
