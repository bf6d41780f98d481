--------------------------- MODULE MCMemorySolver ---------------------------
(* TLC instance of MemorySolver: every four boxes of two sizes in four     *)
(* time steps, each multiset of boxes once, since names do not matter.     *)
EXTENDS MemorySolver

CONSTANTS MaxTime, MaxSize

Shapes == {s \in [start : 0..MaxTime, finish : -1..MaxTime, size : 1..MaxSize] :
             s.finish = ToEnd \/ s.start <= s.finish}

Rank(s) == (s.start * (MaxTime + 2) + s.finish + 1) * (MaxSize + 1) + s.size

Multisets == {in \in [Boxes -> Shapes] :
                \A b, c \in Boxes : b < c => Rank(in[b]) <= Rank(in[c])}
=============================================================================
