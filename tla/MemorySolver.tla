---------------------------- MODULE MemorySolver ----------------------------
(***************************************************************************)
(* The memory solver of the CPU plugin, which places all tensors of a      *)
(* graph in one blob:                                                      *)
(*   mkldnn_plugin/mkldnn_memory_solver.{hpp,cpp}                          *)
(*                                                                         *)
(* A box is a tensor with the time in which it is alive.  The constructor  *)
(* renumbers the times so that each one starts a box, maxTopDepth()        *)
(* measures how much is alive at once, and solve() places the boxes, the   *)
(* biggest first, lifting each until it meets no other box of its slots.   *)
(*                                                                         *)
(* One step is a turn of a loop.  std::sort leaves the order of equal      *)
(* elements open, so any of them may come next; and a box is lifted over   *)
(* any box that it meets, whatever the order of the slots.                 *)
(***************************************************************************)
EXTENDS Integers, FiniteSets, FiniteSetsExt

CONSTANTS
    Boxes,  \* the identifiers of the boxes
    Inputs, \* the boxes that the solver is given
    None

ToEnd == -1

ASSUME SolverAssumption ==
    /\ Boxes # {} /\ IsFiniteSet(Boxes)
    /\ None \notin Boxes
    /\ Inputs \subseteq [Boxes -> [start : Nat, finish : Nat \cup {ToEnd}, size : Nat \ {0}]]
    /\ \A in \in Inputs, b \in Boxes : in[b].finish = ToEnd \/ in[b].start <= in[b].finish

VARIABLES
    box,      \* the boxes, with their finish
    phase,    \* the loop that is running
    left,     \* the boxes that the loop has not seen
    ts,       \* the two cursors of the constructor, and what they have skipped
    slot,     \* the renumbered times
    depth,    \* what calcDepth() counts
    placing,  \* the box that solve() is lifting ...
    id,       \* ... and how far
    offset,   \* the places found
    required  \* _min_required

vars == <<box, phase, left, ts, slot, depth, placing, id, offset, required>>

Times(in) == {0} \cup {in[b].start : b \in Boxes} \cup {in[b].finish : b \in Boxes}

Init ==
    /\ \E in \in Inputs : \E max_ts \in Times(in) :
          /\ \A t \in Times(in) : t <= max_ts
          /\ box = [b \in Boxes |-> [in[b] EXCEPT !.finish = IF @ = ToEnd THEN max_ts ELSE @]]
    /\ phase = "compress"
    /\ left = Boxes
    /\ ts = [s |-> 0, rm_s |-> 0, f |-> 0, rm_f |-> 0]
    /\ slot = [b \in Boxes |-> [start |-> 0, finish |-> 0]]
    /\ depth = [held |-> {}, size |-> 0, top |-> 0, maxSize |-> -1, maxTop |-> -1]
    /\ placing = None
    /\ id = 0
    /\ offset = [b \in Boxes |-> 0]
    /\ required = 0

\* The loop has seen b: it goes on, or the next one begins.
Turn(b, next) == IF left = {b} THEN left' = Boxes /\ phase' = next
                               ELSE left' = left \ {b} /\ UNCHANGED phase

IsNextByTime(b) ==
    /\ b \in left
    /\ \A c \in left : \/ box[b].start < box[c].start
                       \/ box[b].start = box[c].start /\ box[b].finish <= box[c].finish

-----------------------------------------------------------------------------
(* MemorySolver()                                                          *)

Larger(a, b) == IF a < b THEN b ELSE a

\* The timestamps of an interval that start no box.
Unused(from, to) == {t \in from..to : \A c \in Boxes : box[c].start # t}

\* MUTANT: the cursor of the ends is never set back.
NeverBack(t, finish) == [f |-> t.f, rm_f |-> t.rm_f]

\* A box may end before the one before it: then its end is counted from its start.
SetBack(t, finish) == IF t.f > finish + 1 THEN [f |-> t.s, rm_f |-> t.rm_s]
                                          ELSE [f |-> t.f, rm_f |-> t.rm_f]

\* Both cursors move on to a box.
Starts(b) == [ts EXCEPT !.s = Larger(@, box[b].start),
                        !.rm_s = @ + Cardinality(Unused(ts.s, box[b].start - 1))]

Ends(b) ==
    LET from == SetBack(Starts(b), box[b].finish)
    IN  [Starts(b) EXCEPT !.f = Larger(from.f, box[b].finish + 1),
                          !.rm_f = from.rm_f + Cardinality(Unused(from.f, box[b].finish))]

Compress(b) ==
    /\ phase = "compress" /\ IsNextByTime(b)
    /\ ts' = Ends(b)
    /\ slot' = [slot EXCEPT ![b] = [start  |-> box[b].start - ts'.rm_s,
                                    finish |-> box[b].finish - ts'.rm_f]]
    /\ Turn(b, "depth")
    /\ UNCHANGED <<box, depth, placing, id, offset, required>>

_time_duration == ts.f - ts.rm_f

-----------------------------------------------------------------------------
(* calcDepth()                                                             *)

Sum(bs) == MapThenSumSet(LAMBDA c : box[c].size, bs)

\* MUTANT: a box is released when it is used last.
ReleasedAtFinish(held, time) == {c \in held : slot[c].finish = time}

Released(held, time) == {c \in held : slot[c].finish + 1 = time}

CalcDepth(b) ==
    LET held     == depth.held \cup {b}
        released == Released(held, slot[b].start)
        size     == depth.size + box[b].size - Sum(released)
        top      == depth.top + 1 - Cardinality(released)
    IN
    /\ phase = "depth" /\ IsNextByTime(b)
    /\ depth' = [held |-> held \ released, size |-> size, top |-> top,
                 maxSize |-> Larger(depth.maxSize, size), maxTop |-> Larger(depth.maxTop, top)]
    /\ Turn(b, "place")
    /\ UNCHANGED <<box, ts, slot, placing, id, offset, required>>

-----------------------------------------------------------------------------
(* solve()                                                                 *)

\* MUTANT: only the first slot of a box is looked at.
FirstSlot(b) == {slot[b].start}

SlotsOf(b) == slot[b].start .. slot[b].finish

\* The boxes that have been put into a slot of b.
InSlots(b) == {c \in Boxes \ left : SlotsOf(c) \cap SlotsOf(b) # {}}

\* MUTANT: boxes that touch are taken for boxes that meet.
Touch(i, b, c) == i + box[b].size >= offset[c] /\ offset[c] + box[c].size >= i

\* b at i and c have memory in common.
Meet(i, b, c) == i + box[b].size > offset[c] /\ offset[c] + box[c].size > i

\* MUTANT: a box starts from the top of the blob.
FromTop == required

FromBottom == 0

Pick(b) ==
    /\ phase = "place" /\ placing = None
    /\ b \in left /\ \A c \in left : box[b].size >= box[c].size
    /\ placing' = b
    /\ id' = FromBottom
    /\ UNCHANGED <<box, phase, left, ts, slot, depth, offset, required>>

\* popupTogetherWith()
PopUp == /\ placing # None
         /\ \E c \in InSlots(placing) :
               Meet(id, placing, c) /\ id' = offset[c] + box[c].size
         /\ UNCHANGED <<box, phase, left, ts, slot, depth, placing, offset, required>>

HighestTop(top) == Larger(required, top)

Store == /\ placing # None
         /\ \A c \in InSlots(placing) : ~Meet(id, placing, c)
         /\ offset' = [offset EXCEPT ![placing] = id]
         /\ required' = HighestTop(id + box[placing].size)
         /\ left' = left \ {placing}
         /\ phase' = IF left' = {} THEN "done" ELSE phase
         /\ placing' = None
         /\ UNCHANGED <<box, ts, slot, depth, id>>

Next == \/ \E b \in Boxes : Compress(b) \/ CalcDepth(b) \/ Pick(b)
        \/ PopUp
        \/ Store

Spec == Init /\ [][Next]_vars /\ WF_vars(Next)

-----------------------------------------------------------------------------
\* The numbers of calcDepth() are left to DepthIsExact.
TypeOK ==
    /\ box \in [Boxes -> [start : Nat, finish : Nat, size : Nat \ {0}]]
    /\ phase \in {"compress", "depth", "place", "done"}
    /\ left \subseteq Boxes
    /\ ts \in [s : Nat, rm_s : Nat, f : Nat, rm_f : Nat]
    /\ slot \in [Boxes -> [start : Nat, finish : Nat]]
    /\ placing \in Boxes \cup {None}
    /\ id \in Nat
    /\ offset \in [Boxes -> Nat]
    /\ required \in Nat

Placed == IF phase = "place" THEN Boxes \ left ELSE IF phase = "done" THEN Boxes ELSE {}

(* solve() makes _time_duration slots and indexes them with the renumbered *)
(* times, unchecked: they are inside, although _time_duration comes from   *)
(* the box that happens to be the last.                                    *)
SlotsExist == phase # "compress" =>
                 \A b \in Boxes : SlotsOf(b) # {} /\ SlotsOf(b) \subseteq 0.._time_duration - 1

AliveTogether(b, c) == box[b].start <= box[c].finish /\ box[c].start <= box[b].finish

(* "Boxes which has an ExecOrder-axis intersection should have no Mem-axis *)
(* intersections": two tensors that are alive at one time, before the      *)
(* renumbering, never share memory.                                        *)
BoxesDoNotOverlap ==
    \A b, c \in Placed : b # c /\ AliveTogether(b, c) =>
        \/ offset[b] + box[b].size <= offset[c]
        \/ offset[c] + box[c].size <= offset[b]

\* The blob that solve() asks for ends where the highest box ends.
BlobHoldsAll == phase = "done" => /\ \A b \in Boxes : offset[b] + box[b].size <= required
                                  /\ \E b \in Boxes : offset[b] + box[b].size = required

AliveAt(t) == {b \in Boxes : box[b].start <= t /\ t <= box[b].finish}

(* maxDepth() and maxTopDepth() are the most memory, and the most boxes,   *)
(* that are alive at one time; the count never falls to zero at a box, as  *)
(* calcDepth() asserts.                                                    *)
DepthIsExact ==
    /\ depth.maxTop # -1 => depth.top > 0
    /\ phase \in {"place", "done"} =>
          LET starts == {box[b].start : b \in Boxes} IN
          /\ depth.maxSize = Max({Sum(AliveAt(t)) : t \in starts})
          /\ depth.maxTop = Max({Cardinality(AliveAt(t)) : t \in starts})

\* A box is stored in the lowest place that the boxes before it leave free.
LowestPlace ==
    [][\A b \in Boxes : placing = b /\ placing' = None =>
          \A i \in 0..offset'[b] - 1 : \E c \in InSlots(b) : Meet(i, b, c)]_vars

\* The do-while loop that lifts a box ends, and so does solve().
SolveReturns == <>(phase = "done")
=============================================================================
