------------------------- MODULE MemorySolverProofs -------------------------
(***************************************************************************)
(* Proofs about MemorySolver for every set of boxes: the slots that        *)
(* solve() indexes exist, boxes that are alive together get disjoint       *)
(* memory in the blob, and each gets the lowest place that is free.        *)
(*                                                                         *)
(* The argument: the cursors of the constructor know how many timestamps   *)
(* below them start no box, wherever they have jumped.  So the renumbering *)
(* keeps which boxes meet in time, and a box that meets none in its slots  *)
(* meets none that is alive with it.                                       *)
(*                                                                         *)
(* The depth that calcDepth() reports is a sum over the boxes alive.  What *)
(* a sum over a set is, is proved by looking at a smallest set for which   *)
(* it would not be so.  That the loops end is proved as far as it is a     *)
(* matter of steps: each goes forward, and there is one until the end.     *)
(***************************************************************************)
EXTENDS MemorySolver, FiniteSetTheorems, TLAPS

\* The timestamps before t that start no box.
Skipped(t) == Cardinality(Unused(0, t - 1))

BoxesLive == \A b \in Boxes : box[b].start <= box[b].finish

Seen == IF phase = "compress" THEN Boxes \ left ELSE Boxes

CursorsExact == ts.rm_s = Skipped(ts.s) /\ ts.rm_f = Skipped(ts.f)

\* The boxes are seen in the order of their starts, and the cursor of the
\* ends is beyond all starts seen.
InOrder == /\ phase = "compress" => /\ \A b \in left : ts.s <= box[b].start
                                    /\ \A b \in Seen : box[b].start <= ts.s
           /\ \A b \in Seen : box[b].start < ts.f

NewStart(b)  == box[b].start - Skipped(box[b].start)
NewFinish(b) == box[b].finish - Skipped(box[b].finish + 1)

Renumbered == \A b \in Seen :
    /\ slot[b].start = NewStart(b)
    /\ slot[b].finish = NewFinish(b)

CompressInv == TypeOK /\ BoxesLive /\ CursorsExact /\ InOrder /\ Renumbered

PlacingOK == placing # None => phase = "place" /\ placing \in left

\* The box that is lifted fits nowhere below.
LiftedEnough == placing # None =>
    \A i \in 0..id - 1 : \E c \in InSlots(placing) : Meet(i, placing, c)

RequiredIsTop == /\ \A b \in Placed : offset[b] + box[b].size <= required
                 /\ IF Placed = {} THEN required = 0
                    ELSE \E b \in Placed : offset[b] + box[b].size = required

DoneIsAll == phase = "done" => left = {}

SolveInv == PlacingOK /\ LiftedEnough /\ BoxesDoNotOverlap /\ RequiredIsTop /\ DoneIsAll

Inv == CompressInv /\ SolveInv

\* The boxes that calcDepth() has counted.
Counted == CASE phase = "compress" -> {}
             [] phase = "depth" -> Boxes \ left
             [] OTHER -> Boxes

CountedAt(t) == AliveAt(t) \cap Counted

\* What is held is what has been counted and is alive when the last box starts.
HeldIsAlive == IF Counted = {} THEN depth.held = {}
               ELSE \E b \in Counted :
                       /\ \A c \in Counted : box[c].start <= box[b].start
                       /\ \A c \in Boxes \ Counted : box[b].start <= box[c].start
                       /\ depth.held = CountedAt(box[b].start)

\* The maxima so far are reached at the start of a counted box.
SizesBounded == /\ \A b \in Counted : Sum(CountedAt(box[b].start)) <= depth.maxSize
                /\ Counted # {} => \E b \in Counted : depth.maxSize <= Sum(AliveAt(box[b].start))

TopsBounded == /\ \A b \in Counted : Cardinality(CountedAt(box[b].start)) <= depth.maxTop
               /\ Counted # {} => \E b \in Counted : depth.maxTop <= Cardinality(AliveAt(box[b].start))

DepthTypeOK == depth \in [held : SUBSET Boxes, size : Nat, top : Nat,
                          maxSize : Nat \cup {-1}, maxTop : Nat \cup {-1}]

DepthInv == /\ depth.size = Sum(depth.held) /\ depth.top = Cardinality(depth.held)
            /\ Counted = {} => depth.maxSize = -1 /\ depth.maxTop = -1
            /\ DepthTypeOK /\ HeldIsAlive /\ SizesBounded /\ TopsBounded

-----------------------------------------------------------------------------
\* The unused timestamps of an interval are finitely many, no more than it has.
LEMMA UnusedFinite ==
    ASSUME NEW a \in Int, NEW b \in Int
    PROVE  /\ IsFiniteSet(Unused(a, b))
           /\ Cardinality(Unused(a, b)) \in Nat
           /\ Cardinality(Unused(a, b)) <= IF a > b THEN 0 ELSE b - a + 1
<1>1. Unused(a, b) \in SUBSET (a..b)
  BY DEF Unused
<1>2. IsFiniteSet(a..b) /\ Cardinality(a..b) = IF a > b THEN 0 ELSE b - a + 1
  BY FS_Interval
<1>3. /\ IsFiniteSet(Unused(a, b))
      /\ Cardinality(Unused(a, b)) <= Cardinality(a..b)
  BY <1>1, <1>2, FS_Subset
<1> QED
  BY <1>2, <1>3, FS_CardinalityType

\* No more is skipped than there is.
LEMMA SkippedNat ==
    ASSUME NEW b \in Nat
    PROVE  Skipped(b) \in Nat /\ Skipped(b) <= b
<1>1. 0 \in Int /\ b - 1 \in Int
  OBVIOUS
<1>2. /\ Cardinality(Unused(0, b - 1)) \in Nat
      /\ Cardinality(Unused(0, b - 1)) <= IF 0 > b - 1 THEN 0 ELSE (b - 1) - 0 + 1
  BY <1>1, UnusedFinite
<1>3. Cardinality(Unused(0, b - 1)) <= b
  BY <1>2
<1> QED
  BY <1>2, <1>3 DEF Skipped

\* What is skipped before b is what is skipped before a, and then up to b.
LEMMA SkippedSplit ==
    ASSUME NEW a \in Nat, NEW b \in Nat, a <= b
    PROVE  Skipped(b) = Skipped(a) + Cardinality(Unused(a, b - 1))
<1> DEFINE U == Unused(0, a - 1)
           V == Unused(a, b - 1)
<1>1. IsFiniteSet(U) /\ IsFiniteSet(V) /\ Cardinality(U) \in Nat /\ Cardinality(V) \in Nat
  BY UnusedFinite
<1>2. Unused(0, b - 1) = U \cup V
  BY DEF Unused
<1>3. U \cap V = {}
  BY DEF Unused
<1>4. Cardinality(U \cap V) = 0
  BY <1>3, FS_EmptySet
<1>5. Cardinality(U \cup V) = Cardinality(U) + Cardinality(V) - Cardinality(U \cap V)
  BY <1>1, FS_Union
<1>6. Cardinality(U \cup V) = Cardinality(U) + Cardinality(V)
  BY <1>1, <1>4, <1>5
<1>7. Cardinality(Unused(0, b - 1)) = Cardinality(U) + Cardinality(V)
  BY <1>2, <1>6
<1> QED
  BY <1>7 DEF Skipped

\* Between two times the count grows at most by the time, ...
LEMMA SkippedSpan ==
    ASSUME NEW a \in Nat, NEW b \in Nat, a <= b
    PROVE  Skipped(a) <= Skipped(b) /\ Skipped(b) <= Skipped(a) + (b - a)
<1>1. Skipped(b) = Skipped(a) + Cardinality(Unused(a, b - 1))
  BY SkippedSplit
<1>2. Skipped(a) \in Nat /\ Skipped(b) \in Nat
  BY SkippedNat
<1>3. /\ Cardinality(Unused(a, b - 1)) \in Nat
      /\ Cardinality(Unused(a, b - 1)) <= b - a
  BY UnusedFinite
<1> QED
  BY <1>1, <1>2, <1>3

\* ... and by less when the first of them starts a box.
LEMMA UsedSpan ==
    ASSUME NEW c \in Boxes, NEW a \in Nat, NEW b \in Nat, box[c].start = a, a < b
    PROVE  Skipped(b) <= Skipped(a) + (b - a) - 1
<1>1. Skipped(b) = Skipped(a) + Cardinality(Unused(a, b - 1))
  BY SkippedSplit
<1>2. Skipped(a) \in Nat /\ Skipped(b) \in Nat
  BY SkippedNat
<1>3. Unused(a, b - 1) = Unused(a + 1, b - 1)
  BY DEF Unused
<1>4. /\ Cardinality(Unused(a, b - 1)) \in Nat
      /\ Cardinality(Unused(a, b - 1)) <= b - a - 1
  BY <1>3, UnusedFinite
<1> QED
  BY <1>1, <1>2, <1>4

\* The types of a box.
LEMMA BoxTypes ==
    ASSUME TypeOK, NEW b \in Boxes
    PROVE  box[b].start \in Nat /\ box[b].finish \in Nat /\ box[b].size \in Nat \ {0}
BY DEF TypeOK

\* The renumbering keeps the order of a start and an end.
LEMMA OrderKept ==
    ASSUME TypeOK, NEW b \in Boxes, NEW c \in Boxes
    PROVE  /\ NewStart(b) \in Nat /\ NewFinish(c) \in Int
           /\ box[b].start <= box[c].finish <=> NewStart(b) <= NewFinish(c)
<1> DEFINE s == box[b].start
           f == box[c].finish + 1
<1>1. /\ s \in Nat /\ f \in Nat /\ box[c].finish = f - 1
      /\ box[b].start = s
      /\ NewStart(b) = s - Skipped(s)
      /\ NewFinish(c) = f - 1 - Skipped(f)
  BY BoxTypes DEF NewStart, NewFinish
<1> HIDE DEF s, f
<1>2. /\ Skipped(s) \in Nat /\ Skipped(f) \in Nat /\ Skipped(s) <= s
  BY <1>1, SkippedNat
<1>3. ASSUME s < f PROVE Skipped(f) <= Skipped(s) + (f - s) - 1
  BY <1>1, <1>3, UsedSpan
<1>4. ASSUME f <= s PROVE Skipped(s) <= Skipped(f) + (s - f)
  BY <1>1, <1>4, SkippedSpan
<1> QED
  BY <1>1, <1>2, <1>3, <1>4

\* A renumbered interval is a non-empty interval of naturals.
LEMMA SlotBounds ==
    ASSUME TypeOK, BoxesLive, NEW b \in Boxes
    PROVE  NewStart(b) \in Nat /\ NewFinish(b) \in Nat /\ NewStart(b) <= NewFinish(b)
BY OrderKept DEF BoxesLive

\* Two boxes are alive together if, and only if, they share a slot.
LEMMA MeetingsKept ==
    ASSUME CompressInv, phase # "compress", NEW b \in Boxes, NEW c \in Boxes
    PROVE  AliveTogether(b, c) <=> SlotsOf(c) \cap SlotsOf(b) # {}
<1>1. /\ slot[b].start = NewStart(b) /\ slot[b].finish = NewFinish(b)
      /\ slot[c].start = NewStart(c) /\ slot[c].finish = NewFinish(c)
  BY DEF CompressInv, Renumbered, Seen
<1>2. /\ slot[b].start \in Nat /\ slot[b].finish \in Nat /\ slot[b].start <= slot[b].finish
      /\ slot[c].start \in Nat /\ slot[c].finish \in Nat /\ slot[c].start <= slot[c].finish
  BY <1>1, SlotBounds DEF CompressInv
<1>3. AliveTogether(b, c) <=> slot[b].start <= slot[c].finish /\ slot[c].start <= slot[b].finish
  BY <1>1, OrderKept DEF AliveTogether, CompressInv
<1>4. ASSUME slot[b].start <= slot[c].finish, slot[c].start <= slot[b].finish
      PROVE  SlotsOf(c) \cap SlotsOf(b) # {}
  <2>1. CASE slot[b].start <= slot[c].start
    <3>1. slot[c].start \in SlotsOf(c) \cap SlotsOf(b)
      BY <1>2, <1>4, <2>1 DEF SlotsOf
    <3> QED
      BY <3>1
  <2>2. CASE ~(slot[b].start <= slot[c].start)
    <3>1. slot[b].start \in SlotsOf(c) \cap SlotsOf(b)
      BY <1>2, <1>4, <2>2 DEF SlotsOf
    <3> QED
      BY <3>1
  <2> QED
    BY <2>1, <2>2
<1>5. ASSUME SlotsOf(c) \cap SlotsOf(b) # {}
      PROVE  slot[b].start <= slot[c].finish /\ slot[c].start <= slot[b].finish
  BY <1>2, <1>5 DEF SlotsOf
<1> QED
  BY <1>3, <1>4, <1>5

\* What the invariant says of the slots.
LEMMA InvSlotsExist == CompressInv => SlotsExist
<1> SUFFICES ASSUME CompressInv, phase # "compress", NEW b \in Boxes
             PROVE  SlotsOf(b) # {} /\ SlotsOf(b) \subseteq 0.._time_duration - 1
  BY DEF SlotsExist
<1>1. slot[b].start = NewStart(b) /\ slot[b].finish = NewFinish(b)
  BY DEF CompressInv, Renumbered, Seen
<1>2. slot[b].start \in Nat /\ slot[b].finish \in Nat /\ slot[b].start <= slot[b].finish
  BY <1>1, SlotBounds DEF CompressInv
<1>3. SlotsOf(b) # {}
  <2>1. slot[b].start \in SlotsOf(b)
    BY <1>2 DEF SlotsOf
  <2> QED
    BY <2>1
<1> DEFINE f == box[b].finish + 1
           e == ts.f
<1>4. /\ e \in Nat /\ f \in Nat
      /\ slot[b].finish = f - 1 - Skipped(f)
      /\ _time_duration = e - Skipped(e)
      /\ \A c \in Boxes : box[c].start \in Nat /\ box[c].start < e
  <2>1. e \in Nat /\ f \in Nat
    BY BoxTypes DEF CompressInv, TypeOK
  <2>2. slot[b].finish = f - 1 - Skipped(f)
    BY <1>1, BoxTypes DEF CompressInv, NewFinish
  <2>3. _time_duration = e - Skipped(e)
    BY DEF CompressInv, CursorsExact, _time_duration
  <2>4. \A c \in Boxes : box[c].start \in Nat /\ box[c].start < e
    BY BoxTypes DEF CompressInv, InOrder, Seen
  <2> QED
    BY <2>1, <2>2, <2>3, <2>4
<1> HIDE DEF f, e
<1>5. Skipped(f) \in Nat /\ Skipped(e) \in Nat
  BY <1>4, SkippedNat
<1>6. f - Skipped(f) <= e - Skipped(e)
  <2>1. CASE f <= e
    BY <1>4, <1>5, <2>1, SkippedSpan
  <2>2. CASE e < f
    <3> DEFINE g == f - 1
    <3>1. g \in Int /\ g >= e
      BY <1>4, <2>2
    <3>2. Unused(e, g) = e .. g
      BY <1>4 DEF Unused
    <3>3. Cardinality(e .. g) = g - e + 1
      BY <1>4, <3>1, FS_Interval
    <3>4. Skipped(f) = Skipped(e) + Cardinality(Unused(e, g))
      BY <1>4, <2>2, SkippedSplit
    <3> QED
      BY <1>4, <1>5, <3>2, <3>3, <3>4
  <2> QED
    BY <1>4, <2>1, <2>2
<1>7. slot[b].finish <= _time_duration - 1 /\ _time_duration \in Int
  BY <1>4, <1>5, <1>6
<1> QED
  BY <1>2, <1>3, <1>7 DEF SlotsOf

-----------------------------------------------------------------------------
\* The cursors are moved to a box, and know what they have skipped.
LEMMA EndsExact ==
    ASSUME CompressInv, phase = "compress", NEW b \in left
    PROVE  /\ Ends(b) \in [s : Nat, rm_s : Nat, f : Nat, rm_f : Nat]
           /\ Ends(b).s = box[b].start /\ Ends(b).rm_s = Skipped(box[b].start)
           /\ Ends(b).f = box[b].finish + 1 /\ Ends(b).rm_f = Skipped(box[b].finish + 1)
<1> DEFINE S  == Starts(b)
           st == box[b].start
           e  == box[b].finish + 1
           from == SetBack(S, box[b].finish)
<1>1. /\ st \in Nat /\ e \in Nat /\ box[b].finish = e - 1 /\ st < e
      /\ ts \in [s : Nat, rm_s : Nat, f : Nat, rm_f : Nat]
      /\ ts.s \in Nat /\ ts.f \in Nat
      /\ ts.s <= st /\ ts.rm_s = Skipped(ts.s) /\ ts.rm_f = Skipped(ts.f)
  BY BoxTypes DEF CompressInv, TypeOK, BoxesLive, InOrder, CursorsExact
<1>2. Ends(b) = [S EXCEPT !.f = Larger(from.f, e),
                          !.rm_f = from.rm_f + Cardinality(Unused(from.f, e - 1))]
  BY <1>1 DEF Ends
<1>3. /\ S = [ts EXCEPT !.s = Larger(@, st), !.rm_s = @ + Cardinality(Unused(ts.s, st - 1))]
      /\ from = IF S.f > e THEN [f |-> S.s, rm_f |-> S.rm_s] ELSE [f |-> S.f, rm_f |-> S.rm_f]
  BY DEF Starts, SetBack
<1> HIDE DEF S, from
<1>4. /\ S.s = st
      /\ S.rm_s = ts.rm_s + Cardinality(Unused(ts.s, st - 1))
      /\ S.f = ts.f /\ S.rm_f = ts.rm_f
  BY <1>1, <1>3 DEF Larger
<1> HIDE DEF st, e
<1>5. S.rm_s = Skipped(st)
  BY <1>1, <1>4, SkippedSplit
<1>6. /\ Skipped(st) \in Nat /\ Skipped(e) \in Nat /\ Skipped(ts.f) \in Nat
  BY <1>1, SkippedNat
<1>7. from.f \in Nat /\ from.f <= e /\ from.rm_f = Skipped(from.f)
  <2>1. CASE S.f > e
    <3>1. from.f = st /\ from.rm_f = Skipped(st)
      BY <1>3, <1>4, <1>5, <2>1
    <3> QED
      BY <1>1, <3>1
  <2>2. CASE ~(S.f > e)
    <3>1. from.f = ts.f /\ from.rm_f = Skipped(ts.f)
      BY <1>1, <1>3, <1>4, <2>2
    <3> QED
      BY <1>1, <1>4, <2>2, <3>1
  <2> QED
    BY <2>1, <2>2
<1>8. Skipped(e) = from.rm_f + Cardinality(Unused(from.f, e - 1))
  BY <1>1, <1>7, SkippedSplit
<1>9. Larger(from.f, e) = e
  BY <1>1, <1>7 DEF Larger
<1>10. S \in [s : Nat, rm_s : Nat, f : Nat, rm_f : Nat]
  <2>1. Larger(ts.s, st) = st
    BY <1>1 DEF Larger
  <2>2. ts.rm_s + Cardinality(Unused(ts.s, st - 1)) = Skipped(st)
    BY <1>4, <1>5
  <2> QED
    BY <1>1, <1>3, <1>6, <2>1, <2>2
<1>11. Ends(b) = [S EXCEPT !.f = e, !.rm_f = Skipped(e)]
  BY <1>2, <1>8, <1>9
<1>12. /\ Ends(b) \in [s : Nat, rm_s : Nat, f : Nat, rm_f : Nat]
       /\ Ends(b).s = st /\ Ends(b).rm_s = Skipped(st)
       /\ Ends(b).f = e /\ Ends(b).rm_f = Skipped(e)
  BY <1>1, <1>4, <1>5, <1>6, <1>10, <1>11
<1> QED
  BY <1>12 DEF st, e

\* Nothing is skipped before the first timestamp.
LEMMA SkippedZero == Skipped(0) = 0
<1>1. Unused(0, -1) = {}
  BY DEF Unused
<1>2. Cardinality({}) = 0
  BY FS_EmptySet
<1> QED
  BY <1>1, <1>2 DEF Skipped

LEMMA InitInv == Init => Inv
<1> SUFFICES ASSUME Init PROVE Inv
  OBVIOUS
<1> PICK in \in Inputs : \E max_ts \in Times(in) :
          /\ \A t \in Times(in) : t <= max_ts
          /\ box = [b \in Boxes |-> [in[b] EXCEPT !.finish = IF @ = ToEnd THEN max_ts ELSE @]]
  BY DEF Init
<1> PICK max_ts \in Times(in) :
          /\ \A t \in Times(in) : t <= max_ts
          /\ box = [b \in Boxes |-> [in[b] EXCEPT !.finish = IF @ = ToEnd THEN max_ts ELSE @]]
  OBVIOUS
<1>1. /\ in \in [Boxes -> [start : Nat, finish : Nat \cup {ToEnd}, size : Nat \ {0}]]
      /\ \A b \in Boxes : in[b].finish = ToEnd \/ in[b].start <= in[b].finish
  BY SolverAssumption
<1>2. \A b \in Boxes : /\ in[b] \in [start : Nat, finish : Nat \cup {ToEnd}, size : Nat \ {0}]
                       /\ in[b].start \in Nat /\ in[b].start <= max_ts
  BY <1>1 DEF Times
<1>3. max_ts \in Nat
  <2>1. 0 <= max_ts
    BY DEF Times
  <2>2. max_ts \in Nat \cup {ToEnd}
    BY <1>1 DEF Times
  <2> QED
    BY <2>1, <2>2 DEF ToEnd
<1>4. ASSUME NEW b \in Boxes
      PROVE  /\ box[b] \in [start : Nat, finish : Nat, size : Nat \ {0}]
             /\ box[b].start <= box[b].finish
  <2>1. in[b].finish = ToEnd \/ in[b].start <= in[b].finish
    BY <1>1
  <2>2. box[b] = [in[b] EXCEPT !.finish = IF in[b].finish = ToEnd THEN max_ts ELSE in[b].finish]
    OBVIOUS
  <2>3. CASE in[b].finish = ToEnd
    BY <1>2, <1>3, <2>2, <2>3
  <2>4. CASE in[b].finish # ToEnd
    <3>1. box[b] = [in[b] EXCEPT !.finish = in[b].finish]
      BY <2>2, <2>4
    <3>2. in[b].finish \in Nat
      BY <1>2, <2>4
    <3> QED
      BY <1>2, <2>1, <2>4, <3>1, <3>2
  <2> QED
    BY <2>3, <2>4
<1>5. box \in [Boxes -> [start : Nat, finish : Nat, size : Nat \ {0}]]
  BY <1>4
<1>6. TypeOK
  BY <1>5 DEF Init, TypeOK
<1>7. BoxesLive
  BY <1>4 DEF BoxesLive
<1>8. CursorsExact
  BY SkippedZero DEF Init, CursorsExact
<1>9. Seen = {} /\ Placed = {}
  BY DEF Init, Seen, Placed
<1>10. InOrder
  <2>1. \A b \in Boxes : box[b].start \in Nat
    BY <1>5
  <2> QED
    BY <1>9, <2>1 DEF Init, InOrder
<1>11. Renumbered
  BY <1>9 DEF Renumbered
<1>12. SolveInv
  BY <1>9 DEF SolveInv, PlacingOK, LiftedEnough, BoxesDoNotOverlap, RequiredIsTop, DoneIsAll, Init
<1> QED
  BY <1>6, <1>7, <1>8, <1>10, <1>11, <1>12 DEF Inv, CompressInv

-----------------------------------------------------------------------------
\* No step changes the times of a box once the constructor has read them.
LEMMA NumbersKept ==
    ASSUME box' = box, NEW b \in Boxes
    PROVE  NewStart(b)' = NewStart(b) /\ NewFinish(b)' = NewFinish(b)
BY DEF NewStart, NewFinish, Skipped, Unused

\* A turn of the constructor's loop.
LEMMA CompressStep ==
    ASSUME CompressInv, NEW b \in Boxes, Compress(b)
    PROVE  CompressInv'
<1>1. /\ phase = "compress" /\ IsNextByTime(b) /\ b \in left
      /\ ts' = Ends(b) /\ box' = box
      /\ slot' = [slot EXCEPT ![b] = [start  |-> box[b].start - ts'.rm_s,
                                      finish |-> box[b].finish - ts'.rm_f]]
      /\ UNCHANGED <<placing, id, offset, required>>
  BY DEF Compress, IsNextByTime
<1>2. /\ ts' \in [s : Nat, rm_s : Nat, f : Nat, rm_f : Nat]
      /\ ts'.s = box[b].start /\ ts'.rm_s = Skipped(box[b].start)
      /\ ts'.f = box[b].finish + 1 /\ ts'.rm_f = Skipped(box[b].finish + 1)
  BY <1>1, EndsExact
<1>3. slot' = [slot EXCEPT ![b] = [start |-> NewStart(b), finish |-> NewFinish(b)]]
  BY <1>1, <1>2 DEF NewStart, NewFinish
<1>4. TypeOK'
  <2>1. NewStart(b) \in Nat /\ NewFinish(b) \in Nat
    BY SlotBounds DEF CompressInv
  <2>2. slot' \in [Boxes -> [start : Nat, finish : Nat]]
    BY <1>3, <2>1 DEF CompressInv, TypeOK
  <2>3. left' \subseteq Boxes /\ phase' \in {"compress", "depth"}
    BY <1>1 DEF Compress, Turn, CompressInv, TypeOK
  <2> QED
    BY <1>1, <1>2, <2>2, <2>3 DEF CompressInv, TypeOK
<1>5. BoxesLive'
  BY <1>1 DEF CompressInv, BoxesLive
<1>6. CursorsExact'
  BY <1>1, <1>2 DEF CursorsExact, Skipped, Unused
<1>8. Seen' = Seen \cup {b}
  BY <1>1 DEF Compress, Turn, Seen, CompressInv, TypeOK
<1>9. phase' = "compress" => left' = left \ {b}
  BY <1>1 DEF Compress, Turn
<1>10. InOrder'
  <2>1. /\ \A c \in Boxes : box[c].start \in Nat /\ box[c].finish \in Nat
        /\ \A c \in Seen : box[c].start <= ts.s
        /\ ts.s \in Nat /\ ts.s <= box[b].start /\ box[b].start <= box[b].finish
        /\ left \subseteq Boxes /\ Seen \subseteq Boxes
    BY <1>1, BoxTypes DEF CompressInv, TypeOK, InOrder, BoxesLive, Seen
  <2>2. \A c \in left : box[b].start <= box[c].start
    BY <1>1, <2>1 DEF IsNextByTime
  <2>3. \A c \in Seen' : box[c].start <= box[b].start
    BY <1>8, <2>1
  <2>4. \A c \in Seen' : box[c].start < box[b].finish + 1
    BY <1>8, <2>1
  <2> QED
    BY <1>1, <1>2, <1>9, <2>2, <2>3, <2>4 DEF InOrder
<1>11. Renumbered'
  <2> SUFFICES ASSUME NEW c \in Seen'
               PROVE  slot'[c].start = NewStart(c) /\ slot'[c].finish = NewFinish(c)
    BY <1>1, <1>8, NumbersKept DEF Renumbered, Seen, CompressInv, TypeOK
  <2>1. CASE c = b
    BY <1>3, <2>1 DEF CompressInv, TypeOK
  <2>2. CASE c # b
    BY <1>3, <1>8, <2>2 DEF CompressInv, TypeOK, Renumbered, Seen
  <2> QED
    BY <2>1, <2>2
<1> QED
  BY <1>4, <1>5, <1>6, <1>10, <1>11 DEF CompressInv

\* The other loops leave to the invariant of the constructor what it is about.
LEMMA RestStep ==
    ASSUME CompressInv, TypeOK', UNCHANGED <<box, ts, slot>>,
           phase # "compress", phase' # "compress"
    PROVE  CompressInv'
<1>1. BoxesLive'
  BY DEF CompressInv, BoxesLive
<1>2. CursorsExact'
  BY DEF CompressInv, CursorsExact, Skipped, Unused
<1>3. InOrder'
  BY DEF CompressInv, InOrder, Seen
<1>4. Renumbered'
  BY NumbersKept DEF CompressInv, Renumbered, Seen
<1> QED
  BY <1>1, <1>2, <1>3, <1>4 DEF CompressInv

\* Until solve() has placed a box its invariant says nothing.
LEMMA NothingPlaced ==
    ASSUME placing = None, Placed = {}, phase # "done", required = 0
    PROVE  SolveInv
BY DEF SolveInv, PlacingOK, LiftedEnough, BoxesDoNotOverlap, RequiredIsTop, DoneIsAll

-----------------------------------------------------------------------------
(* Sums.  Sum() folds a set by a recursive function on its subsets.  That  *)
(* such a function exists, and that the order of the fold does not matter, *)
(* is shown by looking at a smallest set for which it is not so.           *)

Any(s) == CHOOSE x \in s : TRUE

\* f holds the sum of the weights w of each subset of S.
Adds(w, S, f) ==
    f = [s \in SUBSET S |-> IF s = {} THEN 0 ELSE w[Any(s)] + f[s \ {Any(s)}]]

Total(w, S) == (CHOOSE f : Adds(w, S, f))[S]

SizeOf == [b \in Boxes |-> box[b].size]

\* Among subsets of a finite set there is one that contains no other.
LEMMA SmallestSet ==
    ASSUME NEW S, IsFiniteSet(S), NEW T \in SUBSET SUBSET S, T # {}
    PROVE  \E X \in T : \A Y \in T : Y \subseteq X => Y = X
<1> DEFINE R == StrictSubsetOrdering(S)
<1>1. FiniteSubsetsOf(S) = SUBSET S
  BY FS_FiniteSubsetsOfFinite
<1>2. IsWellFoundedOn(R, SUBSET S)
  BY <1>1, FS_StrictSubsetOrderingWellFounded
<1>3. PICK X \in T : \A Y \in T : ~(<<Y, X>> \in R)
  <2> HIDE DEF R
  <2> QED
    BY <1>2, WFMin
<1>4. \A Y \in T : Y \subseteq X => Y = X
  BY <1>3 DEF StrictSubsetOrdering
<1> QED
  BY <1>4

\* A non-empty set has the element that the fold takes first.
LEMMA AnyIn ==
    ASSUME NEW s, s # {}
    PROVE  Any(s) \in s
BY DEF Any

LEMMA AddsAt ==
    ASSUME NEW w, NEW S, NEW f, Adds(w, S, f), NEW s \in SUBSET S
    PROVE  f[s] = IF s = {} THEN 0 ELSE w[Any(s)] + f[s \ {Any(s)}]
<1> DEFINE e(t) == IF t = {} THEN 0 ELSE w[Any(t)] + f[t \ {Any(t)}]
<1>1. f = [t \in SUBSET S |-> e(t)]
  BY DEF Adds
<1> HIDE DEF e
<1>2. f[s] = e(s)
  BY <1>1
<1> QED
  BY <1>2 DEF e

\* Two such functions agree where both are defined.
LEMMA AddsAgree ==
    ASSUME NEW w, NEW S, NEW T, IsFiniteSet(S), T \subseteq S,
           NEW f, NEW g, Adds(w, S, f), Adds(w, T, g)
    PROVE  \A s \in SUBSET T : f[s] = g[s]
<1> DEFINE Bad == {s \in SUBSET T : f[s] # g[s]}
<1> SUFFICES ASSUME Bad # {} PROVE FALSE
  OBVIOUS
<1>1. Bad \in SUBSET SUBSET S
  OBVIOUS
<1>2. PICK X \in Bad : \A Y \in Bad : Y \subseteq X => Y = X
  <2> HIDE DEF Bad
  <2> QED
    BY <1>1, SmallestSet
<1>3. X \in SUBSET S /\ X \in SUBSET T /\ f[X] # g[X]
  OBVIOUS
<1>4. X # {}
  <2> SUFFICES ASSUME X = {} PROVE FALSE
    OBVIOUS
  <2>1. f[X] = 0 /\ g[X] = 0
    BY <1>3, AddsAt
  <2> QED
    BY <1>3, <2>1
<1> DEFINE Y == X \ {Any(X)}
<1>5. Y \in SUBSET T /\ Y \subseteq X /\ Y # X
  BY <1>3, <1>4, AnyIn
<1>6. f[Y] = g[Y]
  BY <1>2, <1>5
<1>7. /\ f[X] = IF X = {} THEN 0 ELSE w[Any(X)] + f[X \ {Any(X)}]
      /\ g[X] = IF X = {} THEN 0 ELSE w[Any(X)] + g[X \ {Any(X)}]
  <2> HIDE DEF Bad
  <2>1. f[X] = IF X = {} THEN 0 ELSE w[Any(X)] + f[X \ {Any(X)}]
    BY <1>3, AddsAt
  <2>2. g[X] = IF X = {} THEN 0 ELSE w[Any(X)] + g[X \ {Any(X)}]
    BY <1>3, AddsAt
  <2> QED
    BY <2>1, <2>2
<1> QED
  BY <1>3, <1>4, <1>6, <1>7

\* There is such a function on the subsets of every finite set.
LEMMA AddsExists ==
    ASSUME NEW w, NEW S, IsFiniteSet(S)
    PROVE  \E f : Adds(w, S, f)
<1> DEFINE Bad == {T \in SUBSET S : ~\E f : Adds(w, T, f)}
<1> SUFFICES ASSUME Bad # {} PROVE FALSE
  OBVIOUS
<1>1. PICK T \in Bad : \A Y \in Bad : Y \subseteq T => Y = T
  <2>1. Bad \in SUBSET SUBSET S
    OBVIOUS
  <2> HIDE DEF Bad
  <2> QED
    BY <2>1, SmallestSet
<1>2. T \in SUBSET S /\ IsFiniteSet(T) /\ ~\E f : Adds(w, T, f)
  BY FS_Subset
<1> DEFINE G(Y)    == CHOOSE g : Adds(w, Y, g)
           Less(s) == s \ {Any(s)}
           e(s)    == IF s = {} THEN 0 ELSE w[Any(s)] + G(Less(s))[Less(s)]
           f       == [s \in SUBSET T |-> e(s)]
<1>3. ASSUME NEW Y \in SUBSET T, Y # T
      PROVE  Adds(w, Y, G(Y)) /\ IsFiniteSet(Y)
  <2>1. \E g : Adds(w, Y, g)
    BY <1>1, <1>2, <1>3
  <2> QED
    BY <1>2, <2>1, FS_Subset
<1>4. ASSUME NEW s \in SUBSET T, s # {}
      PROVE  /\ Less(s) \in SUBSET T /\ Less(s) # T
             /\ Less(s) \subseteq s
  BY <1>4, AnyIn
<1>5. ASSUME NEW s \in SUBSET T, s # {}
      PROVE  f[Less(s)] = G(Less(s))[Less(s)]
  <2> DEFINE Y == Less(s)
  <2>1. Y \in SUBSET T /\ Y # T
    BY <1>4, <1>5
  <2>2. f[Y] = e(Y)
    BY <2>1
  <2>3. Adds(w, Y, G(Y)) /\ IsFiniteSet(Y)
    BY <1>3, <2>1
  <2>4. CASE Y = {}
    <3>1. G(Y)[Y] = 0
      BY <2>3, <2>4, AddsAt
    <3> QED
      BY <2>2, <2>4, <3>1
  <2>5. CASE Y # {}
    <3> HIDE DEF Y, G
    <3>1. /\ Less(Y) \in SUBSET T /\ Less(Y) # T /\ Less(Y) \subseteq Y
      BY <1>4, <2>1, <2>5
    <3>2. Adds(w, Less(Y), G(Less(Y)))
      BY <1>3, <3>1
    <3>3. G(Y)[Less(Y)] = G(Less(Y))[Less(Y)]
      BY <2>3, <3>1, <3>2, AddsAgree
    <3>4. G(Y)[Y] = w[Any(Y)] + G(Y)[Less(Y)]
      BY <2>3, <2>5, AddsAt
    <3>5. f[Y] = w[Any(Y)] + G(Less(Y))[Less(Y)]
      BY <2>2, <2>5
    <3>6. f[Y] = G(Y)[Y]
      BY <3>3, <3>4, <3>5
    <3> QED
      BY <3>6 DEF Y
  <2> QED
    BY <2>4, <2>5
<1>6. Adds(w, T, f)
  <2> HIDE DEF G
  <2>1. ASSUME NEW s \in SUBSET T
        PROVE  e(s) = IF s = {} THEN 0 ELSE w[Any(s)] + f[s \ {Any(s)}]
    BY <1>5
  <2> HIDE DEF e
  <2>2. f = [s \in SUBSET T |-> IF s = {} THEN 0 ELSE w[Any(s)] + f[s \ {Any(s)}]]
    BY <2>1
  <2> QED
    BY <2>2 DEF Adds
<1> QED
  BY <1>2, <1>6

\* The recursion equation of a sum, for the element that the fold takes first.
LEMMA TotalAt ==
    ASSUME NEW w, NEW S, IsFiniteSet(S)
    PROVE  Total(w, S) = IF S = {} THEN 0 ELSE w[Any(S)] + Total(w, S \ {Any(S)})
<1> DEFINE G(Y) == CHOOSE g : Adds(w, Y, g)
           T    == S \ {Any(S)}
<1>1. T \subseteq S /\ IsFiniteSet(T)
  BY FS_Subset
<1>2. Adds(w, S, G(S)) /\ Adds(w, T, G(T))
  BY <1>1, AddsExists
<1>3. Total(w, S) = G(S)[S] /\ Total(w, T) = G(T)[T]
  BY DEF Total
<1> HIDE DEF G
<1>4. G(S)[T] = G(T)[T]
  BY <1>1, <1>2, AddsAgree, SMTT(60)
<1>5. G(S)[S] = IF S = {} THEN 0 ELSE w[Any(S)] + G(S)[T]
  BY <1>2, AddsAt
<1> QED
  BY <1>3, <1>4, <1>5

\* A sum of naturals is a natural.
LEMMA TotalNat ==
    ASSUME NEW B, NEW w \in [B -> Nat], NEW S \in SUBSET B, IsFiniteSet(S)
    PROVE  Total(w, S) \in Nat
<1> DEFINE Bad == {s \in SUBSET S : Total(w, s) \notin Nat}
<1> SUFFICES ASSUME Bad # {} PROVE FALSE
  OBVIOUS
<1>1. PICK X \in Bad : \A Y \in Bad : Y \subseteq X => Y = X
  <2>1. Bad \in SUBSET SUBSET S
    OBVIOUS
  <2> HIDE DEF Bad
  <2> QED
    BY <2>1, SmallestSet
<1>2. X \in SUBSET S /\ IsFiniteSet(X) /\ Total(w, X) \notin Nat
  BY FS_Subset
<1>3. X # {}
  <2> SUFFICES ASSUME X = {} PROVE FALSE
    OBVIOUS
  <2>1. Total(w, X) = 0
    BY <1>2, TotalAt
  <2> QED
    BY <1>2, <2>1
<1> DEFINE Y == X \ {Any(X)}
<1>4. Any(X) \in B /\ Y \in SUBSET S /\ Y \subseteq X /\ Y # X
  BY <1>2, <1>3, AnyIn
<1>5. Total(w, Y) \in Nat
  BY <1>1, <1>4
<1>6. Total(w, X) = w[Any(X)] + Total(w, Y)
  BY <1>2, <1>3, TotalAt
<1> HIDE DEF Y
<1> QED
  BY <1>2, <1>4, <1>5, <1>6

\* The sum does not depend on which element is taken first.
LEMMA TotalRemove ==
    ASSUME NEW B, NEW w \in [B -> Nat], NEW S \in SUBSET B, IsFiniteSet(S), NEW x \in S
    PROVE  Total(w, S) = w[x] + Total(w, S \ {x})
<1> DEFINE Bad == {s \in SUBSET S : \E y \in s : Total(w, s) # w[y] + Total(w, s \ {y})}
<1> SUFFICES ASSUME Bad # {} PROVE FALSE
  OBVIOUS
<1>1. PICK X \in Bad : \A Y \in Bad : Y \subseteq X => Y = X
  <2>1. Bad \in SUBSET SUBSET S
    OBVIOUS
  <2> HIDE DEF Bad
  <2> QED
    BY <2>1, SmallestSet
<1>2. X \in SUBSET S /\ X \in SUBSET B /\ IsFiniteSet(X)
  BY FS_Subset
<1>3. PICK y \in X : Total(w, X) # w[y] + Total(w, X \ {y})
  OBVIOUS
<1> DEFINE c == Any(X)
<1>4. c \in X /\ c \in B /\ y \in B
  BY <1>2, <1>3, AnyIn
<1>5. Total(w, X) = w[c] + Total(w, X \ {c})
  BY <1>2, <1>3, TotalAt
<1> HIDE DEF c
<1>6. c # y
  BY <1>3, <1>5
<1> DEFINE Z == (X \ {c}) \ {y}
<1>7. Z = (X \ {y}) \ {c} /\ Z \in SUBSET B /\ IsFiniteSet(Z)
  BY <1>2, FS_Subset
<1>8. Total(w, X \ {c}) = w[y] + Total(w, Z)
  <2>1. X \ {c} \notin Bad /\ X \ {c} \in SUBSET S /\ y \in X \ {c}
    BY <1>1, <1>2, <1>4, <1>6
  <2> QED
    BY <2>1
<1>9. Total(w, X \ {y}) = w[c] + Total(w, Z)
  <2>1. X \ {y} \notin Bad /\ X \ {y} \in SUBSET S /\ c \in X \ {y}
    BY <1>1, <1>2, <1>4, <1>6
  <2>2. Total(w, X \ {y}) = w[c] + Total(w, (X \ {y}) \ {c})
    BY <2>1
  <2> QED
    BY <1>7, <2>2
<1>10. w[c] \in Nat /\ w[y] \in Nat /\ Total(w, Z) \in Nat
  BY <1>4, <1>7, TotalNat
<1> QED
  BY <1>3, <1>5, <1>8, <1>9, <1>10

\* The sum over a set is that over a part of it and that over the rest.
LEMMA TotalSplit ==
    ASSUME NEW B, NEW w \in [B -> Nat], NEW S \in SUBSET B, IsFiniteSet(S), NEW P \in SUBSET S
    PROVE  Total(w, S) = Total(w, P) + Total(w, S \ P)
<1> DEFINE Bad == {s \in SUBSET S : Total(w, S) # Total(w, s) + Total(w, S \ s)}
<1> SUFFICES ASSUME Bad # {} PROVE FALSE
  OBVIOUS
<1>1. PICK X \in Bad : \A Y \in Bad : Y \subseteq X => Y = X
  <2>1. Bad \in SUBSET SUBSET S
    OBVIOUS
  <2> HIDE DEF Bad
  <2> QED
    BY <2>1, SmallestSet
<1>2. /\ X \in SUBSET S /\ X \in SUBSET B /\ IsFiniteSet(X)
      /\ Total(w, S) # Total(w, X) + Total(w, S \ X)
  BY FS_Subset
<1>3. X # {}
  <2> SUFFICES ASSUME X = {} PROVE FALSE
    OBVIOUS
  <2>1. Total(w, X) = 0 /\ S \ X = S
    BY <1>2, TotalAt
  <2>2. Total(w, S) \in Nat
    BY TotalNat
  <2> QED
    BY <1>2, <2>1, <2>2
<1> PICK x \in X : TRUE
  BY <1>3
<1> DEFINE Y == X \ {x}
<1>4. Total(w, S) = Total(w, Y) + Total(w, S \ Y)
  <2>1. Y \notin Bad /\ Y \in SUBSET S
    BY <1>1, <1>2
  <2> QED
    BY <2>1
<1>5. Total(w, X) = w[x] + Total(w, Y)
  BY <1>2, TotalRemove
<1>6. Total(w, S \ Y) = w[x] + Total(w, S \ X)
  <2>1. S \ Y \in SUBSET B /\ IsFiniteSet(S \ Y) /\ x \in S \ Y
    BY <1>2, FS_Subset
  <2>2. (S \ Y) \ {x} = S \ X
    OBVIOUS
  <2> HIDE DEF Y
  <2>3. Total(w, S \ Y) = w[x] + Total(w, (S \ Y) \ {x})
    BY <2>1, TotalRemove
  <2> QED
    BY <2>2, <2>3
<1>7. Y \in SUBSET B /\ IsFiniteSet(Y) /\ S \ X \in SUBSET B /\ IsFiniteSet(S \ X)
  BY <1>2, FS_Subset
<1>8. w[x] \in Nat /\ Total(w, Y) \in Nat /\ Total(w, S \ X) \in Nat
  BY <1>2, <1>7, TotalNat
<1> QED
  BY <1>2, <1>4, <1>5, <1>6, <1>8

\* Sum() of the model is this sum.
LEMMA SumIsTotal ==
    ASSUME NEW S, S \subseteq Boxes
    PROVE  Sum(S) = Total(SizeOf, S)
BY ZenonT(60) DEF Sum, MapThenSumSet, MapThenFoldSet, Total, Adds, Any, SizeOf

LEMMA SumKept ==
    ASSUME box' = box, NEW S
    PROVE  Sum(S)' = Sum(S)
BY DEF Sum, MapThenSumSet, MapThenFoldSet

-----------------------------------------------------------------------------
\* What is said of sums, for the sizes of boxes.
LEMMA SumFacts ==
    ASSUME TypeOK, NEW S \in SUBSET Boxes
    PROVE  /\ Sum(S) \in Nat
           /\ \A P \in SUBSET S : Sum(S) = Sum(P) + Sum(S \ P) /\ Sum(P) <= Sum(S)
           /\ \A x \in Boxes \ S : Sum(S \cup {x}) = Sum(S) + box[x].size
<1>1. SizeOf \in [Boxes -> Nat] /\ \A x \in Boxes : SizeOf[x] = box[x].size
  BY BoxTypes DEF SizeOf
<1>2. \A P \in SUBSET Boxes : IsFiniteSet(P) /\ Sum(P) = Total(SizeOf, P)
  BY SumIsTotal, SolverAssumption, FS_Subset
<1>3. \A P \in SUBSET Boxes : Total(SizeOf, P) \in Nat
  BY <1>1, <1>2, TotalNat
<1>4. ASSUME NEW P \in SUBSET S
      PROVE  Sum(S) = Sum(P) + Sum(S \ P) /\ Sum(P) <= Sum(S)
  <2>1. Total(SizeOf, S) = Total(SizeOf, P) + Total(SizeOf, S \ P)
    BY <1>1, <1>2, TotalSplit
  <2>2. P \in SUBSET Boxes /\ S \ P \in SUBSET Boxes
    OBVIOUS
  <2> QED
    BY <1>2, <1>3, <2>1, <2>2
<1>5. ASSUME NEW x \in Boxes \ S
      PROVE  Sum(S \cup {x}) = Sum(S) + box[x].size
  <2> DEFINE T == S \cup {x}
  <2>1. T \in SUBSET Boxes /\ x \in T /\ T \ {x} = S
    OBVIOUS
  <2> HIDE DEF T
  <2>2. Total(SizeOf, T) = SizeOf[x] + Total(SizeOf, T \ {x})
    BY <1>1, <1>2, <2>1, TotalRemove
  <2>3. Sum(T) = box[x].size + Sum(S) /\ Sum(S) \in Nat /\ box[x].size \in Nat
    BY <1>1, <1>2, <1>3, <2>1, <2>2
  <2> QED
    BY <2>3 DEF T
<1> QED
  BY <1>2, <1>3, <1>4, <1>5

\* The same of numbers of boxes.
LEMMA CountFacts ==
    ASSUME NEW S \in SUBSET Boxes
    PROVE  /\ IsFiniteSet(S) /\ Cardinality(S) \in Nat
           /\ \A P \in SUBSET S : /\ Cardinality(S) = Cardinality(P) + Cardinality(S \ P)
                                  /\ Cardinality(P) <= Cardinality(S)
           /\ \A x \in Boxes \ S : Cardinality(S \cup {x}) = Cardinality(S) + 1
           /\ S # {} => Cardinality(S) > 0
<1>1. IsFiniteSet(S) /\ Cardinality(S) \in Nat
  BY SolverAssumption, FS_Subset, FS_CardinalityType
<1>2. ASSUME NEW P \in SUBSET S
      PROVE  /\ Cardinality(S) = Cardinality(P) + Cardinality(S \ P)
             /\ Cardinality(P) <= Cardinality(S)
  <2>1. /\ IsFiniteSet(P) /\ IsFiniteSet(S \ P)
        /\ Cardinality(P) \in Nat /\ Cardinality(S \ P) \in Nat
    BY <1>1, FS_Subset, FS_CardinalityType
  <2>2. Cardinality(S \ P) = Cardinality(S) - Cardinality(S \cap P)
    BY <1>1, FS_Difference
  <2>3. S \cap P = P
    OBVIOUS
  <2> QED
    BY <1>1, <2>1, <2>2, <2>3
<1>3. ASSUME NEW x \in Boxes \ S
      PROVE  Cardinality(S \cup {x}) = Cardinality(S) + 1
  BY <1>1, FS_AddElement
<1>4. S # {} => Cardinality(S) > 0
  BY <1>1, FS_EmptySet
<1> QED
  BY <1>1, <1>2, <1>3, <1>4

-----------------------------------------------------------------------------
\* A box that is held ends before b starts if, and only if, its last slot is
\* the one before that of b: no box starts in between.
LEMMA ReleasedAreDead ==
    ASSUME CompressInv, HeldIsAlive, phase = "depth", NEW b \in Boxes, IsNextByTime(b),
           NEW c \in depth.held \cup {b}
    PROVE  slot[c].finish + 1 = slot[b].start <=> box[c].finish < box[b].start
<1> DEFINE s == box[b].start
           f == box[c].finish + 1
<1>1. TypeOK /\ BoxesLive /\ c \in Boxes /\ b \in left /\ Counted = Boxes \ left
  BY DEF CompressInv, IsNextByTime, HeldIsAlive, Counted, CountedAt
<1>2. /\ s \in Nat /\ f \in Nat /\ box[c].finish = f - 1 /\ box[b].start = s
      /\ \A d \in Boxes : box[d].start \in Nat
  BY <1>1, BoxTypes
<1>3. slot[b].start = s - Skipped(s) /\ slot[c].finish = f - 1 - Skipped(f)
  BY <1>1, <1>2 DEF CompressInv, Renumbered, Seen, NewStart, NewFinish
<1>4. Skipped(s) \in Nat /\ Skipped(f) \in Nat
  BY <1>2, SkippedNat
<1>5. s <= f - 1 <=> slot[b].start <= slot[c].finish
  BY <1>1, <1>2, OrderKept DEF CompressInv, Renumbered, Seen
<1>6. ASSUME f <= s
      PROVE  slot[c].finish + 1 = slot[b].start
  <2>1. c # b
    BY <1>1, <1>2, <1>6 DEF BoxesLive
  <2>2. PICK d \in Counted : /\ \A e \in Counted : box[e].start <= box[d].start
                             /\ c \in CountedAt(box[d].start)
    BY <2>1 DEF HeldIsAlive
  <2>3. \A e \in Boxes : box[e].start < f \/ s <= box[e].start
    <3> SUFFICES ASSUME NEW e \in Boxes PROVE box[e].start < f \/ s <= box[e].start
      OBVIOUS
    <3>1. CASE e \in left
      BY <1>2, <3>1 DEF IsNextByTime
    <3>2. CASE e \in Counted
      <4>1. box[e].start <= box[d].start /\ box[d].start <= box[c].finish /\ d \in Boxes
        BY <1>1, <2>2, <3>2 DEF CountedAt, AliveAt
      <4> QED
        BY <1>2, <4>1
    <3> QED
      BY <1>1, <3>1, <3>2
  <2> HIDE DEF s, f
  <2>4. Unused(f, s - 1) = f .. s - 1
    BY <1>2, <2>3 DEF Unused
  <2>5. Cardinality(f .. s - 1) = s - f
    <3>1. f \in Int /\ s - 1 \in Int
      BY <1>2
    <3>2. Cardinality(f .. s - 1) = IF f > s - 1 THEN 0 ELSE (s - 1) - f + 1
      BY <3>1, FS_Interval
    <3> QED
      BY <1>2, <1>6, <3>2
  <2>6. Skipped(s) = Skipped(f) + (s - f)
    BY <1>2, <1>6, <2>4, <2>5, SkippedSplit
  <2> QED
    BY <1>2, <1>3, <1>4, <2>6
<1>7. slot[b].start \in Int /\ slot[c].finish \in Int
  BY <1>2, <1>3, <1>4
<1> HIDE DEF s, f
<1> QED
  BY <1>2, <1>5, <1>6, <1>7

\* The boxes that calcDepth() holds after b are those alive when b starts.
LEMMA HeldStep ==
    ASSUME CompressInv, HeldIsAlive, phase = "depth", NEW b \in Boxes, CalcDepth(b)
    PROVE  /\ b \in Boxes \ Counted /\ Counted' = Counted \cup {b}
           /\ \A c \in Counted : box[c].start <= box[b].start
           /\ \A c \in Boxes \ Counted : box[b].start <= box[c].start
           /\ depth.held \in SUBSET Counted
           /\ depth'.held = AliveAt(box[b].start) \cap (Counted \cup {b})
<1>1. /\ IsNextByTime(b) /\ Turn(b, "place") /\ box' = box /\ left \subseteq Boxes
      /\ TypeOK /\ BoxesLive
      /\ depth'.held = (depth.held \cup {b}) \ Released(depth.held \cup {b}, slot[b].start)
  BY DEF CalcDepth, CompressInv, TypeOK
<1>2. Counted = Boxes \ left /\ b \in left
  BY <1>1 DEF Counted, IsNextByTime
<1>3. Counted' = Counted \cup {b}
  BY <1>1, <1>2 DEF Turn, Counted
<1>4. \A c \in Boxes : box[c].start \in Nat /\ box[c].finish \in Nat
  BY <1>1, BoxTypes
<1>5. \A c \in Boxes \ Counted : box[b].start <= box[c].start
  BY <1>1, <1>2, <1>4 DEF IsNextByTime
<1>6. /\ \A c \in Counted : box[c].start <= box[b].start
      /\ depth.held \in SUBSET Counted
      /\ \A c \in Counted : box[b].start <= box[c].finish => c \in depth.held
  <2>1. CASE Counted = {}
    BY <2>1 DEF HeldIsAlive
  <2>2. CASE Counted # {}
    <3>1. PICK d \in Counted : /\ \A c \in Counted : box[c].start <= box[d].start
                               /\ \A c \in Boxes \ Counted : box[d].start <= box[c].start
                               /\ depth.held = CountedAt(box[d].start)
      BY <2>2 DEF HeldIsAlive
    <3>2. box[d].start <= box[b].start /\ d \in Boxes /\ Counted \subseteq Boxes
      BY <1>2, <3>1
    <3> QED
      BY <1>4, <3>1, <3>2 DEF CountedAt, AliveAt
  <2> QED
    BY <2>1, <2>2
<1>7. \A c \in depth.held \cup {b} :
         c \in Released(depth.held \cup {b}, slot[b].start) <=> box[c].finish < box[b].start
  BY <1>1, ReleasedAreDead DEF Released
<1>8. depth'.held = {c \in depth.held \cup {b} : ~(box[c].finish < box[b].start)}
  BY <1>1, <1>7 DEF Released
<1>9. box[b].start <= box[b].finish
  BY <1>1 DEF BoxesLive
<1>10. Counted \subseteq Boxes
  BY <1>2
<1> HIDE DEF Counted
<1>11. depth'.held = AliveAt(box[b].start) \cap (Counted \cup {b})
  BY <1>4, <1>6, <1>8, <1>9, <1>10 DEF AliveAt
<1> QED
  BY <1>2, <1>3, <1>5, <1>6, <1>11

\* A turn of the loop of calcDepth().
LEMMA CalcDepthStep ==
    ASSUME CompressInv, DepthInv, phase = "depth", NEW b \in Boxes, CalcDepth(b)
    PROVE  DepthInv'
<1> DEFINE s     == box[b].start
           C     == Counted \cup {b}
           A(t)  == AliveAt(t) \cap C
           new   == depth'
           all   == depth.held \cup {b}
           freed == Released(all, slot[b].start)
<1>1. /\ b \in Boxes \ Counted /\ Counted' = C
      /\ \A c \in Counted : box[c].start <= s
      /\ \A c \in Boxes \ Counted : s <= box[c].start
      /\ depth.held \in SUBSET Counted
      /\ new.held = A(s)
  BY HeldStep DEF DepthInv
<1>2. /\ TypeOK /\ box' = box
      /\ new = [held    |-> all \ freed,
                size    |-> depth.size + box[b].size - Sum(freed),
                top     |-> depth.top + 1 - Cardinality(freed),
                maxSize |-> Larger(depth.maxSize, depth.size + box[b].size - Sum(freed)),
                maxTop  |-> Larger(depth.maxTop, depth.top + 1 - Cardinality(freed))]
  BY DEF CalcDepth, CompressInv
<1>3. C \in SUBSET Boxes /\ freed \in SUBSET all /\ all \in SUBSET Boxes /\ all \ freed = A(s)
  <2>1. Counted \subseteq Boxes
    BY <1>2 DEF Counted
  <2>2. new.held = all \ freed
    BY <1>2
  <2> QED
    BY <1>1, <2>1, <2>2 DEF Released
<1>4. /\ \A c \in Boxes : box[c].start \in Nat /\ box[c].finish \in Nat
      /\ box[b].size \in Nat
      /\ s \in Nat /\ b \in A(s)
  BY <1>2, BoxTypes DEF CompressInv, BoxesLive, AliveAt
<1>5. depth.size + box[b].size - Sum(freed) = Sum(A(s))
  <2>1. depth.held \in SUBSET Boxes /\ b \in Boxes \ depth.held
    BY <1>1, <1>3
  <2>2. Sum(all) = depth.size + box[b].size
    BY <1>2, <2>1, SumFacts DEF DepthInv
  <2>3. Sum(all) = Sum(freed) + Sum(A(s))
    BY <1>2, <1>3, SumFacts, ZenonT(60)
  <2>4. A(s) \in SUBSET Boxes /\ freed \in SUBSET Boxes
    BY <1>3
  <2>5. Sum(freed) \in Nat /\ Sum(A(s)) \in Nat /\ depth.size \in Nat
    BY <1>2, <2>4, SumFacts DEF DepthInv, DepthTypeOK
  <2> HIDE DEF A, all, freed
  <2> QED
    BY <1>4, <2>2, <2>3, <2>5
<1>6. depth.top + 1 - Cardinality(freed) = Cardinality(A(s))
  <2>1. depth.held \in SUBSET Boxes /\ b \in Boxes \ depth.held
    BY <1>1, <1>3
  <2>2. Cardinality(all) = depth.top + 1
    BY <2>1, CountFacts DEF DepthInv
  <2>3. Cardinality(all) = Cardinality(freed) + Cardinality(A(s))
    BY <1>3, CountFacts
  <2>4. A(s) \in SUBSET Boxes /\ freed \in SUBSET Boxes
    BY <1>3
  <2>5. Cardinality(freed) \in Nat /\ Cardinality(A(s)) \in Nat /\ depth.top \in Nat
    BY <2>4, CountFacts DEF DepthInv, DepthTypeOK
  <2> HIDE DEF A, all, freed
  <2> QED
    BY <2>2, <2>3, <2>5
<1> HIDE DEF new, all, freed
<1>7. /\ new.held = A(s) /\ new.size = Sum(A(s)) /\ new.top = Cardinality(A(s))
      /\ new.maxSize = Larger(depth.maxSize, Sum(A(s)))
      /\ new.maxTop = Larger(depth.maxTop, Cardinality(A(s)))
      /\ new = [held |-> new.held, size |-> new.size, top |-> new.top,
                maxSize |-> new.maxSize, maxTop |-> new.maxTop]
  BY <1>1, <1>2, <1>5, <1>6
<1>8. /\ A(s) \in SUBSET Boxes /\ A(s) \in SUBSET AliveAt(s) /\ AliveAt(s) \in SUBSET Boxes
      /\ Sum(A(s)) \in Nat /\ Sum(AliveAt(s)) \in Nat /\ Sum(A(s)) <= Sum(AliveAt(s))
      /\ Cardinality(A(s)) \in Nat /\ Cardinality(AliveAt(s)) \in Nat
      /\ Cardinality(A(s)) <= Cardinality(AliveAt(s))
  <2>1. A(s) \in SUBSET Boxes /\ A(s) \in SUBSET AliveAt(s) /\ AliveAt(s) \in SUBSET Boxes
    BY DEF AliveAt
  <2> HIDE DEF A
  <2> QED
    BY <1>2, <2>1, SumFacts, CountFacts
<1>9. depth.maxSize \in Nat \cup {-1} /\ depth.maxTop \in Nat \cup {-1}
  BY DEF DepthInv, DepthTypeOK
<1>10. /\ new.maxSize \in Nat /\ depth.maxSize <= new.maxSize /\ Sum(A(s)) <= new.maxSize
       /\ new.maxSize = depth.maxSize \/ new.maxSize = Sum(A(s))
       /\ new.maxTop \in Nat /\ depth.maxTop <= new.maxTop /\ Cardinality(A(s)) <= new.maxTop
       /\ new.maxTop = depth.maxTop \/ new.maxTop = Cardinality(A(s))
  <2> HIDE DEF A
  <2> QED
    BY <1>7, <1>8, <1>9 DEF Larger
\* At an earlier start nothing changes, and at that of b it is what is held.
<1>11. ASSUME NEW c \in C
       PROVE  \/ A(box[c].start) = A(s)
              \/ c \in Counted /\ A(box[c].start) = CountedAt(box[c].start)
  <2>1. CASE box[c].start = s
    BY <2>1
  <2>2. CASE box[c].start # s
    <3>1. c \in Counted /\ c \in Boxes /\ box[c].start < s
      BY <1>1, <1>3, <1>4, <1>11, <2>2
    <3>2. b \notin AliveAt(box[c].start)
      BY <1>4, <3>1 DEF AliveAt
    <3> QED
      BY <3>1, <3>2 DEF CountedAt
  <2> QED
    BY <2>1, <2>2
<1>12. /\ \A c \in C : Sum(A(box[c].start)) <= new.maxSize
       /\ \E c \in C : new.maxSize <= Sum(AliveAt(box[c].start))
  <2>1. ASSUME NEW c \in C
        PROVE  Sum(A(box[c].start)) <= new.maxSize
    <3>1. CASE A(box[c].start) = A(s)
      BY <1>10, <3>1
    <3>2. CASE c \in Counted /\ A(box[c].start) = CountedAt(box[c].start)
      <4>1. Sum(A(box[c].start)) <= depth.maxSize
        BY <3>2 DEF DepthInv, SizesBounded
      <4>2. A(box[c].start) \in SUBSET Boxes
        BY <1>3
      <4>3. Sum(A(box[c].start)) \in Nat
        BY <1>2, <4>2, SumFacts
      <4> HIDE DEF A
      <4> QED
        BY <1>9, <1>10, <4>1, <4>3
    <3> QED
      BY <1>11, <2>1, <3>1, <3>2
  <2>2. \E c \in C : new.maxSize <= Sum(AliveAt(box[c].start))
    <3>1. CASE new.maxSize = Sum(A(s))
      BY <1>8, <3>1
    <3>2. CASE new.maxSize = depth.maxSize /\ Counted # {}
      BY <3>2 DEF DepthInv, SizesBounded
    <3>3. CASE new.maxSize = depth.maxSize /\ Counted = {}
      <4>1. depth.maxSize = -1
        BY <3>3 DEF DepthInv
      <4> QED
        BY <1>10, <3>3, <4>1
    <3> QED
      BY <1>10, <3>1, <3>2, <3>3
  <2> QED
    BY <2>1, <2>2
<1>13. /\ \A c \in C : Cardinality(A(box[c].start)) <= new.maxTop
       /\ \E c \in C : new.maxTop <= Cardinality(AliveAt(box[c].start))
  <2>1. ASSUME NEW c \in C
        PROVE  Cardinality(A(box[c].start)) <= new.maxTop
    <3>1. CASE A(box[c].start) = A(s)
      BY <1>10, <3>1
    <3>2. CASE c \in Counted /\ A(box[c].start) = CountedAt(box[c].start)
      <4>1. Cardinality(A(box[c].start)) <= depth.maxTop
        BY <3>2 DEF DepthInv, TopsBounded
      <4>2. A(box[c].start) \in SUBSET Boxes
        BY <1>3
      <4>3. Cardinality(A(box[c].start)) \in Nat
        BY <4>2, CountFacts
      <4> HIDE DEF A
      <4> QED
        BY <1>9, <1>10, <4>1, <4>3
    <3> QED
      BY <1>11, <2>1, <3>1, <3>2
  <2>2. \E c \in C : new.maxTop <= Cardinality(AliveAt(box[c].start))
    <3>1. CASE new.maxTop = Cardinality(A(s))
      BY <1>8, <3>1
    <3>2. CASE new.maxTop = depth.maxTop /\ Counted # {}
      BY <3>2 DEF DepthInv, TopsBounded
    <3>3. CASE new.maxTop = depth.maxTop /\ Counted = {}
      <4>1. depth.maxTop = -1
        BY <3>3 DEF DepthInv
      <4> QED
        BY <1>10, <3>3, <4>1
    <3> QED
      BY <1>10, <3>1, <3>2, <3>3
  <2> QED
    BY <2>1, <2>2
<1>14. /\ \A t : CountedAt(t)' = A(t) /\ AliveAt(t)' = AliveAt(t)
       /\ \A S : Sum(S)' = Sum(S)
  BY <1>1, <1>2, SumKept DEF CountedAt, AliveAt
<1>15. SizesBounded' /\ TopsBounded'
  BY <1>1, <1>2, <1>12, <1>13, <1>14 DEF SizesBounded, TopsBounded, new
<1>16. HeldIsAlive'
  <2>1. /\ b \in C /\ \A c \in C : box[c].start <= box[b].start
        /\ \A c \in Boxes \ C : box[b].start <= box[c].start
    BY <1>1, <1>4
  <2>2. C # {} /\ depth'.held = A(box[b].start)
    BY <2>1, <1>7 DEF new
  <2> QED
    BY <1>1, <1>2, <1>14, <2>1, <2>2 DEF HeldIsAlive
<1>17. DepthTypeOK'
  BY <1>7, <1>8, <1>10 DEF DepthTypeOK, new
<1>18. (depth.size = Sum(depth.held))' /\ depth'.top = Cardinality(depth'.held)
  <2>1. depth'.size = Sum(A(s)) /\ depth'.held = A(s) /\ depth'.top = Cardinality(A(s))
    BY <1>7 DEF new
  <2>2. (Sum(depth.held))' = Sum(A(s))
    BY <1>2, <2>1 DEF Sum, MapThenSumSet, MapThenFoldSet
  <2> QED
    BY <2>1, <2>2
<1>19. Counted' # {}
  BY <1>1
<1> QED
  BY <1>15, <1>16, <1>17, <1>18, <1>19 DEF DepthInv

-----------------------------------------------------------------------------
\* The steps of solve().
LEMMA PickStep ==
    ASSUME Inv, NEW b \in Boxes, Pick(b)
    PROVE  Inv'
<1>1. /\ phase = "place" /\ b \in left /\ placing' = b /\ id' = 0
      /\ UNCHANGED <<box, phase, left, ts, slot, depth, offset, required>>
  BY DEF Pick, FromBottom
<1>2. TypeOK'
  BY <1>1 DEF Inv, CompressInv, TypeOK
<1>3. CompressInv'
  BY <1>1, <1>2, RestStep DEF Inv
<1>4. PlacingOK' /\ LiftedEnough' /\ DoneIsAll'
  BY <1>1 DEF PlacingOK, LiftedEnough, DoneIsAll
<1>5. BoxesDoNotOverlap' /\ RequiredIsTop'
  BY <1>1 DEF Inv, SolveInv, BoxesDoNotOverlap, RequiredIsTop, Placed, AliveTogether
<1> QED
  BY <1>3, <1>4, <1>5 DEF Inv, SolveInv

LEMMA PopUpStep ==
    ASSUME Inv, PopUp
    PROVE  Inv'
<1>1. /\ placing # None
      /\ UNCHANGED <<box, phase, left, ts, slot, depth, placing, offset, required>>
  BY DEF PopUp
<1> PICK d \in InSlots(placing) : Meet(id, placing, d) /\ id' = offset[d] + box[d].size
  BY DEF PopUp
<1>2. /\ placing \in Boxes /\ d \in Boxes /\ id \in Nat /\ phase = "place"
      /\ \A c \in Boxes : offset[c] \in Nat /\ box[c].size \in Nat
      /\ TypeOK
  BY <1>1, BoxTypes DEF Inv, CompressInv, TypeOK, SolveInv, PlacingOK, InSlots
<1>3. TypeOK'
  <2>1. id' \in Nat
    BY <1>2
  <2> QED
    BY <1>1, <1>2, <2>1 DEF TypeOK
<1>4. CompressInv'
  BY <1>1, <1>2, <1>3, RestStep DEF Inv
<1>5. LiftedEnough'
  <2> SUFFICES ASSUME NEW i \in 0..id' - 1
               PROVE  \E c \in InSlots(placing) : Meet(i, placing, c)
    BY <1>1 DEF LiftedEnough, InSlots, SlotsOf, Meet
  <2>1. CASE i < id
    <3>1. i \in 0..id - 1
      BY <1>2, <2>1
    <3> QED
      BY <1>1, <3>1 DEF Inv, SolveInv, LiftedEnough
  <2>2. CASE ~(i < id)
    <3>1. Meet(i, placing, d)
      BY <1>2, <2>2 DEF Meet
    <3> QED
      BY <3>1
  <2> QED
    BY <2>1, <2>2
<1>6. PlacingOK' /\ DoneIsAll' /\ BoxesDoNotOverlap' /\ RequiredIsTop'
  BY <1>1 DEF Inv, SolveInv, PlacingOK, DoneIsAll, BoxesDoNotOverlap, RequiredIsTop, Placed, AliveTogether
<1> QED
  BY <1>4, <1>5, <1>6 DEF Inv, SolveInv

LEMMA StoreStep ==
    ASSUME Inv, Store
    PROVE  Inv'
<1> DEFINE p == placing
<1>1. /\ p # None /\ placing' = None
      /\ \A c \in InSlots(p) : ~Meet(id, p, c)
      /\ offset' = [offset EXCEPT ![p] = id]
      /\ required' = Larger(required, id + box[p].size)
      /\ left' = left \ {p}
      /\ phase' = IF left' = {} THEN "done" ELSE phase
      /\ UNCHANGED <<box, ts, slot, depth, id>>
  BY DEF Store, HighestTop
<1>2. /\ p \in Boxes /\ p \in left /\ left \subseteq Boxes /\ phase = "place"
      /\ id \in Nat /\ required \in Nat /\ offset \in [Boxes -> Nat]
      /\ \A c \in Boxes : offset[c] \in Nat /\ box[c].size \in Nat \ {0}
  BY <1>1, BoxTypes DEF Inv, CompressInv, TypeOK, SolveInv, PlacingOK
<1>3. Placed = Boxes \ left /\ Placed' = Placed \cup {p}
  BY <1>1, <1>2 DEF Placed
<1>4. /\ offset'[p] = id
      /\ \A c \in Placed : offset'[c] = offset[c]
  BY <1>1, <1>2, <1>3
<1>5. /\ required' \in Nat /\ required <= required' /\ id + box[p].size <= required'
      /\ required' = required \/ required' = id + box[p].size
  BY <1>1, <1>2 DEF Larger
<1>6. TypeOK'
  <2>1. offset' \in [Boxes -> Nat] /\ left' \subseteq Boxes
        /\ phase' \in {"compress", "depth", "place", "done"} /\ placing' \in Boxes \cup {None}
    BY <1>1, <1>2
  <2> QED
    BY <1>1, <1>5, <2>1 DEF Inv, CompressInv, TypeOK
<1>7. CompressInv'
  <2>1. phase' # "compress"
    BY <1>1, <1>2
  <2> QED
    BY <1>1, <1>2, <1>6, <2>1, RestStep DEF Inv
<1>8. PlacingOK' /\ LiftedEnough' /\ DoneIsAll'
  BY <1>1, <1>2 DEF PlacingOK, LiftedEnough, DoneIsAll
<1>9. ASSUME NEW c \in Placed, AliveTogether(p, c)
      PROVE  id + box[p].size <= offset[c] \/ offset[c] + box[c].size <= id
  <2>1. c \in Boxes
    BY <1>3
  <2>2. SlotsOf(c) \cap SlotsOf(p) # {}
    BY <1>2, <1>9, <2>1, MeetingsKept DEF Inv
  <2>3. c \in InSlots(p)
    BY <1>3, <2>1, <2>2 DEF InSlots
  <2>4. ~Meet(id, p, c)
    BY <1>1, <2>3
  <2> QED
    BY <1>2, <2>1, <2>4 DEF Meet
<1>10. BoxesDoNotOverlap'
  <2> SUFFICES ASSUME NEW b \in Placed', NEW c \in Placed', b # c, AliveTogether(b, c)
               PROVE  \/ offset'[b] + box[b].size <= offset'[c]
                      \/ offset'[c] + box[c].size <= offset'[b]
    BY <1>1 DEF BoxesDoNotOverlap, AliveTogether
  <2>1. CASE b \in Placed /\ c \in Placed
    BY <1>4, <2>1 DEF Inv, SolveInv, BoxesDoNotOverlap
  <2>2. CASE b = p /\ c \in Placed
    BY <1>4, <1>9, <2>2
  <2>3. CASE c = p /\ b \in Placed
    <3>1. AliveTogether(p, b)
      BY <2>3 DEF AliveTogether
    <3> QED
      BY <1>4, <1>9, <2>3, <3>1
  <2> QED
    BY <1>3, <2>1, <2>2, <2>3
<1>11. RequiredIsTop'
  <2>1. \A c \in Placed : c \in Boxes /\ offset[c] + box[c].size <= required
    BY <1>3 DEF Inv, SolveInv, RequiredIsTop
  <2>2. \A c \in Placed' : offset'[c] + box[c].size <= required'
    BY <1>2, <1>3, <1>4, <1>5, <2>1
  <2>3. \E c \in Placed' : offset'[c] + box[c].size = required'
    <3>1. CASE required' = id + box[p].size
      BY <1>3, <1>4, <3>1
    <3>2. CASE required' = required /\ Placed # {}
      <4> PICK c \in Placed : offset[c] + box[c].size = required
        BY <3>2 DEF Inv, SolveInv, RequiredIsTop
      <4> QED
        BY <1>3, <1>4, <3>2
    <3>3. CASE required' = required /\ Placed = {}
      <4>1. required = 0
        BY <3>3 DEF Inv, SolveInv, RequiredIsTop
      <4> QED
        BY <1>2, <1>5, <3>3, <4>1
    <3> QED
      BY <1>5, <3>1, <3>2, <3>3
  <2> QED
    BY <1>1, <1>3, <2>2, <2>3 DEF RequiredIsTop
<1> QED
  BY <1>7, <1>8, <1>10, <1>11 DEF Inv, SolveInv

-----------------------------------------------------------------------------
\* Every step keeps the invariant.
LEMMA NextInv == Inv /\ [Next]_vars => Inv'
<1> SUFFICES ASSUME Inv, [Next]_vars PROVE Inv'
  OBVIOUS
<1>1. ASSUME NEW b \in Boxes, Compress(b) PROVE Inv'
  <2>1. CompressInv'
    BY <1>1, CompressStep DEF Inv
  <2>2. /\ phase = "compress" /\ phase' \in {"compress", "depth"}
        /\ placing' = placing /\ required' = required
    BY <1>1 DEF Compress, Turn
  <2>3. placing = None /\ Placed = {} /\ Placed' = {} /\ required = 0
    BY <2>2 DEF Placed, Inv, SolveInv, PlacingOK, RequiredIsTop
  <2>4. SolveInv'
    BY <2>2, <2>3 DEF SolveInv, PlacingOK, LiftedEnough, BoxesDoNotOverlap, RequiredIsTop, DoneIsAll
  <2> QED
    BY <2>1, <2>4 DEF Inv
<1>2. ASSUME NEW b \in Boxes, CalcDepth(b) PROVE Inv'
  <2>1. /\ phase = "depth" /\ IsNextByTime(b) /\ Turn(b, "place")
        /\ UNCHANGED <<box, ts, slot, placing, id, offset, required>>
    BY <1>2 DEF CalcDepth
  <2>2. phase' = "depth" \/ (phase' = "place" /\ left' = Boxes)
    BY <2>1 DEF Turn
  <2>3. placing = None /\ Placed = {} /\ Placed' = {} /\ required = 0
    BY <2>1, <2>2 DEF Placed, Inv, SolveInv, PlacingOK, RequiredIsTop
  <2>4. SolveInv'
    BY <2>1, <2>2, <2>3 DEF SolveInv, PlacingOK, LiftedEnough, BoxesDoNotOverlap, RequiredIsTop, DoneIsAll
  <2>5. left' \subseteq Boxes
    BY <2>1 DEF Turn, Inv, CompressInv, TypeOK
  <2>6. TypeOK'
    BY <2>1, <2>2, <2>5 DEF Inv, CompressInv, TypeOK
  <2>7. CompressInv'
    BY <2>1, <2>2, <2>6, RestStep DEF Inv
  <2> QED
    BY <2>4, <2>7 DEF Inv
<1>3. CASE UNCHANGED vars
  <2>1. TypeOK' /\ BoxesLive' /\ CursorsExact' /\ InOrder' /\ Renumbered'
    BY <1>3, NumbersKept DEF vars, Inv, CompressInv, TypeOK, BoxesLive, CursorsExact, InOrder,
                Renumbered, Seen, Skipped, Unused
  <2>2. SolveInv'
    BY <1>3 DEF vars, Inv, SolveInv, PlacingOK, LiftedEnough, BoxesDoNotOverlap, RequiredIsTop,
                DoneIsAll, Placed, AliveTogether, InSlots, SlotsOf, Meet
  <2> QED
    BY <2>1, <2>2 DEF Inv, CompressInv
<1> QED
  BY <1>1, <1>2, <1>3, PickStep, PopUpStep, StoreStep DEF Next

\* The inductive invariant of the solver, from which the theorems below follow.
THEOREM SolverInvariant == Spec => []Inv
<1> QED
  BY InitInv, NextInv, PTL DEF Spec

\* The types of all variables: the renumbered times and the places are never
\* negative, and the cursors never skip more than there is.
THEOREM SolverTypeCorrect == Spec => []TypeOK
<1>1. Inv => TypeOK
  BY DEF Inv, CompressInv
<1> QED
  BY <1>1, SolverInvariant, PTL

\* solve() never indexes a slot that it has not made.
THEOREM SolverSlotsExist == Spec => []SlotsExist
<1>1. Inv => SlotsExist
  BY InvSlotsExist DEF Inv
<1> QED
  BY <1>1, SolverInvariant, PTL

\* Tensors that are alive at one time never share memory.
THEOREM SolverNoOverlap == Spec => []BoxesDoNotOverlap
<1>1. Inv => BoxesDoNotOverlap
  BY DEF Inv, SolveInv
<1> QED
  BY <1>1, SolverInvariant, PTL

\* The size that solve() returns is exactly what the boxes need.
THEOREM SolverBlobHoldsAll == Spec => []BlobHoldsAll
<1>1. Inv => BlobHoldsAll
  <2> SUFFICES ASSUME Inv, phase = "done"
               PROVE  /\ \A b \in Boxes : offset[b] + box[b].size <= required
                      /\ \E b \in Boxes : offset[b] + box[b].size = required
    BY DEF BlobHoldsAll
  <2>1. Placed = Boxes /\ Boxes # {}
    BY SolverAssumption DEF Placed
  <2> QED
    BY <2>1 DEF Inv, SolveInv, RequiredIsTop
<1> QED
  BY <1>1, SolverInvariant, PTL

\* A box is stored in the lowest place that is free.
THEOREM SolverLowestPlace == Spec => LowestPlace
<1>1. ASSUME Inv, [Next]_vars, NEW b \in Boxes, placing = b, placing' = None, NEW i \in 0..offset'[b] - 1
      PROVE  \E c \in InSlots(b) : Meet(i, b, c)
  <2>1. placing # None
    BY <1>1, SolverAssumption
  <2>2. Store
    BY <1>1, <2>1, SolverAssumption DEF Next, Compress, CalcDepth, Pick, PopUp, vars
  <2>3. offset'[b] = id
    BY <1>1, <2>2 DEF Store, Inv, CompressInv, TypeOK
  <2> QED
    BY <1>1, <2>1, <2>3 DEF Inv, SolveInv, LiftedEnough
<1>2. Inv /\ [Next]_vars =>
        [\A b \in Boxes : placing = b /\ placing' = None =>
          \A i \in 0..offset'[b] - 1 : \E c \in InSlots(b) : Meet(i, b, c)]_vars
  BY <1>1
<1> QED
  BY <1>2, SolverInvariant, PTL DEF Spec, LowestPlace

-----------------------------------------------------------------------------
\* The other steps leave the numbers alone.
LEMMA DepthKept ==
    ASSUME DepthInv, UNCHANGED <<box, depth>>, Counted' = Counted
    PROVE  DepthInv'
<1>1. /\ \A t : CountedAt(t)' = CountedAt(t) /\ AliveAt(t)' = AliveAt(t)
      /\ \A S : Sum(S)' = Sum(S)
  BY SumKept DEF CountedAt, AliveAt
<1>2. (Sum(depth.held))' = Sum(depth.held)
  BY DEF Sum, MapThenSumSet, MapThenFoldSet
<1>3. HeldIsAlive'
  BY <1>1 DEF DepthInv, HeldIsAlive
<1>4. SizesBounded' /\ TopsBounded'
  BY <1>1 DEF DepthInv, SizesBounded, TopsBounded
<1>5. DepthTypeOK' /\ (Counted' = {} => depth'.maxSize = -1 /\ depth'.maxTop = -1)
  BY DEF DepthInv, DepthTypeOK
<1> QED
  BY <1>2, <1>3, <1>4, <1>5 DEF DepthInv

LEMMA InitDepth == Init => DepthInv
<1> SUFFICES ASSUME Init PROVE DepthInv
  OBVIOUS
<1>1. /\ depth = [held |-> {}, size |-> 0, top |-> 0, maxSize |-> -1, maxTop |-> -1]
      /\ Counted = {} /\ TypeOK
  BY InitInv DEF Init, Counted, Inv, CompressInv
<1>2. Sum({}) = 0 /\ Cardinality({}) = 0
  <2>1. IsFiniteSet({}) /\ Cardinality({}) = 0
    BY FS_EmptySet
  <2>2. Sum({}) = Total(SizeOf, {})
    BY SumIsTotal
  <2>3. Total(SizeOf, {}) = 0
    BY <2>1, TotalAt
  <2> QED
    BY <2>1, <2>2, <2>3
<1> QED
  BY <1>1, <1>2 DEF DepthInv, DepthTypeOK, HeldIsAlive, SizesBounded, TopsBounded

LEMMA NextDepth == Inv /\ DepthInv /\ [Next]_vars => DepthInv'
<1> SUFFICES ASSUME Inv, DepthInv, [Next]_vars PROVE DepthInv'
  OBVIOUS
<1>1. ASSUME NEW b \in Boxes, Compress(b) PROVE DepthInv'
  <2>1. /\ phase = "compress"
        /\ phase' = "compress" \/ (phase' = "depth" /\ left' = Boxes)
        /\ UNCHANGED <<box, depth>>
    BY <1>1 DEF Compress, Turn
  <2>2. Counted' = Counted
    BY <2>1 DEF Counted
  <2> QED
    BY <2>1, <2>2, DepthKept
<1>2. ASSUME NEW b \in Boxes, CalcDepth(b) PROVE DepthInv'
  <2>1. phase = "depth" /\ CompressInv
    BY <1>2 DEF CalcDepth, Inv
  <2> QED
    BY <1>2, <2>1, CalcDepthStep
<1>3. CASE (\E b \in Boxes : Pick(b)) \/ PopUp \/ Store
  <2>1. phase = "place" /\ phase' \in {"place", "done"} /\ UNCHANGED <<box, depth>>
    BY <1>3 DEF Pick, PopUp, Store, Inv, SolveInv, PlacingOK
  <2>2. Counted' = Counted
    BY <2>1 DEF Counted
  <2> QED
    BY <2>1, <2>2, DepthKept
<1>4. CASE UNCHANGED vars
  <2>1. Counted' = Counted /\ UNCHANGED <<box, depth>>
    BY <1>4 DEF vars, Counted
  <2> QED
    BY <2>1, DepthKept
<1> QED
  BY <1>1, <1>2, <1>3, <1>4 DEF Next

\* The greatest of a set of numbers is the one that is not exceeded.
LEMMA MaxIs ==
    ASSUME NEW S \in SUBSET Int, NEW m \in S, \A n \in S : n <= m
    PROVE  Max(S) = m
<1>1. \A x \in S : (\A y \in S : x >= y) => x = m
  OBVIOUS
<1>2. \E x \in S : \A y \in S : x >= y
  OBVIOUS
<1> QED
  BY <1>1, <1>2 DEF Max

\* maxDepth() and maxTopDepth() are the most memory and the most boxes that
\* are alive at one time, and the count that calcDepth() keeps is positive
\* after each box: the assertion of the code never fails.
THEOREM SolverDepthExact == Spec => []DepthIsExact
<1>1. Inv /\ DepthInv => DepthIsExact
  <2> SUFFICES ASSUME Inv, DepthInv PROVE DepthIsExact
    OBVIOUS
  <2> DEFINE starts == {box[b].start : b \in Boxes}
             sizes  == {Sum(AliveAt(t)) : t \in starts}
             tops   == {Cardinality(AliveAt(t)) : t \in starts}
  <2>1. TypeOK /\ BoxesLive /\ \A t : AliveAt(t) \in SUBSET Boxes
    BY DEF Inv, CompressInv, AliveAt
  <2>2. depth.maxTop # -1 => depth.top > 0
    <3> SUFFICES ASSUME Counted # {} PROVE depth.top > 0
      BY DEF DepthInv
    <3>1. PICK b \in Counted : depth.held = CountedAt(box[b].start)
      BY DEF DepthInv, HeldIsAlive
    <3>2. b \in Boxes
      BY DEF Counted
    <3>3. box[b].start <= box[b].start /\ box[b].start <= box[b].finish
      BY <2>1, <3>2, BoxTypes DEF BoxesLive
    <3>4. b \in depth.held /\ depth.held \in SUBSET Boxes
      BY <3>1, <3>2, <3>3 DEF CountedAt, AliveAt
    <3>5. Cardinality(depth.held) > 0
      BY <3>4, CountFacts
    <3> QED
      BY <3>5 DEF DepthInv
  <2>3. ASSUME phase \in {"place", "done"}
        PROVE  depth.maxSize = Max(sizes) /\ depth.maxTop = Max(tops)
    <3>1. Counted = Boxes /\ Boxes # {}
      BY <2>3, SolverAssumption DEF Counted
    <3>2. \A t : CountedAt(t) = AliveAt(t)
      BY <2>1, <3>1 DEF CountedAt
    <3>3. \A t : Sum(AliveAt(t)) \in Nat /\ Cardinality(AliveAt(t)) \in Nat
      BY <2>1, SumFacts, CountFacts
    <3>4. depth.maxSize \in Nat \cup {-1} /\ depth.maxTop \in Nat \cup {-1}
      BY DEF DepthInv, DepthTypeOK
    <3>5. depth.maxSize = Max(sizes)
      <4>1. \A n \in sizes : n <= depth.maxSize
        BY <3>1, <3>2 DEF DepthInv, SizesBounded
      <4>2. PICK b \in Boxes : depth.maxSize <= Sum(AliveAt(box[b].start))
        BY <3>1 DEF DepthInv, SizesBounded
      <4>3. Sum(AliveAt(box[b].start)) \in sizes
        OBVIOUS
      <4>4. sizes \in SUBSET Int
        BY <3>3
      <4> HIDE DEF sizes
      <4>5. depth.maxSize = Sum(AliveAt(box[b].start))
        BY <3>3, <3>4, <4>1, <4>2, <4>3
      <4> QED
        BY <4>1, <4>3, <4>4, <4>5, MaxIs
    <3>6. depth.maxTop = Max(tops)
      <4>1. \A n \in tops : n <= depth.maxTop
        BY <3>1, <3>2 DEF DepthInv, TopsBounded
      <4>2. PICK b \in Boxes : depth.maxTop <= Cardinality(AliveAt(box[b].start))
        BY <3>1 DEF DepthInv, TopsBounded
      <4>3. Cardinality(AliveAt(box[b].start)) \in tops
        OBVIOUS
      <4>4. tops \in SUBSET Int
        BY <3>3
      <4> HIDE DEF tops
      <4>5. depth.maxTop = Cardinality(AliveAt(box[b].start))
        BY <3>3, <3>4, <4>1, <4>2, <4>3
      <4> QED
        BY <4>1, <4>3, <4>4, <4>5, MaxIs
    <3> QED
      BY <3>5, <3>6
  <2> QED
    BY <2>2, <2>3 DEF DepthIsExact
<1> QED
  BY <1>1, InitDepth, NextDepth, SolverInvariant, PTL DEF Spec

-----------------------------------------------------------------------------
(* Termination.  The library's rules for liveness are out of reach, but    *)
(* what SolveReturns rests on is not: each step goes forward in a          *)
(* well-founded order, and short of the end there is always a step.        *)

PhaseNumber == [p \in {"compress", "depth", "place", "done"} |->
                  CASE p = "compress" -> 1 [] p = "depth" -> 2 [] p = "place" -> 3 [] OTHER -> 4]

\* A loop ends, or a box is done with, or one is picked, or it is lifted, and
\* never above all others.
StepsForward ==
    [][\/ PhaseNumber[phase] < PhaseNumber[phase']
       \/ phase' = phase /\ left' \subseteq left /\ left' # left
       \/ UNCHANGED <<phase, left>> /\ placing = None /\ placing' # None
       \/ UNCHANGED <<phase, left, placing>> /\ id < id' /\ id' <= required]_vars

\* The guards of the loops: a box that comes next in time, one of the biggest,
\* and of a box that is being lifted nothing is asked.
CanStep == \/ phase \in {"compress", "depth"} /\ \E b \in Boxes : IsNextByTime(b)
           \/ phase = "place" /\ placing = None
                /\ \E b \in left : \A c \in left : box[b].size >= box[c].size
           \/ placing # None

NeverStuck == phase # "done" => CanStep

\* A set of naturals has a least element.
LEMMA LeastNat ==
    ASSUME NEW S \in SUBSET Nat, S # {}
    PROVE  \E m \in S : \A n \in S : m <= n
<1>1. PICK m \in S : \A n \in S : ~(<<n, m>> \in OpToRel(<, Nat))
  BY NatLessThanWellFounded, WFMin
<1>2. \A n \in S : ~(n < m)
  BY <1>1 DEF OpToRel
<1> QED
  BY <1>2

\* Some box comes first in time, ...
LEMMA NextInTime ==
    ASSUME TypeOK, left # {}
    PROVE  \E b \in Boxes : IsNextByTime(b)
<1>1. left \subseteq Boxes /\ \A b \in left : box[b].start \in Nat /\ box[b].finish \in Nat
  BY BoxTypes DEF TypeOK
<1>2. PICK s \in {box[b].start : b \in left} : \A n \in {box[b].start : b \in left} : s <= n
  BY <1>1, LeastNat
<1> DEFINE first == {b \in left : box[b].start = s}
<1>3. PICK f \in {box[b].finish : b \in first} : \A n \in {box[b].finish : b \in first} : f <= n
  BY <1>1, LeastNat, ZenonT(60)
<1>4. PICK b \in first : box[b].finish = f
  OBVIOUS
<1>5. IsNextByTime(b)
  <2> SUFFICES ASSUME NEW c \in left
               PROVE  \/ box[b].start < box[c].start
                      \/ box[b].start = box[c].start /\ box[b].finish <= box[c].finish
    BY <1>4 DEF IsNextByTime
  <2>1. CASE c \in first
    BY <1>3, <1>4, <2>1
  <2>2. CASE c \notin first
    BY <1>1, <1>2, <1>4, <2>2
  <2> QED
    BY <2>1, <2>2
<1> QED
  BY <1>1, <1>4, <1>5

\* ... and some box is the biggest: there are finitely many.
LEMMA BiggestBox ==
    ASSUME TypeOK, left # {}
    PROVE  \E b \in left : \A c \in left : box[b].size >= box[c].size
<1> DEFINE all == Sum(Boxes)
<1>1. \A b \in left : b \in Boxes /\ box[b].size \in Nat
  BY BoxTypes DEF TypeOK
<1>2. all \in Nat /\ \A b \in left : box[b].size <= all
  <2>1. all \in Nat
    BY SumFacts
  <2>2. ASSUME NEW b \in left PROVE box[b].size <= all
    <3> DEFINE rest == Boxes \ {b}
    <3>1. rest \in SUBSET Boxes /\ b \in Boxes \ rest /\ rest \cup {b} = Boxes
      BY <1>1
    <3> HIDE DEF rest
    <3>2. Sum(rest) \in Nat /\ Sum(rest \cup {b}) = Sum(rest) + box[b].size
      BY <3>1, SumFacts
    <3>3. Sum(rest \cup {b}) = all
      BY <3>1
    <3> HIDE DEF all
    <3> QED
      BY <1>1, <3>2, <3>3
  <2> QED
    BY <2>1, <2>2
<1> HIDE DEF all
<1>3. PICK r \in {all - box[b].size : b \in left} : \A n \in {all - box[b].size : b \in left} : r <= n
  <2>1. {all - box[b].size : b \in left} \in SUBSET Nat
    BY <1>1, <1>2
  <2> QED
    BY <2>1, LeastNat, ZenonT(60)
<1>4. PICK b \in left : r = all - box[b].size
  OBVIOUS
<1>5. \A c \in left : all - box[b].size <= all - box[c].size
  BY <1>3, <1>4
<1> QED
  BY <1>1, <1>2, <1>5

\* The boxes of a loop run out exactly at its end.
LeftInv == phase # "done" => left # {}

LEMMA LeftNext == Inv /\ LeftInv /\ [Next]_vars => LeftInv'
<1> SUFFICES ASSUME Inv, LeftInv, [Next]_vars PROVE LeftInv'
  OBVIOUS
<1>1. ASSUME NEW b \in left, NEW p, Turn(b, p) PROVE left' # {}
  BY <1>1, SolverAssumption DEF Turn
<1>2. ASSUME NEW b \in Boxes, Compress(b) \/ CalcDepth(b) PROVE LeftInv'
  BY <1>1, <1>2 DEF Compress, CalcDepth, IsNextByTime, LeftInv
<1>3. ASSUME NEW b \in Boxes, Pick(b) PROVE LeftInv'
  BY <1>3 DEF Pick, LeftInv
<1>4. CASE PopUp \/ Store
  BY <1>4 DEF PopUp, Store, LeftInv
<1>5. CASE UNCHANGED vars
  BY <1>5 DEF vars, LeftInv
<1> QED
  BY <1>2, <1>3, <1>4, <1>5 DEF Next

\* Each step of the solver goes forward: none can be repeated for ever.
THEOREM SolverStepsForward == Spec => StepsForward
<1> DEFINE Forward ==
      \/ PhaseNumber[phase] < PhaseNumber[phase']
      \/ phase' = phase /\ left' \subseteq left /\ left' # left
      \/ UNCHANGED <<phase, left>> /\ placing = None /\ placing' # None
      \/ UNCHANGED <<phase, left, placing>> /\ id < id' /\ id' <= required
<1>1. /\ PhaseNumber["compress"] < PhaseNumber["depth"]
      /\ PhaseNumber["depth"] < PhaseNumber["place"]
      /\ PhaseNumber["place"] < PhaseNumber["done"]
  BY DEF PhaseNumber
<1>2. ASSUME Inv, NEW b \in Boxes, Compress(b) \/ CalcDepth(b) PROVE Forward
  <2>1. PICK p \in {"depth", "place"} :
           /\ b \in left /\ Turn(b, p)
           /\ phase = IF p = "depth" THEN "compress" ELSE "depth"
    BY <1>2 DEF Compress, CalcDepth, IsNextByTime
  <2>2. CASE left = {b}
    BY <1>1, <2>1, <2>2 DEF Turn
  <2>3. CASE left # {b}
    BY <2>1, <2>3 DEF Turn
  <2> QED
    BY <2>2, <2>3
<1>3. ASSUME Inv, NEW b \in Boxes, Pick(b) PROVE Forward
  BY <1>3, SolverAssumption DEF Pick
<1>4. ASSUME Inv, PopUp PROVE Forward
  <2>1. PICK c \in InSlots(placing) : Meet(id, placing, c) /\ id' = offset[c] + box[c].size
    BY <1>4 DEF PopUp
  <2>2. /\ placing \in Boxes /\ c \in Boxes /\ c \in Placed /\ id \in Nat
        /\ offset[c] \in Nat /\ box[c].size \in Nat
    BY <1>4, <2>1, BoxTypes DEF PopUp, Inv, CompressInv, TypeOK, SolveInv, PlacingOK, InSlots, Placed
  <2>3. id < id'
    BY <2>1, <2>2 DEF Meet
  <2>4. id' <= required
    BY <1>4, <2>1, <2>2 DEF Inv, SolveInv, RequiredIsTop
  <2> QED
    BY <1>4, <2>3, <2>4 DEF PopUp
<1>5. ASSUME Inv, Store PROVE Forward
  <2>1. /\ placing \in left /\ left' = left \ {placing} /\ phase = "place"
        /\ phase' = "done" \/ phase' = phase
    BY <1>5 DEF Store, Inv, SolveInv, PlacingOK
  <2> QED
    BY <1>1, <2>1
<1>6. Inv /\ [Next]_vars => [Forward]_vars
  <2> HIDE DEF Forward
  <2> QED
    BY <1>2, <1>3, <1>4, <1>5 DEF Next
<1> QED
  BY <1>6, SolverInvariant, PTL DEF Spec, StepsForward

\* The solver never stops before it has placed all boxes.
THEOREM SolverNeverStuck == Spec => []NeverStuck
<1>1. Init => LeftInv
  BY SolverAssumption DEF Init, LeftInv
<1>2. Inv /\ LeftInv => NeverStuck
  <2> SUFFICES ASSUME Inv, LeftInv, phase # "done" PROVE CanStep
    BY DEF NeverStuck
  <2>1. TypeOK /\ left # {} /\ phase \in {"compress", "depth", "place"}
    BY DEF Inv, CompressInv, TypeOK, LeftInv
  <2> QED
    BY <2>1, NextInTime, BiggestBox DEF CanStep
<1> QED
  BY <1>1, <1>2, LeftNext, SolverInvariant, PTL DEF Spec

=============================================================================
