-------------------------- MODULE SparseFileProofs --------------------------
(***************************************************************************)
(* The slices of a sparse file are exact for every size, every chunk and   *)
(* every sequence of operations, and so are the loops over them.           *)
(***************************************************************************)
EXTENDS SparseFile, SequenceTheorems, FiniteSetTheorems, WellFoundedInduction, TLAPS

(***************************************************************************)
(* Loops                                                                   *)
(***************************************************************************)

(* Induction with a set in the place of the predicate: it follows from the *)
(* least number outside the set.                                           *)
LEMMA NatSetInduction ==
  ASSUME NEW S, 0 \in S, \A n \in Nat : n \in S => n + 1 \in S
  PROVE  Nat \subseteq S
<1> DEFINE T == Nat \ S
<1> SUFFICES ASSUME T # {} PROVE FALSE
  OBVIOUS
<1>1. PICK x \in T : \A y \in T : ~ (<<y, x>> \in OpToRel(<, Nat))
  BY NatLessThanWellFounded, WFMin, Zenon
<1>2. x \in T /\ x - 1 \in Nat /\ x - 1 \in S
  <2>1. x \in Nat /\ x # 0 /\ x - 1 \in Nat /\ x - 1 < x
    OBVIOUS
  <2>2. <<x - 1, x>> \in OpToRel(<, Nat)
    BY <2>1, Zenon DEF OpToRel
  <2> QED BY <2>1, <2>2, <1>1
<1> QED BY <1>2

(* Each loop over a slice does what its equation says.  The equation has a *)
(* solution for every number of turns: one more turn extends the last one. *)
LEMMA AddLoopEquation ==
  ASSUME NEW items, Len(items) \in Nat, NEW start, NEW end
  PROVE  LET acc == AddLoop(items, start, end)
         IN  /\ acc[0] = [out |-> <<>>, new |-> Interval(start, end), inserted |-> FALSE]
             /\ \A i \in 1 .. Len(items) : acc[i] = AddStep(acc[i - 1], items[i])
<1> DEFINE Base == [out |-> <<>>, new |-> Interval(start, end), inserted |-> FALSE]
           Solves(g, n) == g = [i \in 0 .. n |-> IF i = 0 THEN Base ELSE AddStep(g[i - 1], items[i])]
           S == {n \in Nat : \E g : Solves(g, n)}
<1> HIDE DEF Base
<1>1. 0 \in S
  <2>1. Solves([i \in 0 .. 0 |-> Base], 0)
    OBVIOUS
  <2> QED BY <2>1
<1>2. ASSUME NEW n \in Nat, n \in S PROVE n + 1 \in S
  <2>1. PICK g : Solves(g, n)
    BY <1>2
  <2> DEFINE h == [i \in 0 .. n + 1 |-> IF i <= n THEN g[i] ELSE AddStep(g[n], items[n + 1])]
  <2>2. \A i \in 0 .. n : g[i] = IF i = 0 THEN Base ELSE AddStep(g[i - 1], items[i])
    BY <2>1
  <2>3. \A i \in 0 .. n + 1 : h[i] = IF i = 0 THEN Base ELSE AddStep(h[i - 1], items[i])
    <3> TAKE i \in 0 .. n + 1
    <3>1. CASE i <= n
      BY <2>2, <3>1
    <3>2. CASE i = n + 1
      BY <3>2
    <3> QED BY <3>1, <3>2
  <2>4. Solves(h, n + 1)
    BY <2>3
  <2> HIDE DEF h
  <2> QED BY <2>4
<1> HIDE DEF S
<1>3. Len(items) \in S
  BY <1>1, <1>2, NatSetInduction
<1> DEFINE acc == AddLoop(items, start, end)
<1>4. Solves(acc, Len(items))
  BY <1>3 DEF S, AddLoop, Base
<1> HIDE DEF acc
<1>5. /\ acc[0] = Base
      /\ \A i \in 1 .. Len(items) : acc[i] = AddStep(acc[i - 1], items[i])
  BY <1>4
<1> QED BY <1>5 DEF acc, Base

(***************************************************************************)
(* Ranges in order                                                         *)
(***************************************************************************)

Ranges == [start : Int, end : Int]

Within(x, it) == it.start <= x /\ x < it.end

In(s, x) == \E i \in 1 .. Len(s) : Within(x, s[i])

(* No range of s starts before a; none ends after b.                       *)
StartsFrom(s, a) == \A i \in 1 .. Len(s) : a <= s[i].start
EndsBy(s, b) == \A i \in 1 .. Len(s) : s[i].end <= b

(* No empty range, in order, with a gap of at least g between any two.     *)
Spaced(s, g) ==
  /\ s \in Seq(Ranges)
  /\ \A i \in 1 .. Len(s) : s[i].start < s[i].end
  /\ \A i, k \in 1 .. Len(s) : i < k => s[i].end + g <= s[k].start

(* The ranges of a slice are ranges.                                       *)
LEMMA RangeShape ==
  ASSUME NEW s \in Seq(Ranges)
  PROVE  /\ Len(s) \in Nat /\ DOMAIN s = 1 .. Len(s)
         /\ \A i \in 1 .. Len(s) : s[i] \in Ranges /\ s[i].start \in Int /\ s[i].end \in Int
<1>1. \A i \in 1 .. Len(s) : s[i] \in Ranges
  BY ElementOfSeq
<1>2. \A it \in Ranges : it.start \in Int /\ it.end \in Int
  BY DEF Ranges
<1> QED BY <1>1, <1>2, LenProperties

(* The offsets of a slice, one by one.                                     *)
LEMMA OffsetsAreIn ==
  ASSUME NEW s \in Seq(Ranges)
  PROVE  Offsets(s) \subseteq Int /\ \A x \in Int : x \in Offsets(s) <=> In(s, x)
<1>1. \A i \in 1 .. Len(s) : s[i].start \in Int /\ s[i].end \in Int
  BY RangeShape
<1>2. DOMAIN s = 1 .. Len(s)
  BY RangeShape
<1>3. \A i \in 1 .. Len(s) : \A x : x \in Span(s[i]) <=> x \in Int /\ Within(x, s[i])
  BY <1>1 DEF Span, Within
<1> QED BY <1>2, <1>3 DEF Offsets, In

(* One more range at the end.                                              *)
LEMMA AppendRange ==
  ASSUME NEW g \in {0, 1}, NEW s, Spaced(s, g), NEW it \in Ranges, it.start < it.end,
         EndsBy(s, it.start - g)
  PROVE  /\ Spaced(Append(s, it), g)
         /\ \A x \in Int : In(Append(s, it), x) <=> In(s, x) \/ Within(x, it)
         /\ \A b \in Int : it.end <= b => EndsBy(Append(s, it), b)
<1> DEFINE t == Append(s, it)
<1>1. s \in Seq(Ranges) /\ Len(s) \in Nat
  BY RangeShape DEF Spaced
<1>2. \A i \in 1 .. Len(s) : s[i] \in Ranges /\ s[i].start \in Int /\ s[i].end \in Int
  BY <1>1, RangeShape
<1>3. it.start \in Int /\ it.end \in Int
  BY DEF Ranges
<1>4. /\ t \in Seq(Ranges) /\ Len(t) = Len(s) + 1 /\ t[Len(s) + 1] = it
      /\ \A i \in 1 .. Len(s) : t[i] = s[i]
  BY <1>1, AppendProperties
<1>5. \A i \in 1 .. Len(t) : i \in 1 .. Len(s) \/ i = Len(s) + 1
  BY <1>1, <1>4
<1> HIDE DEF t
<1>6. Spaced(t, g)
  <2>1. \A i \in 1 .. Len(t) : t[i].start < t[i].end
    BY <1>4, <1>5 DEF Spaced
  <2>2. ASSUME NEW i \in 1 .. Len(t), NEW k \in 1 .. Len(t), i < k
        PROVE  t[i].end + g <= t[k].start
    <3>1. i \in 1 .. Len(s)
      BY <1>1, <1>4, <2>2
    <3>2. CASE k \in 1 .. Len(s)
      BY <1>4, <2>2, <3>1, <3>2 DEF Spaced
    <3>3. CASE k = Len(s) + 1
      BY <1>2, <1>3, <1>4, <3>1, <3>3 DEF EndsBy
    <3> QED BY <1>5, <3>2, <3>3
  <2> QED BY <1>4, <2>1, <2>2 DEF Spaced
<1>7. ASSUME NEW x \in Int PROVE In(t, x) <=> In(s, x) \/ Within(x, it)
  <2>1. Len(s) + 1 \in 1 .. Len(t) /\ \A i \in 1 .. Len(s) : i \in 1 .. Len(t)
    BY <1>1, <1>4
  <2> QED BY <1>4, <1>5, <2>1 DEF In
<1>8. ASSUME NEW b \in Int, it.end <= b PROVE EndsBy(t, b)
  <2>1. ASSUME NEW i \in 1 .. Len(s) PROVE s[i].end <= b
    BY <1>2, <1>3, <1>8 DEF EndsBy
  <2> QED BY <1>4, <1>5, <1>8, <2>1 DEF EndsBy
<1> QED BY <1>6, <1>7, <1>8 DEF t

(***************************************************************************)
(* add                                                                     *)
(***************************************************************************)

(* What holds after i turns of add's loop: out is in order and ends before *)
(* the ranges to come; unless it has been inserted, the new range comes    *)
(* after out; and out and the new range stand for what has been seen.      *)
AddInv(acc, items, start, end, i) ==
  /\ acc.inserted \in BOOLEAN /\ acc.new \in Ranges /\ acc.new.start < acc.new.end
  /\ Spaced(acc.out, 1)
  /\ \A k \in i + 1 .. Len(items) :
       /\ EndsBy(acc.out, items[k].start - 1)
       /\ acc.inserted => acc.new.end < items[k].start
  /\ ~acc.inserted => EndsBy(acc.out, acc.new.start - 1)
  /\ \A x \in Int :
       In(acc.out, x) \/ (~acc.inserted /\ Within(x, acc.new))
         <=> Within(x, Interval(start, end)) \/ \E k \in 1 .. i : Within(x, items[k])

(* A turn of add's loop keeps that.                                        *)
LEMMA AddTurn ==
  ASSUME NEW items, Spaced(items, 1), NEW start \in Int, NEW end \in Int,
         NEW i \in 1 .. Len(items), NEW acc, AddInv(acc, items, start, end, i - 1)
  PROVE  AddInv(AddStep(acc, items[i]), items, start, end, i)
<1> DEFINE it == items[i]
           next == AddStep(acc, it)
<1>1. /\ items \in Seq(Ranges) /\ Len(items) \in Nat
      /\ \A k \in 1 .. Len(items) : /\ items[k] \in Ranges /\ items[k].start \in Int /\ items[k].end \in Int
                                    /\ items[k].start < items[k].end
      /\ \A k \in i + 1 .. Len(items) : it.end < items[k].start /\ it.start < items[k].start
  BY RangeShape DEF Spaced
<1>2. /\ acc.new.start \in Int /\ acc.new.end \in Int /\ acc.new.start < acc.new.end
      /\ acc.inserted \in BOOLEAN /\ acc.new \in Ranges
  BY DEF AddInv, Ranges
<1>3. Spaced(acc.out, 1) /\ EndsBy(acc.out, it.start - 1) /\ (acc.inserted => acc.new.end < it.start)
  BY <1>1 DEF AddInv
<1>4. ASSUME NEW k \in i + 1 .. Len(items)
      PROVE  /\ EndsBy(acc.out, items[k].start - 1)
             /\ acc.inserted => acc.new.end < items[k].start
             /\ items[k].start - 1 \in Int /\ it.end <= items[k].start - 1
  BY <1>1 DEF AddInv
<1>5. ASSUME NEW x \in Int
      PROVE  (\E k \in 1 .. i : Within(x, items[k]))
               <=> Within(x, it) \/ \E k \in 1 .. i - 1 : Within(x, items[k])
  <2>1. \A k : k \in 1 .. i <=> k = i \/ k \in 1 .. i - 1
    BY <1>1
  <2> QED BY <2>1
<1>6. ASSUME NEW x \in Int
      PROVE  In(acc.out, x) \/ (~acc.inserted /\ Within(x, acc.new))
         <=> Within(x, Interval(start, end)) \/ \E k \in 1 .. i - 1 : Within(x, items[k])
  BY DEF AddInv
<1>7. CASE it.end < acc.new.start
  <2>1. next = [out |-> Append(acc.out, it), new |-> acc.new, inserted |-> acc.inserted]
    <3>1. Before(it, acc.new) /\ ~(it.start > acc.new.end)
      BY <1>1, <1>2, <1>7 DEF Before
    <3> HIDE DEF it
    <3> QED BY <3>1 DEF AddStep
  <2>2. ~acc.inserted
    BY <1>1, <1>2, <1>3, <1>7
  <2>3. /\ Spaced(Append(acc.out, it), 1)
        /\ \A x \in Int : In(Append(acc.out, it), x) <=> In(acc.out, x) \/ Within(x, it)
        /\ \A b \in Int : it.end <= b => EndsBy(Append(acc.out, it), b)
    BY <1>1, <1>3, AppendRange
  <2> HIDE DEF it, next
  <2>4. \A k \in i + 1 .. Len(items) : EndsBy(next.out, items[k].start - 1)
    BY <1>4, <2>1, <2>3
  <2>5. EndsBy(next.out, next.new.start - 1)
    <3>1. acc.new.start - 1 \in Int /\ it.end <= acc.new.start - 1
      BY <1>1, <1>2, <1>7 DEF it
    <3> QED BY <2>1, <2>3, <3>1
  <2>6. \A x \in Int : In(next.out, x) \/ (~next.inserted /\ Within(x, next.new))
          <=> Within(x, Interval(start, end)) \/ \E k \in 1 .. i : Within(x, items[k])
    BY <1>5, <1>6, <2>1, <2>2, <2>3
  <2> QED BY <1>2, <2>1, <2>2, <2>3, <2>4, <2>5, <2>6 DEF AddInv, it, next
<1>8. CASE ~(it.end < acc.new.start) /\ it.start > acc.new.end
  <2> DEFINE before == IF acc.inserted THEN acc.out ELSE Append(acc.out, acc.new)
  <2>1. next = [out |-> Append(before, it), new |-> acc.new, inserted |-> TRUE]
    BY <1>8 DEF AddStep, Before
  <2>2. /\ Spaced(before, 1) /\ EndsBy(before, it.start - 1)
        /\ \A x \in Int : In(before, x) <=> In(acc.out, x) \/ (~acc.inserted /\ Within(x, acc.new))
    <3>1. CASE acc.inserted
      BY <1>3, <3>1
    <3>2. CASE ~acc.inserted
      <4>1. EndsBy(acc.out, acc.new.start - 1)
        BY <3>2 DEF AddInv
      <4>2. it.start - 1 \in Int /\ acc.new.end <= it.start - 1
        BY <1>1, <1>2, <1>8
      <4> QED BY <1>2, <1>3, <3>2, <4>1, <4>2, AppendRange
    <3> QED BY <1>2, <3>1, <3>2
  <2> HIDE DEF before
  <2>3. /\ Spaced(Append(before, it), 1)
        /\ \A x \in Int : In(Append(before, it), x) <=> In(before, x) \/ Within(x, it)
        /\ \A b \in Int : it.end <= b => EndsBy(Append(before, it), b)
    BY <1>1, <2>2, AppendRange
  <2>4. \A k \in i + 1 .. Len(items) : acc.new.end < items[k].start
    BY <1>1, <1>2, <1>8
  <2> HIDE DEF it, next
  <2>5. \A k \in i + 1 .. Len(items) : EndsBy(next.out, items[k].start - 1)
    BY <1>4, <2>1, <2>3
  <2>6. \A x \in Int : In(next.out, x) \/ (~next.inserted /\ Within(x, next.new))
          <=> Within(x, Interval(start, end)) \/ \E k \in 1 .. i : Within(x, items[k])
    BY <1>5, <1>6, <2>1, <2>2, <2>3
  <2> QED BY <1>2, <2>1, <2>3, <2>4, <2>5, <2>6 DEF AddInv, it, next
<1>9. CASE ~(it.end < acc.new.start) /\ ~(it.start > acc.new.end)
  <2> DEFINE new == Interval(Least(acc.new.start, it.start), Most(acc.new.end, it.end))
  <2>1. next = [out |-> acc.out, inserted |-> acc.inserted, new |-> new]
    BY <1>9 DEF AddStep, Before
  <2>2. ~acc.inserted
    BY <1>1, <1>2, <1>3, <1>9
  <2>3. /\ new \in Ranges /\ new.start \in Int /\ new.end \in Int /\ new.start < new.end
        /\ new.start = acc.new.start \/ new.start = it.start
        /\ \A x \in Int : Within(x, new) <=> Within(x, acc.new) \/ Within(x, it)
    <3>1. it.start \in Int /\ it.end \in Int /\ it.start < it.end
      BY <1>1
    <3> HIDE DEF it
    <3>2. /\ new.start = IF acc.new.start <= it.start THEN acc.new.start ELSE it.start
          /\ new.end = IF acc.new.end >= it.end THEN acc.new.end ELSE it.end
      BY DEF Interval, Least, Most
    <3>3. new = [start |-> new.start, end |-> new.end]
      BY DEF Interval
    <3> HIDE DEF new
    <3>4. new.start \in Int /\ new.end \in Int /\ new.start < new.end
      BY <1>2, <3>1, <3>2
    <3>5. new \in Ranges
      BY <3>3, <3>4 DEF Ranges
    <3>6. \A x \in Int : Within(x, new) <=> Within(x, acc.new) \/ Within(x, it)
      BY <1>2, <1>9, <3>1, <3>2 DEF Within
    <3> QED BY <3>2, <3>4, <3>5, <3>6
  <2> HIDE DEF new, it, next
  <2>4. EndsBy(acc.out, new.start - 1)
    BY <1>3, <2>2, <2>3 DEF AddInv
  <2>5. \A x \in Int : In(next.out, x) \/ (~next.inserted /\ Within(x, next.new))
          <=> Within(x, Interval(start, end)) \/ \E k \in 1 .. i : Within(x, items[k])
    BY <1>5, <1>6, <2>1, <2>2, <2>3
  <2>6. \A k \in i + 1 .. Len(items) : EndsBy(next.out, items[k].start - 1)
    BY <1>4, <2>1
  <2> QED BY <1>2, <1>3, <2>1, <2>2, <2>3, <2>4, <2>5, <2>6 DEF AddInv, it, next
<1> QED BY <1>7, <1>8, <1>9

(* add keeps a slice in order and adds the range's offsets to it.          *)
LEMMA AddExact ==
  ASSUME NEW items, Spaced(items, 1), NEW start \in Int, NEW end \in Int
  PROVE  /\ Spaced(Add(items, start, end), 1)
         /\ \A x \in Int : In(Add(items, start, end), x)
                             <=> In(items, x) \/ Within(x, Interval(start, end))
<1>1. CASE start >= end
  BY <1>1 DEF Add, Within, Interval
<1>2. CASE start < end
  <2> DEFINE acc == AddLoop(items, start, end)
             S == {i \in Nat : i <= Len(items) => AddInv(acc[i], items, start, end, i)}
  <2>1. Len(items) \in Nat /\ items \in Seq(Ranges)
    BY RangeShape DEF Spaced
  <2>2. /\ acc[0] = [out |-> <<>>, new |-> Interval(start, end), inserted |-> FALSE]
        /\ \A i \in 1 .. Len(items) : acc[i] = AddStep(acc[i - 1], items[i])
    BY <2>1, AddLoopEquation
  <2> HIDE DEF acc
  <2>3. 0 \in S
    <3>1. <<>> \in Seq(Ranges) /\ Len(<<>>) = 0
      BY EmptySeq
    <3>2. /\ acc[0].out = <<>> /\ acc[0].new = Interval(start, end) /\ acc[0].inserted = FALSE
      BY <2>2
    <3>3. Interval(start, end) \in Ranges /\ Interval(start, end).start < Interval(start, end).end
      BY <1>2 DEF Interval, Ranges
    <3>4. \A x \in Int : ~In(<<>>, x) /\ ~\E k \in 1 .. 0 : Within(x, items[k])
      BY <3>1 DEF In
    <3>5. Spaced(<<>>, 1) /\ \A b : EndsBy(<<>>, b)
      BY <3>1 DEF Spaced, EndsBy
    <3> QED BY <3>2, <3>3, <3>4, <3>5 DEF AddInv
  <2>4. ASSUME NEW i \in Nat, i \in S PROVE i + 1 \in S
    <3>1. CASE i + 1 <= Len(items)
      <4>1. AddInv(acc[i], items, start, end, (i + 1) - 1) /\ i + 1 \in 1 .. Len(items)
        BY <2>1, <2>4, <3>1
      <4>2. acc[i + 1] = AddStep(acc[i], items[i + 1])
        BY <2>2, <4>1
      <4>3. AddInv(acc[i + 1], items, start, end, i + 1)
        BY <4>1, <4>2, AddTurn
      <4> QED BY <4>3
    <3>2. CASE ~(i + 1 <= Len(items))
      BY <3>2
    <3> QED BY <3>1, <3>2
  <2> HIDE DEF S
  <2>5. Len(items) \in S
    BY <2>1, <2>3, <2>4, NatSetInduction
  <2> DEFINE last == acc[Len(items)]
  <2>6. AddInv(last, items, start, end, Len(items))
    BY <2>1, <2>5 DEF S
  <2>7. Add(items, start, end) = IF last.inserted THEN last.out ELSE Append(last.out, last.new)
    BY <1>2 DEF Add, acc
  <2> HIDE DEF last
  <2>8. CASE last.inserted
    BY <2>6, <2>7, <2>8 DEF AddInv, In
  <2>9. CASE ~last.inserted
    <3>1. /\ Spaced(last.out, 1) /\ last.new \in Ranges /\ last.new.start < last.new.end
          /\ EndsBy(last.out, last.new.start - 1)
      BY <2>6, <2>9 DEF AddInv
    <3>2. /\ Spaced(Append(last.out, last.new), 1)
          /\ \A x \in Int : In(Append(last.out, last.new), x) <=> In(last.out, x) \/ Within(x, last.new)
      BY <3>1, AppendRange
    <3> QED BY <2>6, <2>7, <2>9, <3>2 DEF AddInv, In
  <2> QED BY <2>6, <2>8, <2>9 DEF AddInv
<1> QED BY <1>1, <1>2

(***************************************************************************)
(* Slices put together                                                     *)
(***************************************************************************)

(* Two slices, one after the other.                                        *)
LEMMA ConcatRanges ==
  ASSUME NEW g \in {0, 1}, NEW s, Spaced(s, g), NEW t, Spaced(t, g),
         NEW a \in Int, NEW b \in Int, a + g <= b, EndsBy(s, a), StartsFrom(t, b)
  PROVE  /\ Spaced(s \o t, g)
         /\ \A x \in Int : In(s \o t, x) <=> In(s, x) \/ In(t, x)
         /\ \A c \in Int : a <= c /\ EndsBy(t, c) => EndsBy(s \o t, c)
         /\ \A i \in 1 .. Len(s \o t) : \/ \E k \in 1 .. Len(s) : (s \o t)[i] = s[k]
                                        \/ \E k \in 1 .. Len(t) : (s \o t)[i] = t[k]
<1> DEFINE u == s \o t
<1>1. /\ s \in Seq(Ranges) /\ t \in Seq(Ranges) /\ Len(s) \in Nat /\ Len(t) \in Nat
      /\ \A i \in 1 .. Len(s) : s[i].start \in Int /\ s[i].end \in Int
      /\ \A i \in 1 .. Len(t) : t[i].start \in Int /\ t[i].end \in Int
  BY RangeShape DEF Spaced
<1>2. /\ u \in Seq(Ranges) /\ Len(u) = Len(s) + Len(t)
      /\ \A i \in 1 .. Len(s) + Len(t) : u[i] = IF i <= Len(s) THEN s[i] ELSE t[i - Len(s)]
  BY <1>1, ConcatProperties
<1> HIDE DEF u
<1>3. \A i \in 1 .. Len(s) : i \in 1 .. Len(u) /\ u[i] = s[i]
  BY <1>1, <1>2
<1>4. \A i \in 1 .. Len(t) : Len(s) + i \in 1 .. Len(u) /\ u[Len(s) + i] = t[i]
  <2> TAKE i \in 1 .. Len(t)
  <2>1. Len(s) + i \in 1 .. Len(s) + Len(t) /\ ~(Len(s) + i <= Len(s)) /\ (Len(s) + i) - Len(s) = i
    BY <1>1
  <2> QED BY <1>2, <2>1
<1>5. \A i \in 1 .. Len(u) : \/ i \in 1 .. Len(s) /\ u[i] = s[i]
                             \/ i > Len(s) /\ i - Len(s) \in 1 .. Len(t) /\ u[i] = t[i - Len(s)]
  <2> TAKE i \in 1 .. Len(u)
  <2>1. CASE i <= Len(s)
    BY <1>1, <1>2, <2>1
  <2>2. CASE i > Len(s)
    BY <1>1, <1>2, <2>2
  <2> QED BY <1>1, <1>2, <2>1, <2>2
<1>6. Spaced(u, g)
  <2>1. \A i \in 1 .. Len(u) : u[i].start < u[i].end
    BY <1>5 DEF Spaced
  <2>2. ASSUME NEW i \in 1 .. Len(u), NEW k \in 1 .. Len(u), i < k
        PROVE  u[i].end + g <= u[k].start
    <3>1. CASE k \in 1 .. Len(s)
      <4>1. i \in 1 .. Len(s)
        BY <1>1, <1>2, <2>2, <3>1
      <4> QED BY <1>3, <2>2, <3>1, <4>1 DEF Spaced
    <3>2. CASE k > Len(s) /\ k - Len(s) \in 1 .. Len(t) /\ u[k] = t[k - Len(s)]
      <4>1. CASE i \in 1 .. Len(s) /\ u[i] = s[i]
        BY <1>1, <3>2, <4>1 DEF EndsBy, StartsFrom
      <4>2. CASE i > Len(s) /\ i - Len(s) \in 1 .. Len(t) /\ u[i] = t[i - Len(s)]
        <5>1. i - Len(s) < k - Len(s)
          BY <1>1, <2>2, <3>2, <4>2
        <5> QED BY <3>2, <4>2, <5>1 DEF Spaced
      <4> QED BY <1>5, <4>1, <4>2
    <3> QED BY <1>5, <3>1, <3>2
  <2> QED BY <1>2, <2>1, <2>2 DEF Spaced
<1>7. \A x \in Int : In(u, x) <=> In(s, x) \/ In(t, x)
  BY <1>3, <1>4, <1>5 DEF In
<1>8. ASSUME NEW c \in Int, a <= c, EndsBy(t, c) PROVE EndsBy(u, c)
  <2>1. \A i \in 1 .. Len(s) : s[i].end <= c
    BY <1>1, <1>8 DEF EndsBy
  <2>2. \A i \in 1 .. Len(t) : t[i].end <= c
    BY <1>8 DEF EndsBy
  <2> QED BY <1>5, <2>1, <2>2 DEF EndsBy
<1> QED BY <1>5, <1>6, <1>7, <1>8 DEF u

(* The equation of the community module's FlattenSeq.                      *)
LEMMA FlattenEquation ==
  ASSUME NEW seqs, Len(seqs) \in Nat \ {0}
  PROVE  \E f : /\ SeqX!FlattenSeq(seqs) = f[Len(seqs)] /\ f[1] = seqs[1]
                /\ \A i \in 2 .. Len(seqs) : f[i] = f[i - 1] \o seqs[i]
<1> DEFINE Solves(g, n) == g = [i \in 1 .. n |-> IF i = 1 THEN seqs[i] ELSE g[i - 1] \o seqs[i]]
           S == {n \in Nat : \E g : Solves(g, n)}
<1>1. 0 \in S
  <2>1. Solves([i \in 1 .. 0 |-> i], 0)
    OBVIOUS
  <2> QED BY <2>1
<1>2. ASSUME NEW n \in Nat, n \in S PROVE n + 1 \in S
  <2>1. PICK g : Solves(g, n)
    BY <1>2
  <2> DEFINE h == [i \in 1 .. n + 1 |-> IF i <= n THEN g[i]
                                        ELSE IF i = 1 THEN seqs[i] ELSE g[n] \o seqs[n + 1]]
  <2>2. \A i \in 1 .. n : g[i] = IF i = 1 THEN seqs[i] ELSE g[i - 1] \o seqs[i]
    BY <2>1
  <2>3. \A i \in 1 .. n + 1 : h[i] = IF i = 1 THEN seqs[i] ELSE h[i - 1] \o seqs[i]
    <3> TAKE i \in 1 .. n + 1
    <3>1. CASE i <= n
      BY <2>2, <3>1
    <3>2. CASE i = n + 1
      BY <3>2
    <3> QED BY <3>1, <3>2
  <2>4. Solves(h, n + 1)
    BY <2>3
  <2> HIDE DEF h, Solves
  <2> QED BY <2>4
<1> HIDE DEF S
<1>3. Len(seqs) \in S
  BY <1>1, <1>2, NatSetInduction
<1> DEFINE f == CHOOSE g : Solves(g, Len(seqs))
<1>4. Solves(f, Len(seqs)) /\ SeqX!FlattenSeq(seqs) = f[Len(seqs)]
  BY <1>3 DEF S, SeqX!FlattenSeq
<1> HIDE DEF f
<1>5. \A i \in 1 .. Len(seqs) : f[i] = IF i = 1 THEN seqs[i] ELSE f[i - 1] \o seqs[i]
  BY <1>4, Zenon
<1>6. f[1] = seqs[1] /\ \A i \in 2 .. Len(seqs) : f[i] = f[i - 1] \o seqs[i]
  <2>1. 1 \in 1 .. Len(seqs) /\ \A i \in 2 .. Len(seqs) : i \in 1 .. Len(seqs) /\ i # 1
    OBVIOUS
  <2> QED BY <1>5, <2>1
<1> QED BY <1>4, <1>6

(* Slices, each inside its own window, flattened: the windows are in order *)
(* and at least a gap of g apart.                                          *)
LEMMA FlattenRanges ==
  ASSUME NEW g \in {0, 1}, NEW windows, Spaced(windows, g), NEW seqs, Len(seqs) = Len(windows),
         DOMAIN seqs = 1 .. Len(seqs),
         \A i \in 1 .. Len(seqs) : /\ Spaced(seqs[i], g)
                                   /\ StartsFrom(seqs[i], windows[i].start)
                                   /\ EndsBy(seqs[i], windows[i].end)
  PROVE  LET flat == SeqX!FlattenSeq(seqs)
         IN  /\ Spaced(flat, g)
             /\ \A x \in Int : In(flat, x) <=> \E i \in 1 .. Len(seqs) : In(seqs[i], x)
             /\ \A k \in 1 .. Len(flat) : \E i \in 1 .. Len(seqs) :
                  \E m \in 1 .. Len(seqs[i]) : flat[k] = seqs[i][m]
             /\ \A b \in Int : (\A i \in 1 .. Len(seqs) : windows[i].end <= b) => EndsBy(flat, b)
<1>1. /\ windows \in Seq(Ranges) /\ Len(windows) \in Nat
      /\ \A i \in 1 .. Len(windows) : windows[i].start \in Int /\ windows[i].end \in Int
      /\ \A i \in 1 .. Len(windows) : windows[i].start < windows[i].end
  BY RangeShape DEF Spaced
<1>2. CASE Len(seqs) = 0
  <2>1. SeqX!FlattenSeq(seqs) = seqs
    BY <1>2 DEF SeqX!FlattenSeq
  <2>2. seqs = <<>>
    BY <1>2
  <2>3. <<>> \in Seq(Ranges) /\ Len(<<>>) = 0
    BY EmptySeq
  <2> QED BY <2>1, <2>2, <2>3 DEF Spaced, In, EndsBy
<1>3. CASE Len(seqs) # 0
  <2>1. PICK f : /\ SeqX!FlattenSeq(seqs) = f[Len(seqs)] /\ f[1] = seqs[1]
                 /\ \A i \in 2 .. Len(seqs) : f[i] = f[i - 1] \o seqs[i]
    BY <1>1, <1>3, FlattenEquation
  <2> DEFINE Good(s, i) ==
               /\ Spaced(s, g) /\ EndsBy(s, windows[i].end)
               /\ \A x \in Int : In(s, x) <=> \E k \in 1 .. i : In(seqs[k], x)
               /\ \A k \in 1 .. Len(s) : \E m \in 1 .. i : \E n \in 1 .. Len(seqs[m]) : s[k] = seqs[m][n]
             S == {i \in Nat : i \in 1 .. Len(seqs) => Good(f[i], i)}
  <2> HIDE DEF Good
  <2>2. 0 \in S
    OBVIOUS
  <2>3. ASSUME NEW i \in Nat, i \in S PROVE i + 1 \in S
    <3> SUFFICES ASSUME i + 1 \in 1 .. Len(seqs) PROVE Good(f[i + 1], i + 1)
      OBVIOUS
    <3>1. CASE i = 0
      <4>1. f[i + 1] = seqs[i + 1] /\ EndsBy(seqs[i + 1], windows[i + 1].end) /\ Spaced(seqs[i + 1], g)
        BY <2>1, <3>1
      <4>2. \A k : k \in 1 .. i + 1 <=> k = i + 1
        BY <3>1
      <4> DEFINE s == f[i + 1]
      <4> HIDE DEF s
      <4>3. s = seqs[i + 1]
        BY <4>1 DEF s
      <4>4. \A k \in 1 .. Len(s) : \E m \in 1 .. i + 1 : \E n \in 1 .. Len(seqs[m]) : s[k] = seqs[m][n]
        BY <4>2, <4>3
      <4>5. \A x \in Int : In(s, x) <=> \E k \in 1 .. i + 1 : In(seqs[k], x)
        BY <4>2, <4>3
      <4>6. Good(s, i + 1)
        BY <4>1, <4>3, <4>4, <4>5 DEF Good
      <4> QED BY <4>6 DEF s
    <3>2. CASE i # 0
      <4>1. i \in 1 .. Len(seqs) /\ f[i + 1] = f[i] \o seqs[i + 1] /\ Good(f[i], i)
        <5>1. i \in 1 .. Len(seqs) /\ i + 1 \in 2 .. Len(seqs) /\ (i + 1) - 1 = i
          BY <1>1, <3>2
        <5>2. f[i + 1] = f[(i + 1) - 1] \o seqs[i + 1]
          BY <2>1, <5>1
        <5> QED BY <2>3, <5>1, <5>2
      <4>2. windows[i].end + g <= windows[i + 1].start
        BY <4>1 DEF Spaced
      <4> DEFINE s == f[i]
                 t == seqs[i + 1]
      <4>3. /\ windows[i].end \in Int /\ windows[i + 1].start \in Int /\ windows[i + 1].end \in Int
            /\ windows[i].end <= windows[i + 1].end
        BY <1>1, <4>1, <4>2
      <4>4. Spaced(t, g) /\ EndsBy(t, windows[i + 1].end) /\ StartsFrom(t, windows[i + 1].start)
        OBVIOUS
      <4>5. Good(s, i)
        BY <4>1
      <4> HIDE DEF s, t
      <4>6. /\ Spaced(s \o t, g) /\ EndsBy(s \o t, windows[i + 1].end)
            /\ \A x \in Int : In(s \o t, x) <=> In(s, x) \/ In(t, x)
            /\ \A k \in 1 .. Len(s \o t) : \/ \E m \in 1 .. Len(s) : (s \o t)[k] = s[m]
                                           \/ \E m \in 1 .. Len(t) : (s \o t)[k] = t[m]
        <5>1. Spaced(s, g) /\ EndsBy(s, windows[i].end)
          BY <4>5 DEF Good
        <5> DEFINE a == windows[i].end
                   b == windows[i + 1].start
                   c == windows[i + 1].end
        <5>2. /\ a \in Int /\ b \in Int /\ c \in Int /\ a + g <= b /\ a <= c /\ EndsBy(s, a)
              /\ EndsBy(t, c) /\ StartsFrom(t, b)
          BY <4>2, <4>3, <4>4, <5>1
        <5> HIDE DEF a, b, c
        <5>3. /\ Spaced(s \o t, g) /\ EndsBy(s \o t, c)
              /\ \A x \in Int : In(s \o t, x) <=> In(s, x) \/ In(t, x)
              /\ \A k \in 1 .. Len(s \o t) : \/ \E m \in 1 .. Len(s) : (s \o t)[k] = s[m]
                                             \/ \E m \in 1 .. Len(t) : (s \o t)[k] = t[m]
          BY <4>4, <5>1, <5>2, ConcatRanges, SMTT(30)
        <5> QED BY <5>3 DEF c
      <4>7. \A k : k \in 1 .. i + 1 <=> k \in 1 .. i \/ k = i + 1
        OBVIOUS
      <4>8. \A x \in Int : In(s \o t, x) <=> \E k \in 1 .. i + 1 : In(seqs[k], x)
        BY <4>5, <4>6, <4>7 DEF t, Good
      <4>9. ASSUME NEW k \in 1 .. Len(s \o t)
            PROVE  \E m \in 1 .. i + 1 : \E n \in 1 .. Len(seqs[m]) : (s \o t)[k] = seqs[m][n]
        <5>1. CASE \E m \in 1 .. Len(s) : (s \o t)[k] = s[m]
          <6>1. PICK m \in 1 .. Len(s) : (s \o t)[k] = s[m]
            BY <5>1
          <6>2. PICK n \in 1 .. i : \E o \in 1 .. Len(seqs[n]) : s[m] = seqs[n][o]
            BY <4>5 DEF Good
          <6> QED BY <4>7, <6>1, <6>2
        <5>2. CASE \E m \in 1 .. Len(t) : (s \o t)[k] = t[m]
          BY <4>7, <5>2 DEF t
        <5> QED BY <4>6, <5>1, <5>2
      <4>10. f[i + 1] = s \o t
        BY <4>1 DEF s, t
      <4>11. Good(s \o t, i + 1)
        BY <4>6, <4>8, <4>9 DEF Good
      <4> QED BY <4>10, <4>11
    <3> QED BY <3>1, <3>2
  <2> HIDE DEF S
  <2>4. Len(seqs) \in S /\ Len(seqs) \in 1 .. Len(seqs)
    <3>1. Len(seqs) \in Nat /\ Len(seqs) \in 1 .. Len(seqs)
      BY <1>1, <1>3
    <3>2. Nat \subseteq S
      BY <2>2, <2>3, NatSetInduction
    <3> QED BY <3>1, <3>2
  <2>5. Good(f[Len(seqs)], Len(seqs))
    BY <2>4 DEF S
  <2>6. ASSUME NEW b \in Int, \A i \in 1 .. Len(seqs) : windows[i].end <= b
        PROVE  EndsBy(f[Len(seqs)], b)
    <3> DEFINE s == f[Len(seqs)]
    <3>1. EndsBy(s, windows[Len(seqs)].end) /\ s \in Seq(Ranges)
      BY <2>5 DEF Good, Spaced
    <3> HIDE DEF s
    <3>2. \A k \in 1 .. Len(s) : s[k].end \in Int
      BY <3>1, RangeShape
    <3>3. windows[Len(seqs)].end \in Int /\ windows[Len(seqs)].end <= b
      BY <1>1, <2>4, <2>6
    <3>4. EndsBy(s, b)
      BY <3>1, <3>2, <3>3 DEF EndsBy
    <3> QED BY <3>4 DEF s
  <2> QED BY <2>1, <2>5, <2>6 DEF Good
<1> QED BY <1>2, <1>3

(***************************************************************************)
(* remove                                                                  *)
(***************************************************************************)

(* What remove leaves of one range: what is not in [start, end).           *)
LEMMA OutsideExact ==
  ASSUME NEW it \in Ranges, it.start < it.end, NEW start \in Int, NEW end \in Int, start < end
  PROVE  LET left == Outside(it, start, end)
         IN  /\ Spaced(left, 1) /\ StartsFrom(left, it.start) /\ EndsBy(left, it.end)
             /\ \A x \in Int : In(left, x) <=> Within(x, it) /\ ~Within(x, Interval(start, end))
<1>1. it.start \in Int /\ it.end \in Int
  BY DEF Ranges
<1>2. Interval(start, end).start = start /\ Interval(start, end).end = end
  BY DEF Interval
<1>3. ASSUME NEW r \in Ranges, r.start < r.end
      PROVE  /\ Spaced(<<r>>, 1) /\ \A x \in Int : In(<<r>>, x) <=> Within(x, r)
             /\ \A a : StartsFrom(<<r>>, a) <=> a <= r.start
             /\ \A b : EndsBy(<<r>>, b) <=> r.end <= b
  <2>1. <<r>> \in Seq(Ranges) /\ Len(<<r>>) = 1 /\ <<r>>[1] = r
    OBVIOUS
  <2>2. \A i : i \in 1 .. 1 <=> i = 1
    OBVIOUS
  <2>3. \A i \in 1 .. Len(<<r>>) : i = 1 /\ <<r>>[i] = r
    BY <2>1, <2>2
  <2>4. 1 \in 1 .. Len(<<r>>)
    BY <2>1
  <2>5. Spaced(<<r>>, 1)
    BY <1>3, <2>1, <2>3 DEF Spaced
  <2> QED BY <2>1, <2>3, <2>4, <2>5 DEF In, StartsFrom, EndsBy
<1>4. Spaced(<<>>, 1) /\ \A x : ~In(<<>>, x) /\ StartsFrom(<<>>, x) /\ EndsBy(<<>>, x)
  BY EmptySeq DEF Spaced, In, StartsFrom, EndsBy
<1>5. CASE it.end <= start \/ it.start >= end
  <2>1. Outside(it, start, end) = <<it>>
    BY <1>5 DEF Outside
  <2>2. \A x \in Int : Within(x, it) => ~Within(x, Interval(start, end))
    BY <1>1, <1>2, <1>5 DEF Within
  <2> QED BY <1>1, <1>3, <2>1, <2>2
<1>6. CASE it.end > start /\ it.start < end
  <2> DEFINE s == IF it.start < start THEN <<Interval(it.start, start)>> ELSE <<>>
             t == IF it.end > end THEN <<Interval(end, it.end)>> ELSE <<>>
  <2>1. Outside(it, start, end) = s \o t
    BY <1>1, <1>6 DEF Outside
  <2>2. /\ Spaced(s, 1) /\ EndsBy(s, start) /\ StartsFrom(s, it.start)
        /\ \A x \in Int : In(s, x) <=> it.start <= x /\ x < start
    <3>1. CASE it.start < start
      <4> DEFINE r == Interval(it.start, start)
      <4>1. r \in Ranges /\ r.start = it.start /\ r.end = start
        BY <1>1 DEF Interval, Ranges
      <4> HIDE DEF r
      <4>2. s = <<r>>
        BY <3>1 DEF r
      <4> HIDE DEF s
      <4> QED BY <1>1, <1>3, <3>1, <4>1, <4>2 DEF Within
    <3>2. CASE ~(it.start < start)
      BY <1>1, <1>4, <3>2
    <3> QED BY <3>1, <3>2
  <2>3. /\ Spaced(t, 1) /\ EndsBy(t, it.end) /\ StartsFrom(t, end)
        /\ \A x \in Int : In(t, x) <=> end <= x /\ x < it.end
    <3>1. CASE it.end > end
      <4> DEFINE r == Interval(end, it.end)
      <4>1. r \in Ranges /\ r.start = end /\ r.end = it.end
        BY <1>1 DEF Interval, Ranges
      <4> HIDE DEF r
      <4>2. t = <<r>>
        BY <3>1 DEF r
      <4> HIDE DEF t
      <4> QED BY <1>1, <1>3, <3>1, <4>1, <4>2 DEF Within
    <3>2. CASE ~(it.end > end)
      BY <1>1, <1>4, <3>2
    <3> QED BY <3>1, <3>2
  <2> DEFINE u == s \o t
  <2> HIDE DEF s, t
  <2>4. /\ Spaced(u, 1)
        /\ \A x \in Int : In(u, x) <=> In(s, x) \/ In(t, x)
        /\ \A i \in 1 .. Len(u) : \/ \E k \in 1 .. Len(s) : u[i] = s[k]
                                  \/ \E k \in 1 .. Len(t) : u[i] = t[k]
    BY <2>2, <2>3, ConcatRanges
  <2> HIDE DEF u
  <2>5. /\ \A k \in 1 .. Len(s) : s[k].start \in Int /\ s[k].end \in Int
        /\ \A k \in 1 .. Len(t) : t[k].start \in Int /\ t[k].end \in Int
    BY <2>2, <2>3, RangeShape DEF Spaced
  <2>6. /\ \A k \in 1 .. Len(s) : it.start <= s[k].start /\ s[k].end <= it.end
        /\ \A k \in 1 .. Len(t) : it.start <= t[k].start /\ t[k].end <= it.end
    <3>1. ASSUME NEW k \in 1 .. Len(s) PROVE it.start <= s[k].start /\ s[k].end <= it.end
      BY <1>1, <1>6, <2>2, <2>5 DEF StartsFrom, EndsBy
    <3>2. ASSUME NEW k \in 1 .. Len(t) PROVE it.start <= t[k].start /\ t[k].end <= it.end
      BY <1>1, <1>6, <2>3, <2>5 DEF StartsFrom, EndsBy
    <3> QED BY <3>1, <3>2
  <2>7. StartsFrom(u, it.start) /\ EndsBy(u, it.end)
    BY <2>4, <2>6 DEF StartsFrom, EndsBy
  <2>8. \A x \in Int : In(u, x) <=> Within(x, it) /\ ~Within(x, Interval(start, end))
    BY <1>1, <1>2, <1>6, <2>2, <2>3, <2>4 DEF Within
  <2> QED BY <2>1, <2>4, <2>7, <2>8 DEF u
<1> QED BY <1>1, <1>5, <1>6

(* remove keeps a slice in order and takes the range's offsets from it.    *)
LEMMA RemoveExact ==
  ASSUME NEW items, Spaced(items, 1), NEW start \in Int, NEW end \in Int
  PROVE  /\ Spaced(Remove(items, start, end), 1)
         /\ \A x \in Int : In(Remove(items, start, end), x)
                             <=> In(items, x) /\ ~Within(x, Interval(start, end))
<1>1. CASE start >= end
  BY <1>1 DEF Remove, Within, Interval
<1>2. CASE start < end
  <2> DEFINE seqs == [i \in DOMAIN items |-> Outside(items[i], start, end)]
  <2>1. /\ Len(items) \in Nat /\ DOMAIN items = 1 .. Len(items)
        /\ \A i \in 1 .. Len(items) : items[i] \in Ranges /\ items[i].start < items[i].end
    BY RangeShape DEF Spaced
  <2>2. Len(seqs) = Len(items) /\ DOMAIN seqs = 1 .. Len(seqs)
        /\ \A i \in 1 .. Len(seqs) : seqs[i] = Outside(items[i], start, end)
    BY <2>1
  <2>3. Remove(items, start, end) = SeqX!FlattenSeq(seqs)
    BY <1>2 DEF Remove
  <2> HIDE DEF seqs
  <2>4. ASSUME NEW i \in 1 .. Len(seqs)
        PROVE  /\ Spaced(seqs[i], 1)
               /\ StartsFrom(seqs[i], items[i].start) /\ EndsBy(seqs[i], items[i].end)
               /\ \A x \in Int : In(seqs[i], x) <=> Within(x, items[i]) /\ ~Within(x, Interval(start, end))
    BY <1>2, <2>1, <2>2, OutsideExact
  <2>5. /\ Spaced(SeqX!FlattenSeq(seqs), 1)
        /\ \A x \in Int : In(SeqX!FlattenSeq(seqs), x) <=> \E i \in 1 .. Len(seqs) : In(seqs[i], x)
    BY <2>2, <2>4, FlattenRanges
  <2>6. \A x \in Int : (\E i \in 1 .. Len(seqs) : In(seqs[i], x))
                          <=> In(items, x) /\ ~Within(x, Interval(start, end))
    BY <2>2, <2>4 DEF In
  <2> QED BY <2>3, <2>5, <2>6
<1> QED BY <1>1, <1>2

(***************************************************************************)
(* missing                                                                 *)
(***************************************************************************)

(* missing's loop does what its equation says.                             *)
LEMMA MissingLoopEquation ==
  ASSUME NEW items, Len(items) \in Nat, NEW start, NEW end
  PROVE  LET acc == MissingLoop(items, start, end)
         IN  /\ acc[0] = [gaps |-> <<>>, pos |-> start]
             /\ \A i \in 1 .. Len(items) : acc[i] = MissingStep(acc[i - 1], items[i], end)
<1> DEFINE Base == [gaps |-> <<>>, pos |-> start]
           Solves(g, n) ==
             g = [i \in 0 .. n |-> IF i = 0 THEN Base ELSE MissingStep(g[i - 1], items[i], end)]
           S == {n \in Nat : \E g : Solves(g, n)}
<1> HIDE DEF Base
<1>1. 0 \in S
  <2>1. Solves([i \in 0 .. 0 |-> Base], 0)
    OBVIOUS
  <2> QED BY <2>1
<1>2. ASSUME NEW n \in Nat, n \in S PROVE n + 1 \in S
  <2>1. PICK g : Solves(g, n)
    BY <1>2
  <2> DEFINE h == [i \in 0 .. n + 1 |-> IF i <= n THEN g[i] ELSE MissingStep(g[n], items[n + 1], end)]
  <2>2. \A i \in 0 .. n : g[i] = IF i = 0 THEN Base ELSE MissingStep(g[i - 1], items[i], end)
    BY <2>1
  <2>3. \A i \in 0 .. n + 1 : h[i] = IF i = 0 THEN Base ELSE MissingStep(h[i - 1], items[i], end)
    <3> TAKE i \in 0 .. n + 1
    <3>1. CASE i <= n
      BY <2>2, <3>1
    <3>2. CASE i = n + 1
      BY <3>2
    <3> QED BY <3>1, <3>2
  <2>4. Solves(h, n + 1)
    BY <2>3
  <2> HIDE DEF h, Solves
  <2> QED BY <2>4
<1> HIDE DEF S
<1>3. Len(items) \in S
  BY <1>1, <1>2, NatSetInduction
<1> DEFINE acc == MissingLoop(items, start, end)
<1>4. Solves(acc, Len(items))
  BY <1>3 DEF S, MissingLoop, Base
<1> HIDE DEF acc
<1>5. /\ acc[0] = Base
      /\ \A i \in 1 .. Len(items) : acc[i] = MissingStep(acc[i - 1], items[i], end)
  BY <1>4
<1> QED BY <1>5 DEF acc, Base

(* A gap cannot be made longer inside [start, end).                        *)
Maximal(s, items, start, end) ==
  \A i \in 1 .. Len(s) : /\ s[i].start = start \/ In(items, s[i].start - 1)
                         /\ s[i].end = end \/ In(items, s[i].end)

(* What holds after i turns of missing's loop: the gaps are those before   *)
(* pos, and pos is the start or the end of a range before the ones to come.*)
MissingInv(acc, items, start, end, i) ==
  /\ acc.pos \in Int /\ start <= acc.pos
  /\ \/ acc.pos = start
     \/ In(items, acc.pos - 1) /\ \A k \in i + 1 .. Len(items) : acc.pos < items[k].start
  /\ Spaced(acc.gaps, 1) /\ StartsFrom(acc.gaps, start)
  /\ EndsBy(acc.gaps, end) /\ EndsBy(acc.gaps, acc.pos - 1)
  /\ Maximal(acc.gaps, items, start, end)
  /\ \A x \in start .. end - 1 :
       /\ In(acc.gaps, x) <=> x < acc.pos /\ ~\E k \in 1 .. i : Within(x, items[k])
       /\ x >= acc.pos => ~\E k \in 1 .. i : Within(x, items[k])

(* A turn of missing's loop keeps that.                                    *)
LEMMA MissingTurn ==
  ASSUME NEW items, Spaced(items, 1), NEW start \in Int, NEW end \in Int, start < end,
         NEW i \in 1 .. Len(items), NEW acc, MissingInv(acc, items, start, end, i - 1)
  PROVE  MissingInv(MissingStep(acc, items[i], end), items, start, end, i)
<1> DEFINE it == items[i]
           next == MissingStep(acc, it, end)
<1>1. /\ items \in Seq(Ranges) /\ Len(items) \in Nat
      /\ \A k \in 1 .. Len(items) : /\ items[k] \in Ranges /\ items[k].start \in Int /\ items[k].end \in Int
                                    /\ items[k].start < items[k].end
      /\ \A k \in i + 1 .. Len(items) : it.end < items[k].start
  BY RangeShape DEF Spaced
<1>2. /\ it.start \in Int /\ it.end \in Int /\ it.start < it.end
      /\ \A x \in Int : Within(x, it) => In(items, x)
  BY <1>1 DEF In
<1>3. /\ acc.pos \in Int /\ start <= acc.pos
      /\ acc.pos = start \/ (In(items, acc.pos - 1) /\ acc.pos < it.start)
      /\ acc.pos = start \/ In(items, acc.pos - 1)
      /\ Spaced(acc.gaps, 1) /\ StartsFrom(acc.gaps, start)
      /\ EndsBy(acc.gaps, end) /\ EndsBy(acc.gaps, acc.pos - 1)
      /\ Maximal(acc.gaps, items, start, end)
  BY <1>1 DEF MissingInv
<1>4. ASSUME NEW x
      PROVE  (\E k \in 1 .. i : Within(x, items[k]))
               <=> Within(x, it) \/ \E k \in 1 .. i - 1 : Within(x, items[k])
  <2>1. \A k : k \in 1 .. i <=> k = i \/ k \in 1 .. i - 1
    BY <1>1
  <2> QED BY <2>1
<1>5. ASSUME NEW x \in start .. end - 1
      PROVE  /\ In(acc.gaps, x) <=> x < acc.pos /\ ~\E k \in 1 .. i - 1 : Within(x, items[k])
             /\ x >= acc.pos => ~\E k \in 1 .. i - 1 : Within(x, items[k])
  BY DEF MissingInv
<1>6. CASE it.end <= acc.pos \/ it.start >= end
  <2>1. next = acc
    BY <1>6 DEF MissingStep
  <2>2. acc.pos = start \/ (In(items, acc.pos - 1) /\ \A k \in i + 1 .. Len(items) : acc.pos < items[k].start)
    BY <1>1 DEF MissingInv
  <2>3. \A x \in start .. end - 1 : ~Within(x, it)
    BY <1>2, <1>3, <1>6 DEF Within
  <2>4. \A x \in start .. end - 1 :
          /\ In(acc.gaps, x) <=> x < acc.pos /\ ~\E k \in 1 .. i : Within(x, items[k])
          /\ x >= acc.pos => ~\E k \in 1 .. i : Within(x, items[k])
    BY <1>4, <1>5, <2>3
  <2> HIDE DEF it, next
  <2>5. MissingInv(acc, items, start, end, i)
    BY <1>3, <2>2, <2>4 DEF MissingInv
  <2> QED BY <2>1, <2>5 DEF it, next
<1>7. CASE it.end > acc.pos /\ it.start < end
  <2> DEFINE gaps == IF it.start > acc.pos
                     THEN Append(acc.gaps, Interval(acc.pos, Least(it.start, end)))
                     ELSE acc.gaps
  <2>1. next = [gaps |-> gaps, pos |-> it.end]
    BY <1>2, <1>3, <1>7 DEF MissingStep
  <2>2. /\ Spaced(gaps, 1) /\ StartsFrom(gaps, start) /\ EndsBy(gaps, end) /\ EndsBy(gaps, it.end - 1)
        /\ Maximal(gaps, items, start, end)
        /\ \A x \in Int : In(gaps, x) <=> In(acc.gaps, x) \/ (acc.pos <= x /\ x < it.start)
    <3>1. CASE it.start > acc.pos
      <4> DEFINE gap == Interval(acc.pos, it.start)
      <4>1. gap \in Ranges /\ gap.start = acc.pos /\ gap.end = it.start
        BY <1>2, <1>3 DEF Interval, Ranges
      <4>2. gaps = Append(acc.gaps, gap)
        BY <1>2, <1>7, <3>1 DEF Least
      <4> HIDE DEF gap, gaps, it, next
      <4>3. /\ Spaced(gaps, 1)
            /\ \A x \in Int : In(gaps, x) <=> In(acc.gaps, x) \/ Within(x, gap)
            /\ \A b \in Int : gap.end <= b => EndsBy(gaps, b)
        BY <1>3, <3>1, <4>1, <4>2, AppendRange
      <4>4. EndsBy(gaps, end) /\ EndsBy(gaps, it.end - 1)
        <5>1. gap.end <= end /\ gap.end <= it.end - 1 /\ it.end - 1 \in Int
          BY <1>2, <1>7, <4>1
        <5> QED BY <4>3, <5>1
      <4>5. \A k \in 1 .. Len(gaps) : gaps[k] = gap \/ (k \in 1 .. Len(acc.gaps) /\ gaps[k] = acc.gaps[k])
        <5>1. acc.gaps \in Seq(Ranges) /\ Len(acc.gaps) \in Nat
          BY <1>3, RangeShape DEF Spaced
        <5>2. /\ Len(gaps) = Len(acc.gaps) + 1 /\ gaps[Len(acc.gaps) + 1] = gap
              /\ \A k \in 1 .. Len(acc.gaps) : gaps[k] = acc.gaps[k]
          BY <4>1, <4>2, <5>1, AppendProperties
        <5>3. \A k \in 1 .. Len(gaps) : k \in 1 .. Len(acc.gaps) \/ k = Len(acc.gaps) + 1
          BY <5>1, <5>2
        <5> QED BY <5>2, <5>3
      <4>6. StartsFrom(gaps, start)
        BY <1>3, <4>1, <4>5 DEF StartsFrom
      <4>7. In(items, gap.end)
        BY <1>2, <4>1 DEF Within
      <4>8. gap.start = start \/ In(items, gap.start - 1)
        BY <1>3, <4>1
      <4>9. Maximal(gaps, items, start, end)
        BY <1>3, <4>5, <4>7, <4>8 DEF Maximal
      <4>10. \A x \in Int : Within(x, gap) <=> acc.pos <= x /\ x < it.start
        BY <4>1 DEF Within
      <4> QED BY <4>3, <4>4, <4>6, <4>9, <4>10
    <3>2. CASE ~(it.start > acc.pos)
      <4>1. acc.gaps \in Seq(Ranges)
        BY <1>3 DEF Spaced
      <4>2. \A k \in 1 .. Len(acc.gaps) : acc.gaps[k].end \in Int
        BY <4>1, RangeShape
      <4>3. EndsBy(acc.gaps, it.end - 1)
        <5>1. acc.pos - 1 <= it.end - 1
          BY <1>2, <1>3, <1>7
        <5>2. \A k \in 1 .. Len(acc.gaps) : acc.gaps[k].end <= acc.pos - 1
          BY <1>3 DEF EndsBy
        <5>3. acc.pos - 1 \in Int /\ it.end - 1 \in Int
          BY <1>2, <1>3
        <5> DEFINE b == it.end - 1
                   c == acc.pos - 1
        <5> HIDE DEF it, next, gaps, b, c
        <5>4. ASSUME NEW k \in 1 .. Len(acc.gaps) PROVE acc.gaps[k].end <= b
          <6>1. b \in Int /\ c \in Int /\ c <= b
            BY <5>1, <5>3 DEF b, c
          <6>2. acc.gaps[k].end <= c /\ acc.gaps[k].end \in Int
            BY <4>2, <5>2 DEF c
          <6> QED BY <6>1, <6>2
        <5> QED BY <5>4 DEF EndsBy, b
      <4> QED BY <1>2, <1>3, <3>2, <4>3
    <3> QED BY <3>1, <3>2
  <2> HIDE DEF gaps
  <2>3. In(items, it.end - 1) /\ \A k \in i + 1 .. Len(items) : it.end < items[k].start
    BY <1>1, <1>2 DEF Within
  <2>4. ASSUME NEW x \in start .. end - 1
        PROVE  /\ In(gaps, x) <=> x < it.end /\ ~\E k \in 1 .. i : Within(x, items[k])
               /\ x >= it.end => ~\E k \in 1 .. i : Within(x, items[k])
    <3>1. /\ In(gaps, x) <=> In(acc.gaps, x) \/ (acc.pos <= x /\ x < it.start)
          /\ Within(x, it) <=> it.start <= x /\ x < it.end
      BY <2>2 DEF Within
    <3>2. acc.pos < it.start \/ acc.pos = start
      BY <1>3
    <3> HIDE DEF it, next
    <3> QED BY <1>2, <1>3, <1>4, <1>5, <1>7, <3>1, <3>2
  <2>5. it.end \in Int /\ start <= it.end
    BY <1>2, <1>3, <1>7
  <2> HIDE DEF it, next
  <2> QED BY <2>1, <2>2, <2>3, <2>4, <2>5 DEF MissingInv, it, next
<1> QED BY <1>2, <1>3, <1>6, <1>7

(* missing answers with the gaps of [start, end), in order and as long as  *)
(* they can be.                                                            *)
LEMMA MissingExact ==
  ASSUME NEW items, Spaced(items, 1), NEW start \in Int, NEW end \in Int, start < end
  PROVE  LET gaps == Missing(items, start, end)
         IN  /\ Spaced(gaps, 1) /\ StartsFrom(gaps, start) /\ EndsBy(gaps, end)
             /\ Maximal(gaps, items, start, end)
             /\ \A x \in Int : In(gaps, x) <=> start <= x /\ x < end /\ ~In(items, x)
<1> DEFINE acc == MissingLoop(items, start, end)
           S == {i \in Nat : i <= Len(items) => MissingInv(acc[i], items, start, end, i)}
<1>1. Len(items) \in Nat /\ items \in Seq(Ranges)
  BY RangeShape DEF Spaced
<1>2. /\ acc[0] = [gaps |-> <<>>, pos |-> start]
      /\ \A i \in 1 .. Len(items) : acc[i] = MissingStep(acc[i - 1], items[i], end)
  BY <1>1, MissingLoopEquation
<1> HIDE DEF acc
<1>3. 0 \in S
  <2>1. acc[0].gaps = <<>> /\ acc[0].pos = start
    BY <1>2
  <2>2. <<>> \in Seq(Ranges) /\ Len(<<>>) = 0
    BY EmptySeq
  <2>3. /\ Spaced(<<>>, 1) /\ Maximal(<<>>, items, start, end)
        /\ \A x : ~In(<<>>, x) /\ StartsFrom(<<>>, x) /\ EndsBy(<<>>, x)
    BY <2>2 DEF Spaced, In, StartsFrom, EndsBy, Maximal
  <2>4. \A x \in start .. end - 1 : ~(x < start) /\ ~\E k \in 1 .. 0 : Within(x, items[k])
    OBVIOUS
  <2> QED BY <2>1, <2>3, <2>4 DEF MissingInv
<1>4. ASSUME NEW i \in Nat, i \in S PROVE i + 1 \in S
  <2>1. CASE i + 1 <= Len(items)
    <3>1. MissingInv(acc[i], items, start, end, (i + 1) - 1) /\ i + 1 \in 1 .. Len(items)
      BY <1>1, <1>4, <2>1
    <3>2. acc[i + 1] = MissingStep(acc[i], items[i + 1], end)
      BY <1>2, <3>1
    <3>3. MissingInv(acc[i + 1], items, start, end, i + 1)
      BY <3>1, <3>2, MissingTurn
    <3> QED BY <3>3
  <2>2. CASE ~(i + 1 <= Len(items))
    BY <2>2
  <2> QED BY <2>1, <2>2
<1> HIDE DEF S
<1>5. Len(items) \in S
  BY <1>1, <1>3, <1>4, NatSetInduction
<1> DEFINE walk == acc[Len(items)]
<1>6. MissingInv(walk, items, start, end, Len(items))
  BY <1>1, <1>5 DEF S
<1>7. Missing(items, start, end)
        = IF walk.pos < end THEN Append(walk.gaps, Interval(walk.pos, end)) ELSE walk.gaps
  BY DEF Missing, acc
<1> HIDE DEF walk
<1>8. /\ walk.pos \in Int /\ start <= walk.pos /\ (walk.pos = start \/ In(items, walk.pos - 1))
      /\ Spaced(walk.gaps, 1) /\ StartsFrom(walk.gaps, start)
      /\ EndsBy(walk.gaps, end) /\ EndsBy(walk.gaps, walk.pos - 1)
      /\ Maximal(walk.gaps, items, start, end)
  BY <1>6 DEF MissingInv
<1>9. ASSUME NEW x \in start .. end - 1
      PROVE  (In(walk.gaps, x) <=> x < walk.pos /\ ~In(items, x)) /\ (x >= walk.pos => ~In(items, x))
  BY <1>6 DEF MissingInv, In
<1>10. ASSUME NEW s, s \in Seq(Ranges), StartsFrom(s, start), EndsBy(s, end), NEW x \in Int, In(s, x)
       PROVE  x \in start .. end - 1
  <2>1. PICK k \in 1 .. Len(s) : Within(x, s[k])
    BY <1>10 DEF In
  <2>2. s[k].start \in Int /\ s[k].end \in Int
    BY <1>10, RangeShape
  <2> QED BY <1>10, <2>1, <2>2 DEF Within, StartsFrom, EndsBy
<1>11. CASE walk.pos < end
  <2> DEFINE gap == Interval(walk.pos, end)
             gaps == Append(walk.gaps, gap)
  <2>1. gap \in Ranges /\ gap.start = walk.pos /\ gap.end = end
    BY <1>8 DEF Interval, Ranges
  <2> HIDE DEF gap
  <2>2. /\ Spaced(gaps, 1)
        /\ \A x \in Int : In(gaps, x) <=> In(walk.gaps, x) \/ Within(x, gap)
        /\ \A b \in Int : gap.end <= b => EndsBy(gaps, b)
    BY <1>8, <1>11, <2>1, AppendRange
  <2>3. \A k \in 1 .. Len(gaps) : gaps[k] = gap \/ (k \in 1 .. Len(walk.gaps) /\ gaps[k] = walk.gaps[k])
    <3>1. walk.gaps \in Seq(Ranges) /\ Len(walk.gaps) \in Nat
      BY <1>8, RangeShape DEF Spaced
    <3>2. /\ Len(gaps) = Len(walk.gaps) + 1 /\ gaps[Len(walk.gaps) + 1] = gap
          /\ \A k \in 1 .. Len(walk.gaps) : gaps[k] = walk.gaps[k]
      BY <2>1, <3>1, AppendProperties
    <3>3. \A k \in 1 .. Len(gaps) : k \in 1 .. Len(walk.gaps) \/ k = Len(walk.gaps) + 1
      BY <3>1, <3>2
    <3> QED BY <3>2, <3>3
  <2> HIDE DEF gaps
  <2>4. StartsFrom(gaps, start) /\ EndsBy(gaps, end) /\ Maximal(gaps, items, start, end)
    <3>1. StartsFrom(gaps, start)
      BY <1>8, <2>1, <2>3 DEF StartsFrom
    <3>2. EndsBy(gaps, end)
      BY <2>1, <2>2
    <3>3. gap.end = end /\ (gap.start = start \/ In(items, gap.start - 1))
      BY <1>8, <2>1
    <3>4. Maximal(gaps, items, start, end)
      BY <1>8, <2>3, <3>3 DEF Maximal
    <3> QED BY <3>1, <3>2, <3>4
  <2>5. ASSUME NEW x \in Int PROVE In(gaps, x) <=> start <= x /\ x < end /\ ~In(items, x)
    <3>1. CASE x \in start .. end - 1
      BY <1>8, <1>9, <2>1, <2>2, <3>1 DEF Within
    <3>2. CASE x \notin start .. end - 1
      BY <1>10, <2>2, <2>4, <3>2 DEF Spaced
    <3> QED BY <3>1, <3>2
  <2>6. Missing(items, start, end) = gaps
    BY <1>7, <1>11 DEF gaps, gap
  <2> QED BY <2>2, <2>4, <2>5, <2>6
<1>12. CASE ~(walk.pos < end)
  <2>1. Missing(items, start, end) = walk.gaps
    BY <1>7, <1>12
  <2>2. ASSUME NEW x \in Int PROVE In(walk.gaps, x) <=> start <= x /\ x < end /\ ~In(items, x)
    <3>1. CASE x \in start .. end - 1
      BY <1>8, <1>9, <1>12, <3>1
    <3>2. CASE x \notin start .. end - 1
      BY <1>8, <1>10, <3>2 DEF Spaced
    <3> QED BY <3>1, <3>2
  <2> QED BY <1>8, <2>1, <2>2
<1> QED BY <1>11, <1>12

(***************************************************************************)
(* reserve                                                                 *)
(***************************************************************************)

(* How many chunks a length takes, and which one an offset is in.          *)
LEMMA Division ==
  ASSUME NEW a \in Nat, NEW c \in Nat \ {0}
  PROVE  a \div c \in Nat /\ (a \div c) * c <= a /\ a < (a \div c) * c + c
OBVIOUS

(* One chunk more is at most the next multiple of a chunk.                 *)
LEMMA Multiples ==
  ASSUME NEW a \in Int, NEW b \in Int, NEW c \in Nat, a < b
  PROVE  a * c \in Int /\ b * c \in Int /\ a * c + c <= b * c
OBVIOUS

(* The inner loop cuts a free range into pieces of at most a chunk.        *)
LEMMA PiecesExact ==
  ASSUME NEW sub \in Ranges, sub.start < sub.end, NEW chunk \in Nat \ {0}
  PROVE  LET list == Pieces(sub, chunk)
         IN  /\ Spaced(list, 0) /\ StartsFrom(list, sub.start) /\ EndsBy(list, sub.end)
             /\ \A x \in Int : In(list, x) <=> Within(x, sub)
             /\ \A i \in 1 .. Len(list) : list[i].end - list[i].start <= chunk
<1> DEFINE lo == sub.start
           hi == sub.end
           n == (hi - lo + chunk - 1) \div chunk
           At(k) == lo + (k - 1) * chunk
           list == Pieces(sub, chunk)
<1>1. lo \in Int /\ hi \in Int /\ lo < hi
  BY DEF Ranges
<1> HIDE DEF lo, hi
<1>2. n \in Nat /\ n * chunk <= hi - lo + chunk - 1 /\ hi - lo + chunk - 1 < n * chunk + chunk
  <2>1. hi - lo + chunk - 1 \in Nat
    BY <1>1
  <2> QED BY <2>1, Division
<1> HIDE DEF n
<1>3. list = [k \in 1 .. n |-> Interval(At(k), Least(At(k) + chunk, hi))]
  BY DEF Pieces, n, lo, hi
<1>4. ASSUME NEW k \in 1 .. n PROVE At(k) \in Int /\ lo <= At(k) /\ At(k) < hi
  <2>1. k - 1 < n /\ k - 1 \in Nat
    BY <1>2
  <2>2. (k - 1) * chunk \in Nat /\ (k - 1) * chunk + chunk <= n * chunk
    BY <1>2, <2>1, Multiples
  <2> QED BY <1>1, <1>2, <2>2
<1>5. ASSUME NEW i \in 1 .. n, NEW k \in 1 .. n, i < k PROVE At(i) + chunk <= At(k)
  <2>1. i - 1 < k - 1 /\ i - 1 \in Int /\ k - 1 \in Int
    BY <1>2, <1>5
  <2>2. /\ (i - 1) * chunk \in Int /\ (k - 1) * chunk \in Int
        /\ (i - 1) * chunk + chunk <= (k - 1) * chunk
    BY <2>1, Multiples
  <2> QED BY <1>1, <2>2
<1>6. ASSUME NEW x \in Int, lo <= x, x < hi
      PROVE  \E k \in 1 .. n : At(k) <= x /\ x < At(k) + chunk
  <2> DEFINE q == (x - lo) \div chunk
  <2>1. q \in Nat /\ q * chunk <= x - lo /\ x - lo < q * chunk + chunk
    <3>1. x - lo \in Nat
      BY <1>1, <1>6
    <3> QED BY <3>1, Division
  <2> HIDE DEF q
  <2>2. q < n
    <3>1. CASE n < q
      <4>1. n * chunk \in Int /\ q * chunk \in Int /\ n * chunk + chunk <= q * chunk
        BY <1>2, <2>1, <3>1, Multiples
      <4> QED BY <1>1, <1>2, <1>6, <2>1, <4>1
    <3>2. CASE n = q
      BY <1>1, <1>2, <1>6, <2>1, <3>2
    <3> QED BY <1>2, <2>1, <3>1, <3>2
  <2>3. q + 1 \in 1 .. n /\ (q + 1) - 1 = q
    BY <1>2, <2>1, <2>2
  <2>4. q * chunk \in Int
    BY <2>1
  <2>5. At(q + 1) <= x /\ x < At(q + 1) + chunk
    BY <1>1, <2>1, <2>3, <2>4
  <2> QED BY <2>3, <2>5
<1> HIDE DEF list, At
<1>7. /\ Len(list) = n /\ DOMAIN list = 1 .. n
      /\ \A k \in 1 .. n : list[k] = Interval(At(k), Least(At(k) + chunk, hi))
  BY <1>2, <1>3
<1>8. ASSUME NEW k \in 1 .. n
      PROVE  /\ list[k] \in Ranges /\ list[k].start = At(k) /\ list[k].end \in Int
             /\ list[k].end <= At(k) + chunk /\ list[k].end <= hi
             /\ list[k].end = At(k) + chunk \/ list[k].end = hi
  <2>1. list[k].start = At(k) /\ list[k].end = Least(At(k) + chunk, hi)
    BY <1>7 DEF Interval
  <2>2. Least(At(k) + chunk, hi) \in Int
    BY <1>1, <1>4 DEF Least
  <2>3. list[k] \in Ranges
    BY <1>4, <1>7, <2>2 DEF Interval, Ranges
  <2> QED BY <1>1, <1>4, <2>1, <2>2, <2>3 DEF Least
<1>9. Spaced(list, 0)
  <2>1. list \in Seq(Ranges)
    <3>1. list \in [1 .. n -> Ranges]
      <4>1. \A k \in 1 .. n : Interval(At(k), Least(At(k) + chunk, hi)) \in Ranges
        BY <1>7, <1>8
      <4> QED BY <1>3, <4>1
    <3> QED BY <1>2, <3>1, SeqDef
  <2>2. \A i \in 1 .. Len(list) : list[i].start < list[i].end
    BY <1>4, <1>7, <1>8
  <2>3. ASSUME NEW i \in 1 .. Len(list), NEW k \in 1 .. Len(list), i < k
        PROVE  list[i].end + 0 <= list[k].start
    <3>1. At(i) + chunk <= At(k) /\ At(i) \in Int /\ At(k) \in Int
      BY <1>4, <1>5, <1>7, <2>3
    <3> QED BY <1>7, <1>8, <3>1
  <2> QED BY <2>1, <2>2, <2>3 DEF Spaced
<1>10. StartsFrom(list, lo) /\ EndsBy(list, hi)
  BY <1>4, <1>7, <1>8 DEF StartsFrom, EndsBy
<1>11. \A i \in 1 .. Len(list) : list[i].end - list[i].start <= chunk
  BY <1>4, <1>7, <1>8
<1>12. ASSUME NEW x \in Int PROVE In(list, x) <=> lo <= x /\ x < hi
  <2>1. ASSUME In(list, x) PROVE lo <= x /\ x < hi
    <3>1. PICK k \in 1 .. n : Within(x, list[k])
      BY <1>7, <2>1 DEF In
    <3> QED BY <1>1, <1>4, <1>8, <3>1 DEF Within
  <2>2. ASSUME lo <= x, x < hi PROVE In(list, x)
    <3>1. PICK k \in 1 .. n : At(k) <= x /\ x < At(k) + chunk
      BY <1>6, <2>2
    <3>2. Within(x, list[k])
      BY <1>8, <2>2, <3>1 DEF Within
    <3> QED BY <1>7, <3>2 DEF In
  <2> QED BY <2>1, <2>2
<1> QED BY <1>9, <1>10, <1>11, <1>12 DEF Within, list, lo, hi

(* What is neither present nor in flight in a window: in order and with    *)
(* something between any two ranges.                                       *)
LEMMA FreeExact ==
  ASSUME NEW a, Spaced(a, 1), NEW b, Spaced(b, 1), NEW start \in Int, NEW end \in Int, start < end
  PROVE  LET free == FreeRanges(a, b, start, end)
         IN  /\ Spaced(free, 1) /\ EndsBy(free, end)
             /\ \A x \in Int : In(free, x) <=> start <= x /\ x < end /\ ~In(a, x) /\ ~In(b, x)
<1> DEFINE gaps == Missing(a, start, end)
           subs == [i \in DOMAIN gaps |-> Missing(b, gaps[i].start, gaps[i].end)]
<1>1. /\ Spaced(gaps, 1) /\ StartsFrom(gaps, start) /\ EndsBy(gaps, end)
      /\ \A x \in Int : In(gaps, x) <=> start <= x /\ x < end /\ ~In(a, x)
  BY MissingExact
<1>2. FreeRanges(a, b, start, end) = SeqX!FlattenSeq(subs)
  BY DEF FreeRanges
<1> HIDE DEF gaps
<1>3. /\ Len(gaps) \in Nat /\ DOMAIN gaps = 1 .. Len(gaps)
      /\ \A i \in 1 .. Len(gaps) : gaps[i].start \in Int /\ gaps[i].end \in Int
      /\ \A i \in 1 .. Len(gaps) : gaps[i].start < gaps[i].end
  BY <1>1, RangeShape DEF Spaced
<1>4. Len(subs) = Len(gaps) /\ DOMAIN subs = 1 .. Len(subs)
      /\ \A i \in 1 .. Len(subs) : subs[i] = Missing(b, gaps[i].start, gaps[i].end)
  BY <1>3
<1> HIDE DEF subs
<1>5. ASSUME NEW i \in 1 .. Len(subs)
      PROVE  /\ Spaced(subs[i], 1)
             /\ StartsFrom(subs[i], gaps[i].start) /\ EndsBy(subs[i], gaps[i].end)
             /\ \A x \in Int : In(subs[i], x) <=> Within(x, gaps[i]) /\ ~In(b, x)
  <2> DEFINE s == gaps[i].start
             e == gaps[i].end
  <2>1. s \in Int /\ e \in Int /\ s < e /\ subs[i] = Missing(b, s, e)
    BY <1>3, <1>4
  <2> HIDE DEF s, e
  <2>2. /\ Spaced(subs[i], 1) /\ StartsFrom(subs[i], s) /\ EndsBy(subs[i], e)
        /\ \A x \in Int : In(subs[i], x) <=> s <= x /\ x < e /\ ~In(b, x)
    BY <2>1, MissingExact
  <2> QED BY <2>2 DEF Within, s, e
<1> DEFINE free == SeqX!FlattenSeq(subs)
<1>6. /\ Spaced(free, 1)
      /\ \A x \in Int : In(free, x) <=> \E i \in 1 .. Len(subs) : In(subs[i], x)
      /\ \A c \in Int : (\A i \in 1 .. Len(subs) : gaps[i].end <= c) => EndsBy(free, c)
  BY <1>1, <1>4, <1>5, FlattenRanges
<1> HIDE DEF free
<1>7. EndsBy(free, end)
  BY <1>1, <1>4, <1>6 DEF EndsBy
<1>8. \A x \in Int : In(free, x) <=> In(gaps, x) /\ ~In(b, x)
  BY <1>4, <1>5, <1>6 DEF In
<1> QED BY <1>1, <1>2, <1>6, <1>7, <1>8 DEF free

(* What reserve hands out: the free offsets of the window inside the file, *)
(* in pieces of at most a chunk.                                           *)
LEMMA ReserveExact ==
  ASSUME NEW a, Spaced(a, 1), NEW b, Spaced(b, 1), NEW start \in Int, NEW end \in Int,
         NEW size \in Nat, NEW chunk \in Nat \ {0}
  PROVE  LET out == ReserveList(a, b, start, end, size, chunk)
         IN  /\ Spaced(out, 0)
             /\ \A x \in Int : In(out, x) <=> /\ start <= x /\ x < end /\ 0 <= x /\ x < size
                                             /\ ~In(a, x) /\ ~In(b, x)
             /\ \A i \in 1 .. Len(out) : out[i].end - out[i].start <= chunk
<1> DEFINE lo == Most(start, 0)
           hi == Least(end, size)
<1>1. /\ lo \in Int /\ hi \in Int
      /\ \A x \in Int : (lo <= x /\ x < hi) <=> (start <= x /\ x < end /\ 0 <= x /\ x < size)
  BY DEF Most, Least
<1> HIDE DEF lo, hi
<1>2. CASE lo >= hi
  <2>1. ReserveList(a, b, start, end, size, chunk) = <<>>
    BY <1>2 DEF ReserveList, lo, hi
  <2>2. <<>> \in Seq(Ranges) /\ Len(<<>>) = 0
    BY EmptySeq
  <2>3. \A x \in Int : ~(lo <= x /\ x < hi)
    BY <1>1, <1>2
  <2> QED BY <1>1, <2>1, <2>2, <2>3 DEF Spaced, In
<1>3. CASE lo < hi
  <2> DEFINE free == FreeRanges(a, b, lo, hi)
             seqs == [i \in DOMAIN free |-> Pieces(free[i], chunk)]
  <2>1. /\ Spaced(free, 1)
        /\ \A x \in Int : In(free, x) <=> lo <= x /\ x < hi /\ ~In(a, x) /\ ~In(b, x)
    BY <1>1, <1>3, FreeExact
  <2>2. ReserveList(a, b, start, end, size, chunk) = SeqX!FlattenSeq(seqs)
    BY <1>1, <1>3 DEF ReserveList, lo, hi
  <2> HIDE DEF free
  <2>3. /\ free \in Seq(Ranges) /\ Len(free) \in Nat /\ DOMAIN free = 1 .. Len(free)
        /\ \A i \in 1 .. Len(free) : /\ free[i] \in Ranges /\ free[i].start < free[i].end
                                     /\ free[i].start \in Int /\ free[i].end \in Int
    BY <2>1, RangeShape DEF Spaced
  <2>4. Spaced(free, 0)
    BY <2>1, <2>3 DEF Spaced
  <2>5. Len(seqs) = Len(free) /\ DOMAIN seqs = 1 .. Len(seqs)
        /\ \A i \in 1 .. Len(seqs) : seqs[i] = Pieces(free[i], chunk)
    BY <2>3
  <2> HIDE DEF seqs
  <2>6. ASSUME NEW i \in 1 .. Len(seqs)
        PROVE  /\ Spaced(seqs[i], 0)
               /\ StartsFrom(seqs[i], free[i].start) /\ EndsBy(seqs[i], free[i].end)
               /\ \A x \in Int : In(seqs[i], x) <=> Within(x, free[i])
               /\ \A k \in 1 .. Len(seqs[i]) : seqs[i][k].end - seqs[i][k].start <= chunk
    BY <2>3, <2>5, PiecesExact
  <2> DEFINE out == SeqX!FlattenSeq(seqs)
  <2>7. /\ Spaced(out, 0)
        /\ \A x \in Int : In(out, x) <=> \E i \in 1 .. Len(seqs) : In(seqs[i], x)
        /\ \A k \in 1 .. Len(out) : \E i \in 1 .. Len(seqs) :
             \E m \in 1 .. Len(seqs[i]) : out[k] = seqs[i][m]
    <3>1. \A i \in 1 .. Len(seqs) : /\ Spaced(seqs[i], 0)
                                    /\ StartsFrom(seqs[i], free[i].start)
                                    /\ EndsBy(seqs[i], free[i].end)
      BY <2>6
    <3>2. 0 \in {0, 1}
      OBVIOUS
    <3> QED BY <2>4, <2>5, <3>1, <3>2, FlattenRanges, SMTT(30)
  <2> HIDE DEF out
  <2>8. \A x \in Int : In(out, x) <=> In(free, x)
    BY <2>5, <2>6, <2>7 DEF In
  <2>9. \A k \in 1 .. Len(out) : out[k].end - out[k].start <= chunk
    BY <2>6, <2>7
  <2> QED BY <1>1, <2>1, <2>2, <2>7, <2>8, <2>9 DEF out
<1> QED BY <1>1, <1>2, <1>3

(* out stands for the least element of F and those after it up to the      *)
(* first that is not in F, a chunk at most.                                *)
LowestRun(out, F, chunk) ==
  /\ F = {} => \A x \in Int : ~In(out, x)
  /\ F # {} => \E first \in F :
       /\ \A c \in F : first <= c
       /\ \A x \in Int : In(out, x) <=> x \in F /\ x < first + chunk /\ first .. x \subseteq F

(* What reserveLowest hands out: the lowest free offset and those after it *)
(* up to the next that is not free, a chunk at most.                       *)
LEMMA LowestExact ==
  ASSUME NEW a, Spaced(a, 1), NEW b, Spaced(b, 1), NEW size \in Nat \ {0}, NEW chunk \in Nat \ {0},
         NEW F, F \subseteq Int,
         \A x \in Int : x \in F <=> 0 <= x /\ x < size /\ ~In(a, x) /\ ~In(b, x)
  PROVE  /\ Spaced(LowestList(a, b, size, chunk), 0)
         /\ LowestRun(LowestList(a, b, size, chunk), F, chunk)
<1> DEFINE free == FreeRanges(a, b, 0, size)
<1>1. /\ Spaced(free, 1)
      /\ \A x \in Int : In(free, x) <=> 0 <= x /\ x < size /\ ~In(a, x) /\ ~In(b, x)
  BY FreeExact
<1>2. LowestList(a, b, size, chunk)
        = IF free = <<>> THEN <<>>
          ELSE <<Interval(free[1].start, Least(free[1].start + chunk, free[1].end))>>
  BY DEF LowestList
<1> HIDE DEF free
<1>3. /\ F \subseteq Int /\ \A x \in Int : x \in F <=> In(free, x)
  BY <1>1
<1>4. CASE free = <<>>
  <2>1. <<>> \in Seq(Ranges) /\ Len(<<>>) = 0
    BY EmptySeq
  <2>2. Spaced(<<>>, 0) /\ \A x : ~In(<<>>, x)
    BY <2>1 DEF Spaced, In
  <2>3. F = {}
    BY <1>3, <1>4, <2>2
  <2> QED BY <1>2, <1>4, <2>2, <2>3 DEF LowestRun
<1>5. CASE free # <<>>
  <2> DEFINE lo == free[1].start
             hi == free[1].end
             r == Interval(lo, Least(lo + chunk, hi))
  <2>1. free \in Seq(Ranges)
    BY <1>1 DEF Spaced
  <2>2. 1 \in 1 .. Len(free)
    BY <1>5, <2>1, EmptySeq
  <2>3. lo \in Int /\ hi \in Int /\ lo < hi
    BY <1>1, <2>1, <2>2, RangeShape DEF Spaced
  <2>4. ASSUME NEW x \in Int
        PROVE  /\ lo <= x /\ x < hi => x \in F
               /\ x \in F => lo <= x
               /\ x = hi => x \notin F
    <3>1. lo <= x /\ x < hi => x \in F
      BY <1>3, <2>2 DEF In, Within
    <3>2. ASSUME x \in F PROVE lo <= x /\ x # hi
      <4>1. PICK k \in 1 .. Len(free) : free[k].start <= x /\ x < free[k].end
        BY <1>3, <3>2 DEF In, Within
      <4>2. CASE k = 1
        BY <2>3, <4>1, <4>2
      <4>3. CASE k # 1
        <5>1. 1 < k
          BY <4>3
        <5>2. hi + 1 <= free[k].start
          BY <1>1, <2>2, <5>1 DEF Spaced
        <5>3. free[k].start \in Int
          BY <2>1, RangeShape
        <5> QED BY <2>3, <4>1, <5>2, <5>3
      <4> QED BY <4>2, <4>3
    <3> QED BY <3>1, <3>2
  <2>5. lo \in F /\ \A c \in F : lo <= c
    BY <1>3, <2>3, <2>4
  <2> HIDE DEF lo, hi
  <2>6. /\ r \in Ranges /\ r.start = lo /\ r.end = Least(lo + chunk, hi)
        /\ r.end \in Int /\ r.start < r.end
    <3>1. Least(lo + chunk, hi) \in Int /\ lo < Least(lo + chunk, hi)
      BY <2>3 DEF Least
    <3> QED BY <2>3, <3>1 DEF Interval, Ranges
  <2>7. LowestList(a, b, size, chunk) = <<r>>
    BY <1>2, <1>5 DEF lo, hi
  <2> HIDE DEF r
  <2>8. /\ <<r>> \in Seq(Ranges) /\ Len(<<r>>) = 1 /\ <<r>>[1] = r
        /\ \A i \in 1 .. Len(<<r>>) : i = 1
    BY <2>6
  <2>9. Spaced(<<r>>, 0) /\ \A x \in Int : In(<<r>>, x) <=> Within(x, r)
    BY <2>6, <2>8 DEF Spaced, In
  <2>10. ASSUME NEW x \in Int
         PROVE  Within(x, r) <=> x \in F /\ x < lo + chunk /\ lo .. x \subseteq F
    <3>1. Within(x, r) <=> lo <= x /\ x < lo + chunk /\ x < hi
      BY <2>3, <2>6 DEF Within, Least
    <3>2. ASSUME lo <= x, x < hi PROVE x \in F /\ lo .. x \subseteq F
      BY <2>3, <2>4, <3>2
    <3>3. ASSUME x \in F, lo .. x \subseteq F PROVE lo <= x /\ x < hi
      <4>1. lo <= x
        BY <2>4, <3>3
      <4>2. CASE hi <= x
        BY <2>3, <2>4, <3>3, <4>1, <4>2
      <4> QED BY <2>3, <4>1, <4>2
    <3> QED BY <3>1, <3>2, <3>3
  <2> QED BY <2>5, <2>7, <2>9, <2>10 DEF LowestRun
<1> QED BY <1>4, <1>5

(* Adding range after range does what its equation says.                   *)
LEMMA AddAllLoopEquation ==
  ASSUME NEW items, NEW list, Len(list) \in Nat
  PROVE  LET acc == AddAllLoop(items, list)
         IN  /\ acc[0] = items
             /\ \A i \in 1 .. Len(list) : acc[i] = Add(acc[i - 1], list[i].start, list[i].end)
<1> DEFINE Solves(g, n) ==
             g = [i \in 0 .. n |-> IF i = 0 THEN items ELSE Add(g[i - 1], list[i].start, list[i].end)]
           S == {n \in Nat : \E g : Solves(g, n)}
<1>1. 0 \in S
  <2>1. Solves([i \in 0 .. 0 |-> items], 0)
    OBVIOUS
  <2> QED BY <2>1
<1>2. ASSUME NEW n \in Nat, n \in S PROVE n + 1 \in S
  <2>1. PICK g : Solves(g, n)
    BY <1>2
  <2> DEFINE h == [i \in 0 .. n + 1 |-> IF i <= n THEN g[i]
                                        ELSE Add(g[n], list[n + 1].start, list[n + 1].end)]
  <2>2. \A i \in 0 .. n : g[i] = IF i = 0 THEN items ELSE Add(g[i - 1], list[i].start, list[i].end)
    BY <2>1
  <2>3. \A i \in 0 .. n + 1 : h[i] = IF i = 0 THEN items ELSE Add(h[i - 1], list[i].start, list[i].end)
    <3> TAKE i \in 0 .. n + 1
    <3>1. CASE i <= n
      BY <2>2, <3>1
    <3>2. CASE i = n + 1
      BY <3>2
    <3> QED BY <3>1, <3>2
  <2>4. Solves(h, n + 1)
    BY <2>3
  <2> HIDE DEF h, Solves
  <2> QED BY <2>4
<1> HIDE DEF S
<1>3. Len(list) \in S
  BY <1>1, <1>2, NatSetInduction
<1> DEFINE acc == AddAllLoop(items, list)
<1>4. Solves(acc, Len(list))
  BY <1>3 DEF S, AddAllLoop
<1> HIDE DEF acc
<1>5. /\ acc[0] = items
      /\ \A i \in 1 .. Len(list) : acc[i] = Add(acc[i - 1], list[i].start, list[i].end)
  BY <1>4
<1> QED BY <1>5 DEF acc

(* It adds the offsets of all of them.                                     *)
LEMMA AddAllExact ==
  ASSUME NEW items, Spaced(items, 1), NEW list \in Seq(Ranges)
  PROVE  /\ Spaced(AddAll(items, list), 1)
         /\ \A x \in Int : In(AddAll(items, list), x) <=> In(items, x) \/ In(list, x)
<1> DEFINE acc == AddAllLoop(items, list)
           Good(s, i) ==
             /\ Spaced(s, 1)
             /\ \A x \in Int : In(s, x) <=> In(items, x) \/ \E k \in 1 .. i : Within(x, list[k])
           S == {i \in Nat : i <= Len(list) => Good(acc[i], i)}
<1>1. Len(list) \in Nat /\ \A i \in 1 .. Len(list) : list[i].start \in Int /\ list[i].end \in Int
  BY RangeShape
<1>2. /\ acc[0] = items
      /\ \A i \in 1 .. Len(list) : acc[i] = Add(acc[i - 1], list[i].start, list[i].end)
  BY <1>1, AddAllLoopEquation
<1> HIDE DEF acc, Good
<1>3. 0 \in S
  <2>1. Good(acc[0], 0)
    BY <1>2 DEF Good
  <2> QED BY <2>1
<1>4. ASSUME NEW i \in Nat, i \in S PROVE i + 1 \in S
  <2>1. CASE i + 1 <= Len(list)
    <3> DEFINE s == acc[i]
               t == acc[i + 1]
               start == list[i + 1].start
               end == list[i + 1].end
    <3>1. Good(s, i) /\ i + 1 \in 1 .. Len(list) /\ (i + 1) - 1 = i
      BY <1>1, <1>4, <2>1
    <3>2. t = Add(s, start, end) /\ start \in Int /\ end \in Int
      BY <1>1, <1>2, <3>1
    <3>3. \A x : Within(x, Interval(start, end)) <=> Within(x, list[i + 1])
      BY DEF Within, Interval
    <3>4. \A k : k \in 1 .. i + 1 <=> k = i + 1 \/ k \in 1 .. i
      OBVIOUS
    <3> HIDE DEF s, t, start, end
    <3>5. Spaced(t, 1) /\ \A x \in Int : In(t, x) <=> In(s, x) \/ Within(x, Interval(start, end))
      BY <3>1, <3>2, AddExact DEF Good
    <3>6. Good(t, i + 1)
      BY <3>1, <3>3, <3>4, <3>5 DEF Good
    <3> QED BY <3>6 DEF t
  <2>2. CASE ~(i + 1 <= Len(list))
    BY <2>2
  <2> QED BY <2>1, <2>2
<1> HIDE DEF S
<1>5. Len(list) \in S
  BY <1>1, <1>3, <1>4, NatSetInduction
<1>6. Good(AddAll(items, list), Len(list))
  BY <1>1, <1>5 DEF S, AddAll, acc
<1> QED BY <1>6 DEF Good, In

(***************************************************************************)
(* The slices                                                              *)
(***************************************************************************)

(* Each slice is in order and has the offsets of its set, all of the file. *)
SlicesInv ==
  /\ Spaced(present, 1) /\ \A x \in Int : In(present, x) <=> x \in presentSet
  /\ Spaced(inflight, 1) /\ \A x \in Int : In(inflight, x) <=> x \in inflightSet
  /\ presentSet \subseteq Blocks /\ inflightSet \subseteq Blocks

(* Every operation keeps that.                                             *)
LEMMA SlicesStep == SlicesInv /\ [Next]_vars => SlicesInv'
<1> SUFFICES ASSUME SlicesInv, [Next]_vars PROVE SlicesInv'
  OBVIOUS
<1>1. Size \in Nat \ {0} /\ Chunk \in Nat \ {0} /\ Blocks = 0 .. Size - 1
  BY SparseFileAssumption DEF Blocks
<1>2. \A s, e : Interval(s, e).start = s /\ Interval(s, e).end = e
  BY DEF Interval
<1>3. CASE UNCHANGED vars
  BY <1>3 DEF vars, SlicesInv
<1>4. ASSUME NEW start \in Blocks, NEW end \in start + 1 .. Size, WriteAt(start, end)
      PROVE  SlicesInv'
  <2>1. /\ present' = Add(present, start, end) /\ presentSet' = presentSet \cup (start .. end - 1)
        /\ inflight' = inflight /\ inflightSet' = inflightSet
    BY <1>4 DEF WriteAt
  <2>2. start \in Int /\ end \in Int /\ 0 <= start /\ end <= Size
    BY <1>1
  <2>3. /\ Spaced(present', 1)
        /\ \A x \in Int : In(present', x) <=> In(present, x) \/ Within(x, Interval(start, end))
    BY <2>1, <2>2, AddExact DEF SlicesInv
  <2>4. \A x \in Int : Within(x, Interval(start, end)) <=> x \in start .. end - 1
    BY <1>2, <2>2 DEF Within
  <2>5. presentSet' \subseteq Blocks
    BY <1>1, <2>1, <2>2 DEF SlicesInv
  <2> QED BY <2>1, <2>3, <2>4, <2>5 DEF SlicesInv
<1>5. ASSUME NEW start \in Blocks, NEW end \in start + 1 .. Size, ReleaseInflight(start, end)
      PROVE  SlicesInv'
  <2>1. /\ inflight' = Remove(inflight, start, end) /\ inflightSet' = inflightSet \ (start .. end - 1)
        /\ present' = present /\ presentSet' = presentSet
    BY <1>5 DEF ReleaseInflight
  <2>2. start \in Int /\ end \in Int
    BY <1>1
  <2>3. /\ Spaced(inflight', 1)
        /\ \A x \in Int : In(inflight', x) <=> In(inflight, x) /\ ~Within(x, Interval(start, end))
    BY <2>1, <2>2, RemoveExact DEF SlicesInv
  <2>4. \A x \in Int : Within(x, Interval(start, end)) <=> x \in start .. end - 1
    BY <1>2, <2>2 DEF Within
  <2> QED BY <2>1, <2>3, <2>4 DEF SlicesInv
<1>6. ASSUME NEW start \in Blocks, Reserve(start, start + Chunk) PROVE SlicesInv'
  <2> DEFINE end == start + Chunk
             list == ReserveList(present, inflight, start, end, Size, Chunk)
  <2>1. start \in Int /\ end \in Int
    BY <1>1
  <2>2. /\ inflight' = AddAll(inflight, list)
        /\ inflightSet' = inflightSet \cup (((start .. end - 1) \cap Blocks) \ presentSet)
        /\ present' = present /\ presentSet' = presentSet
    BY <1>6 DEF Reserve
  <2> HIDE DEF end
  <2>3. /\ Spaced(list, 0)
        /\ \A x \in Int : In(list, x) <=> /\ start <= x /\ x < end /\ 0 <= x /\ x < Size
                                         /\ ~In(present, x) /\ ~In(inflight, x)
    BY <1>1, <2>1, ReserveExact DEF SlicesInv
  <2> HIDE DEF list
  <2>4. /\ Spaced(inflight', 1)
        /\ \A x \in Int : In(inflight', x) <=> In(inflight, x) \/ In(list, x)
    BY <2>2, <2>3, AddAllExact DEF SlicesInv, Spaced
  <2>5. \A x \in Int : x \in (start .. end - 1) \cap Blocks <=> start <= x /\ x < end /\ 0 <= x /\ x < Size
    BY <1>1, <2>1
  <2>6. inflightSet' \subseteq Blocks
    BY <2>2 DEF SlicesInv
  <2>7. \A x \in Int : In(inflight', x) <=> x \in inflightSet'
    BY <2>2, <2>3, <2>4, <2>5 DEF SlicesInv
  <2> QED BY <2>2, <2>4, <2>6, <2>7 DEF SlicesInv
<1>7. CASE ReserveLowest
  <2> DEFINE free == Blocks \ (presentSet \cup inflightSet)
             first == CHOOSE b \in free : \A c \in free : b <= c
             list == LowestList(present, inflight, Size, Chunk)
             lowest == IF free = {} THEN {}
                       ELSE {b \in free : b < first + Chunk /\ first .. b \subseteq free}
  <2>1. /\ inflight' = AddAll(inflight, list) /\ inflightSet' = inflightSet \cup lowest
        /\ present' = present /\ presentSet' = presentSet
    BY <1>7 DEF ReserveLowest
  <2>2. \A x \in Int : x \in free <=> 0 <= x /\ x < Size /\ ~In(present, x) /\ ~In(inflight, x)
    BY <1>1 DEF SlicesInv
  <2>3. free \subseteq Blocks /\ free \subseteq Int
    BY <1>1
  <2> HIDE DEF free
  <2>4. Spaced(list, 0) /\ LowestRun(list, free, Chunk)
    <3>1. Spaced(present, 1) /\ Spaced(inflight, 1)
      BY DEF SlicesInv
    <3> QED BY <1>1, <2>2, <2>3, <3>1, LowestExact
  <2> HIDE DEF list
  <2>5. \A x \in Int : In(list, x) <=> x \in lowest
    <3>1. CASE free = {}
      BY <2>4, <3>1 DEF LowestRun
    <3>2. CASE free # {}
      <4>1. PICK f \in free :
              /\ \A c \in free : f <= c
              /\ \A x \in Int : In(list, x) <=> x \in free /\ x < f + Chunk /\ f .. x \subseteq free
        BY <2>4, <3>2 DEF LowestRun
      <4>2. first \in free /\ \A c \in free : first <= c
        BY <4>1
      <4> HIDE DEF first
      <4>3. first = f
        BY <2>3, <4>1, <4>2
      <4> QED BY <3>2, <4>1, <4>3
    <3> QED BY <3>1, <3>2
  <2>6. lowest \subseteq Blocks
    BY <2>3
  <2> HIDE DEF lowest
  <2>7. /\ Spaced(inflight', 1)
        /\ \A x \in Int : In(inflight', x) <=> In(inflight, x) \/ In(list, x)
    BY <2>1, <2>4, AddAllExact DEF SlicesInv, Spaced
  <2> QED BY <2>1, <2>5, <2>6, <2>7 DEF SlicesInv
<1> QED BY <1>3, <1>4, <1>5, <1>6, <1>7 DEF Next

(* It holds of an empty file.                                              *)
LEMMA SlicesInit == Init => SlicesInv
<1>1. <<>> \in Seq(Ranges) /\ Len(<<>>) = 0
  BY EmptySeq
<1> QED BY <1>1 DEF Init, SlicesInv, Spaced, In

(* So each slice is canonical and stands for its set.                      *)
LEMMA SlicesInvExact == SlicesInv => SlicesExact
<1> SUFFICES ASSUME SlicesInv PROVE SlicesExact
  OBVIOUS
<1>1. ASSUME NEW s, Spaced(s, 1) PROVE Canonical(s)
  <2>1. Len(s) \in Nat /\ DOMAIN s = 1 .. Len(s)
    BY <1>1, RangeShape DEF Spaced
  <2>2. ASSUME NEW i \in 1 .. Len(s) - 1 PROVE s[i].end < s[i + 1].start
    <3>1. i \in 1 .. Len(s) /\ i + 1 \in 1 .. Len(s) /\ i < i + 1
      BY <2>1
    <3>2. s[i].end + 1 <= s[i + 1].start
      BY <1>1, <3>1 DEF Spaced
    <3>3. s[i].end \in Int /\ s[i + 1].start \in Int
      BY <1>1, <3>1, RangeShape DEF Spaced
    <3> QED BY <3>2, <3>3
  <2> QED BY <1>1, <2>1, <2>2 DEF Canonical, Spaced
<1>2. ASSUME NEW s, Spaced(s, 1), NEW T, T \subseteq Blocks, \A x \in Int : In(s, x) <=> x \in T
      PROVE  Offsets(s) = T
  <2>1. T \subseteq Int
    BY <1>2, SparseFileAssumption DEF Blocks
  <2> QED BY <1>2, <2>1, OffsetsAreIn DEF Spaced
<1> QED BY <1>1, <1>2 DEF SlicesInv, SlicesExact, SlicesCanonical, SlicesTrackSets

(***************************************************************************)
(* How many offsets a slice stands for                                     *)
(***************************************************************************)

(* totalBytes sums the lengths, range after range.                         *)
LEMMA TotalLoopEquation ==
  ASSUME NEW items, Len(items) \in Nat
  PROVE  LET total == TotalLoop(items)
         IN  /\ total[0] = 0
             /\ \A i \in 1 .. Len(items) : total[i] = total[i - 1] + (items[i].end - items[i].start)
<1> DEFINE Solves(g, n) == g = [i \in 0 .. n |-> IF i = 0 THEN 0
                                                 ELSE g[i - 1] + (items[i].end - items[i].start)]
           S == {n \in Nat : \E g : Solves(g, n)}
<1>1. 0 \in S
  <2>1. Solves([i \in 0 .. 0 |-> 0], 0)
    OBVIOUS
  <2> QED BY <2>1
<1>2. ASSUME NEW n \in Nat, n \in S PROVE n + 1 \in S
  <2>1. PICK g : Solves(g, n)
    BY <1>2
  <2> DEFINE h == [i \in 0 .. n + 1 |-> IF i <= n THEN g[i]
                                        ELSE g[n] + (items[n + 1].end - items[n + 1].start)]
  <2>2. \A i \in 0 .. n : g[i] = IF i = 0 THEN 0 ELSE g[i - 1] + (items[i].end - items[i].start)
    BY <2>1
  <2>3. \A i \in 0 .. n + 1 : h[i] = IF i = 0 THEN 0 ELSE h[i - 1] + (items[i].end - items[i].start)
    <3> TAKE i \in 0 .. n + 1
    <3>1. CASE i <= n
      BY <2>2, <3>1
    <3>2. CASE i = n + 1
      BY <3>2
    <3> QED BY <3>1, <3>2
  <2>4. Solves(h, n + 1)
    BY <2>3
  <2> HIDE DEF h, Solves
  <2> QED BY <2>4
<1> HIDE DEF S
<1>3. Len(items) \in S
  BY <1>1, <1>2, NatSetInduction
<1> DEFINE total == TotalLoop(items)
<1>4. Solves(total, Len(items))
  BY <1>3 DEF S, TotalLoop
<1> HIDE DEF total
<1>5. /\ total[0] = 0
      /\ \A i \in 1 .. Len(items) : total[i] = total[i - 1] + (items[i].end - items[i].start)
  BY <1>4
<1> QED BY <1>5 DEF total

(* A range has as many offsets as it is long.                              *)
LEMMA SpanLength ==
  ASSUME NEW it, it.start \in Int, it.end \in Int, it.start < it.end
  PROVE  IsFiniteSet(Span(it)) /\ Cardinality(Span(it)) = it.end - it.start
<1>1. it.end - 1 \in Int /\ ~(it.start > it.end - 1) /\ it.end - 1 - it.start + 1 = it.end - it.start
  OBVIOUS
<1> QED BY <1>1, FS_Interval DEF Span

(* Of ranges in order no offset is counted twice.                          *)
LEMMA TotalExact ==
  ASSUME NEW s, Spaced(s, 0)
  PROVE  IsFiniteSet(Offsets(s)) /\ TotalBytes(s) = Cardinality(Offsets(s))
<1> DEFINE Upto(k) == UNION {Span(s[i]) : i \in 1 .. k}
           total == TotalLoop(s)
           S == {k \in Nat : k <= Len(s) => /\ IsFiniteSet(Upto(k))
                                            /\ Cardinality(Upto(k)) = total[k]}
<1>1. /\ Len(s) \in Nat /\ DOMAIN s = 1 .. Len(s)
      /\ \A i \in 1 .. Len(s) : s[i].start \in Int /\ s[i].end \in Int /\ s[i].start < s[i].end
  BY RangeShape DEF Spaced
<1>2. /\ total[0] = 0
      /\ \A i \in 1 .. Len(s) : total[i] = total[i - 1] + (s[i].end - s[i].start)
  BY <1>1, TotalLoopEquation
<1> HIDE DEF total
<1>3. 0 \in S
  <2>1. Upto(0) = {}
    OBVIOUS
  <2> QED BY <1>2, <2>1, FS_EmptySet
<1>4. ASSUME NEW n \in Nat, n \in S PROVE n + 1 \in S
  <2>1. CASE n + 1 <= Len(s)
    <3>1. n + 1 \in 1 .. Len(s) /\ n <= Len(s) /\ (n + 1) - 1 = n
      BY <1>1, <2>1
    <3>2. Upto(n + 1) = Upto(n) \cup Span(s[n + 1])
      <4>1. 1 .. n + 1 = (1 .. n) \cup {n + 1}
        OBVIOUS
      <4> QED BY <4>1
    <3>3. ASSUME NEW i \in 1 .. n PROVE Span(s[i]) \cap Span(s[n + 1]) = {}
      <4>1. i \in 1 .. Len(s) /\ i < n + 1
        BY <1>1, <3>1
      <4>2. s[i].end + 0 <= s[n + 1].start
        BY <3>1, <4>1 DEF Spaced
      <4>3. s[i].end \in Int /\ s[n + 1].start \in Int /\ s[i].start \in Int
        BY <1>1, <3>1, <4>1
      <4> QED BY <4>2, <4>3 DEF Span
    <3>4. Upto(n) \cap Span(s[n + 1]) = {}
      BY <3>3
    <3>5. IsFiniteSet(Upto(n)) /\ Cardinality(Upto(n)) = total[n]
      BY <1>4, <3>1
    <3>6. IsFiniteSet(Span(s[n + 1])) /\ Cardinality(Span(s[n + 1])) = s[n + 1].end - s[n + 1].start
      BY <1>1, <3>1, SpanLength
    <3>7. Cardinality(Upto(n)) \in Nat
      BY <3>5, FS_CardinalityType
    <3>8. total[n + 1] = total[n] + (s[n + 1].end - s[n + 1].start)
      BY <1>2, <3>1
    <3>9. s[n + 1].start \in Int /\ s[n + 1].end \in Int
      BY <1>1, <3>1
    <3> HIDE DEF Upto
    <3>10. /\ IsFiniteSet(Upto(n) \cup Span(s[n + 1]))
           /\ Cardinality(Upto(n) \cup Span(s[n + 1]))
                = Cardinality(Upto(n)) + Cardinality(Span(s[n + 1]))
      <4>1. Cardinality(Upto(n) \cap Span(s[n + 1])) = 0
        BY <3>4, FS_EmptySet
      <4>2. Cardinality(Upto(n) \cup Span(s[n + 1]))
              = Cardinality(Upto(n)) + Cardinality(Span(s[n + 1])) - Cardinality(Upto(n) \cap Span(s[n + 1]))
        BY <3>5, <3>6, FS_Union
      <4> QED BY <3>5, <3>6, <3>7, <3>9, <4>1, <4>2, FS_Union
    <3>11. IsFiniteSet(Upto(n + 1)) /\ Cardinality(Upto(n + 1)) = total[n + 1]
      BY <3>2, <3>5, <3>6, <3>8, <3>10
    <3> QED BY <3>11
  <2>2. CASE ~(n + 1 <= Len(s))
    BY <2>2
  <2> QED BY <2>1, <2>2
<1> HIDE DEF S
<1>5. Len(s) \in S
  BY <1>1, <1>3, <1>4, NatSetInduction
<1>6. Upto(Len(s)) = Offsets(s)
  BY <1>1 DEF Offsets
<1>7. TotalBytes(s) = total[Len(s)]
  BY DEF TotalBytes, total
<1> HIDE DEF Upto
<1>8. IsFiniteSet(Upto(Len(s))) /\ Cardinality(Upto(Len(s))) = total[Len(s)]
  BY <1>1, <1>5 DEF S
<1> QED BY <1>6, <1>7, <1>8

(* With exact slices reserve hands out what is free.                       *)
LEMMA SlicesInvReserves == SlicesInv => ReservesFreeOffsets
<1> SUFFICES ASSUME SlicesInv, NEW start \in -1 .. Size, NEW end \in start .. Size + 1
             PROVE  LET out == ReserveList(present, inflight, start, end, Size, Chunk)
                    IN  /\ Offsets(out) = ((start .. end - 1) \cap Blocks) \ (presentSet \cup inflightSet)
                        /\ TotalBytes(out) = Cardinality(Offsets(out))
                        /\ \A i \in DOMAIN out : Cardinality(Span(out[i])) \in 1 .. Chunk
  BY DEF ReservesFreeOffsets
<1> DEFINE out == ReserveList(present, inflight, start, end, Size, Chunk)
<1>1. Size \in Nat /\ Chunk \in Nat \ {0} /\ Blocks = 0 .. Size - 1 /\ start \in Int /\ end \in Int
  BY SparseFileAssumption DEF Blocks
<1>2. /\ Spaced(present, 1) /\ \A x \in Int : In(present, x) <=> x \in presentSet
      /\ Spaced(inflight, 1) /\ \A x \in Int : In(inflight, x) <=> x \in inflightSet
  BY DEF SlicesInv
<1>3. /\ Spaced(out, 0)
      /\ \A x \in Int : In(out, x) <=> /\ start <= x /\ x < end /\ 0 <= x /\ x < Size
                                      /\ ~In(present, x) /\ ~In(inflight, x)
      /\ \A i \in 1 .. Len(out) : out[i].end - out[i].start <= Chunk
  BY <1>1, <1>2, ReserveExact
<1> HIDE DEF out
<1>4. /\ DOMAIN out = 1 .. Len(out)
      /\ \A i \in 1 .. Len(out) : out[i].start \in Int /\ out[i].end \in Int /\ out[i].start < out[i].end
  BY <1>3, RangeShape DEF Spaced
<1>5. Offsets(out) = ((start .. end - 1) \cap Blocks) \ (presentSet \cup inflightSet)
  <2>1. Offsets(out) \subseteq Int /\ \A x \in Int : x \in Offsets(out) <=> In(out, x)
    BY <1>3, OffsetsAreIn DEF Spaced
  <2>2. \A x \in Int : x \in (start .. end - 1) \cap Blocks <=> start <= x /\ x < end /\ 0 <= x /\ x < Size
    BY <1>1
  <2>3. (start .. end - 1) \subseteq Int
    BY <1>1
  <2> QED BY <1>2, <1>3, <2>1, <2>2, <2>3
<1>6. ASSUME NEW i \in 1 .. Len(out) PROVE Cardinality(Span(out[i])) \in 1 .. Chunk
  <2>1. Cardinality(Span(out[i])) = out[i].end - out[i].start
    BY <1>4, SpanLength
  <2>2. out[i].start \in Int /\ out[i].end \in Int /\ out[i].start < out[i].end
    BY <1>4
  <2>3. out[i].end - out[i].start <= Chunk
    BY <1>3
  <2> QED BY <1>1, <2>1, <2>2, <2>3
<1>7. TotalBytes(out) = Cardinality(Offsets(out))
  BY <1>3, TotalExact
<1> QED BY <1>4, <1>5, <1>6, <1>7 DEF out

(***************************************************************************)
(* The queries                                                             *)
(***************************************************************************)

(* Just before and just after a range of a merged slice nothing is in it.  *)
LEMMA RangeEnds ==
  ASSUME NEW s, Spaced(s, 1), NEW i \in 1 .. Len(s)
  PROVE  ~In(s, s[i].end) /\ ~In(s, s[i].start - 1)
<1>1. /\ Len(s) \in Nat
      /\ \A k \in 1 .. Len(s) : s[k].start \in Int /\ s[k].end \in Int /\ s[k].start < s[k].end
  BY RangeShape DEF Spaced
<1>2. ASSUME NEW k \in 1 .. Len(s)
      PROVE  \/ k = i
             \/ s[k].end + 1 <= s[i].start
             \/ s[i].end + 1 <= s[k].start
  <2>1. i = k \/ i < k \/ k < i
    BY <1>1
  <2> QED BY <2>1 DEF Spaced
<1>3. ASSUME NEW k \in 1 .. Len(s)
      PROVE  ~Within(s[i].end, s[k]) /\ ~Within(s[i].start - 1, s[k])
  <2>1. /\ s[i].start \in Int /\ s[i].end \in Int /\ s[i].start < s[i].end
        /\ s[k].start \in Int /\ s[k].end \in Int /\ s[k].start < s[k].end
    BY <1>1
  <2>2. CASE k = i
    BY <2>1, <2>2 DEF Within
  <2>3. CASE s[k].end + 1 <= s[i].start
    BY <2>1, <2>3 DEF Within
  <2>4. CASE s[i].end + 1 <= s[k].start
    BY <2>1, <2>4 DEF Within
  <2> QED BY <1>2, <2>2, <2>3, <2>4
<1> QED BY <1>3 DEF In

(* runEnd answers with the first offset from off on that is not in the     *)
(* slice.                                                                  *)
LEMMA RunEndExact ==
  ASSUME NEW s, Spaced(s, 1), NEW off \in Int
  PROVE  /\ RunEnd(s, off) \in Int
         /\ \A x \in Int : off <= x /\ x < RunEnd(s, off) => In(s, x)
         /\ ~In(s, RunEnd(s, off))
<1>1. /\ DOMAIN s = 1 .. Len(s)
      /\ \A i \in 1 .. Len(s) : s[i].start \in Int /\ s[i].end \in Int
  BY RangeShape DEF Spaced
<1>2. \A i \in 1 .. Len(s) : off \in Span(s[i]) <=> Within(off, s[i])
  BY <1>1 DEF Span, Within
<1>3. CASE \E i \in DOMAIN s : off \in Span(s[i])
  <2> DEFINE i == CHOOSE k \in DOMAIN s : off \in Span(s[k])
  <2>1. i \in DOMAIN s /\ off \in Span(s[i])
    BY <1>3
  <2>2. RunEnd(s, off) = s[i].end
    BY <1>3 DEF RunEnd
  <2> HIDE DEF i
  <2>3. i \in 1 .. Len(s) /\ Within(off, s[i])
    BY <1>1, <1>2, <2>1
  <2>4. \A x \in Int : off <= x /\ x < s[i].end => Within(x, s[i])
    BY <1>1, <2>3 DEF Within
  <2> QED BY <1>1, <2>2, <2>3, <2>4, RangeEnds DEF In
<1>4. CASE ~\E i \in DOMAIN s : off \in Span(s[i])
  <2>1. RunEnd(s, off) = off
    BY <1>4 DEF RunEnd
  <2>2. ~In(s, off)
    BY <1>1, <1>2, <1>4 DEF In
  <2> QED BY <2>1, <2>2
<1> QED BY <1>3, <1>4

(* covers: one range holds the whole window exactly when all of it is      *)
(* there.                                                                  *)
LEMMA CoversExact ==
  ASSUME NEW s, Spaced(s, 1), NEW start \in Int, NEW end \in Int, start < end
  PROVE  Covers(s, start, end) <=> \A x \in Int : start <= x /\ x < end => In(s, x)
<1>1. /\ DOMAIN s = 1 .. Len(s)
      /\ \A i \in 1 .. Len(s) : s[i].start \in Int /\ s[i].end \in Int
  BY RangeShape DEF Spaced
<1>2. Covers(s, start, end) <=> \E i \in 1 .. Len(s) : s[i].start <= start /\ s[i].end >= end
  BY <1>1 DEF Covers
<1>3. ASSUME NEW i \in 1 .. Len(s), s[i].start <= start, s[i].end >= end, NEW x \in Int, start <= x, x < end
      PROVE  Within(x, s[i])
  BY <1>1, <1>3 DEF Within
<1>4. ASSUME \A x \in Int : start <= x /\ x < end => In(s, x)
      PROVE  \E i \in 1 .. Len(s) : s[i].start <= start /\ s[i].end >= end
  <2>1. PICK i \in 1 .. Len(s) : s[i].start <= start /\ start < s[i].end
    BY <1>4 DEF In, Within
  <2>2. s[i].start \in Int /\ s[i].end \in Int /\ ~In(s, s[i].end)
    BY <1>1, RangeEnds
  <2>3. ~(s[i].end < end)
    BY <1>4, <2>1, <2>2
  <2>4. s[i].end >= end
    BY <2>2, <2>3
  <2> QED BY <2>1, <2>4
<1> QED BY <1>2, <1>3, <1>4 DEF In

(* missing answers with the maximal runs of what is not there.             *)
LEMMA MissingRuns ==
  ASSUME NEW s, Spaced(s, 1), NEW start \in Int, NEW end \in Int, start < end,
         NEW S, \A x \in Int : start <= x /\ x < end => (x \in S <=> ~In(s, x))
  PROVE  {Missing(s, start, end)[i] : i \in DOMAIN Missing(s, start, end)} = RunsIn(S, start, end)
<1> DEFINE gaps == Missing(s, start, end)
<1>1. /\ Spaced(gaps, 1) /\ StartsFrom(gaps, start) /\ EndsBy(gaps, end)
      /\ Maximal(gaps, s, start, end)
      /\ \A x \in Int : In(gaps, x) <=> start <= x /\ x < end /\ ~In(s, x)
  BY MissingExact
<1> HIDE DEF gaps
<1>2. /\ DOMAIN gaps = 1 .. Len(gaps)
      /\ \A i \in 1 .. Len(gaps) : /\ gaps[i] \in Ranges
                                   /\ gaps[i].start \in Int /\ gaps[i].end \in Int
                                   /\ gaps[i].start < gaps[i].end
  BY <1>1, RangeShape DEF Spaced
<1>3. ASSUME NEW it \in Ranges PROVE it = Interval(it.start, it.end)
  BY DEF Ranges, Interval
<1>4. ASSUME NEW i \in 1 .. Len(gaps)
      PROVE  /\ start <= gaps[i].start /\ gaps[i].end <= end
             /\ \A x \in Int : Within(x, gaps[i]) => start <= x /\ x < end /\ x \in S /\ ~In(s, x)
             /\ gaps[i].start = start \/ In(s, gaps[i].start - 1)
             /\ gaps[i].end = end \/ In(s, gaps[i].end)
  <2>1. \A x \in Int : Within(x, gaps[i]) => start <= x /\ x < end /\ ~In(s, x)
    BY <1>1 DEF In
  <2> QED BY <1>1, <2>1 DEF StartsFrom, EndsBy, Maximal
<1>5. \A a, b : Interval(a, b).start = a /\ Interval(a, b).end = b
  BY DEF Interval
<1>6. \A a \in Int, b \in Int : Span(Interval(a, b)) = a .. b - 1
  BY <1>5 DEF Span
<1>7. ASSUME NEW i \in 1 .. Len(gaps) PROVE gaps[i] \in RunsIn(S, start, end)
  <2> DEFINE a == gaps[i].start
             b == gaps[i].end
  <2>1. /\ a \in Int /\ b \in Int /\ a < b /\ start <= a /\ b <= end
        /\ a = start \/ In(s, a - 1)
        /\ b = end \/ In(s, b)
        /\ \A x \in Int : a <= x /\ x < b => x \in S
    BY <1>2, <1>4 DEF Within
  <2>2. gaps[i] = Interval(a, b)
    BY <1>2, <1>3
  <2> HIDE DEF a, b
  <2>3. a \in start .. end - 1 /\ b \in start + 1 .. end /\ a .. b - 1 \subseteq S
    BY <2>1
  <2>4. a = start \/ a - 1 \notin S
    BY <2>1
  <2>5. b = end \/ b \notin S
    BY <2>1
  <2>6. Interval(a, b) \in {Interval(u, v) : u \in start .. end - 1, v \in start + 1 .. end}
    BY <2>3
  <2>7. /\ Interval(a, b).start = a /\ Interval(a, b).end = b
        /\ Span(Interval(a, b)) = a .. b - 1
    BY <1>5, <1>6, <2>1
  <2>8. Interval(a, b) \in RunsIn(S, start, end)
    <3> DEFINE r == Interval(a, b)
    <3>1. /\ r.start < r.end /\ Span(r) \subseteq S
          /\ r.start = start \/ r.start - 1 \notin S
          /\ r.end = end \/ r.end \notin S
      BY <2>1, <2>3, <2>4, <2>5, <2>7
    <3>2. r \in {Interval(u, v) : u \in start .. end - 1, v \in start + 1 .. end}
      BY <2>6
    <3> HIDE DEF r
    <3>3. r \in RunsIn(S, start, end)
      BY <3>1, <3>2 DEF RunsIn
    <3> QED BY <3>3 DEF r
  <2> QED BY <2>2, <2>8
<1>8. ASSUME NEW it \in RunsIn(S, start, end) PROVE \E i \in 1 .. Len(gaps) : it = gaps[i]
  <2>1. PICK a \in start .. end - 1, b \in start + 1 .. end : it = Interval(a, b)
    BY <1>8 DEF RunsIn
  <2>2. a \in Int /\ b \in Int /\ start <= a /\ a < end /\ b <= end
    OBVIOUS
  <2>3. /\ a < b /\ a .. b - 1 \subseteq S
        /\ a = start \/ a - 1 \notin S
        /\ b = end \/ b \notin S
    BY <1>5, <1>6, <1>8, <2>1, <2>2 DEF RunsIn
  <2>4. \A x \in Int : a <= x /\ x < b => x \in S
    BY <2>2, <2>3
  <2>5. PICK i \in 1 .. Len(gaps) : gaps[i].start <= a /\ a < gaps[i].end
    <3>1. In(gaps, a)
      BY <1>1, <2>2, <2>3, <2>4
    <3> QED BY <3>1 DEF In, Within
  <2> DEFINE lo == gaps[i].start
             hi == gaps[i].end
  <2>6. /\ lo \in Int /\ hi \in Int /\ lo <= a /\ a < hi /\ start <= lo /\ hi <= end
        /\ hi = end \/ In(s, hi)
        /\ \A x \in Int : lo <= x /\ x < hi => x \in S
    BY <1>2, <1>4, <2>5 DEF Within
  <2>7. gaps[i] = Interval(lo, hi)
    BY <1>2, <1>3
  <2> HIDE DEF lo, hi
  <2>8. lo = a
    <3>1. CASE lo < a
      <4>1. lo <= a - 1 /\ a - 1 < hi /\ a # start /\ a - 1 \in Int
        BY <2>2, <2>6, <3>1
      <4> QED BY <2>3, <2>6, <4>1
    <3> QED BY <2>2, <2>6, <3>1
  <2>9. hi = b
    <3>1. CASE hi < b
      <4>1. hi # end /\ start <= hi /\ hi < end /\ hi \in S
        BY <2>2, <2>4, <2>6, <3>1
      <4> QED BY <2>6, <4>1
    <3>2. CASE b < hi
      <4>1. b # end /\ lo <= b /\ b \in S
        BY <2>2, <2>3, <2>6, <3>2
      <4> QED BY <2>3, <4>1
    <3> QED BY <2>2, <2>6, <3>1, <3>2
  <2> QED BY <2>1, <2>7, <2>8, <2>9
<1>9. {gaps[i] : i \in DOMAIN gaps} = RunsIn(S, start, end)
  BY <1>2, <1>7, <1>8
<1> QED BY <1>9 DEF gaps

(* With exact slices every query answers for the set the slice stands for. *)
LEMMA SlicesInvQueries == SlicesInv => QueriesAgree
<1> SUFFICES ASSUME SlicesInv PROVE QueriesAgree
  OBVIOUS
<1>1. Size \in Nat /\ Blocks = 0 .. Size - 1
  BY SparseFileAssumption DEF Blocks
<1>2. /\ Spaced(present, 1) /\ presentSet \subseteq Blocks
      /\ \A x \in Int : In(present, x) <=> x \in presentSet
  BY DEF SlicesInv
<1>3. TotalBytes(present) = Cardinality(presentSet)
  <2>1. Spaced(present, 0)
    <3>1. /\ present \in Seq(Ranges)
          /\ \A i \in 1 .. Len(present) : present[i].start \in Int /\ present[i].end \in Int
      BY <1>2, RangeShape DEF Spaced
    <3> QED BY <1>2, <3>1 DEF Spaced
  <2>2. Offsets(present) = presentSet
    <3>1. Offsets(present) \subseteq Int /\ \A x \in Int : x \in Offsets(present) <=> In(present, x)
      BY <1>2, OffsetsAreIn DEF Spaced
    <3>2. presentSet \subseteq Int
      BY <1>1, <1>2
    <3> QED BY <1>2, <3>1, <3>2
  <2> QED BY <2>1, <2>2, TotalExact
<1>4. ASSUME NEW start \in Blocks
      PROVE  /\ start .. RunEnd(present, start) - 1 \subseteq presentSet
             /\ RunEnd(present, start) \notin presentSet
  <2> DEFINE e == RunEnd(present, start)
  <2>1. start \in Int
    BY <1>1
  <2>2. e \in Int /\ ~In(present, e) /\ \A x \in Int : start <= x /\ x < e => In(present, x)
    BY <1>2, <2>1, RunEndExact
  <2> HIDE DEF e
  <2>3. e \notin presentSet /\ start .. e - 1 \subseteq presentSet
    BY <1>2, <2>1, <2>2
  <2> QED BY <2>3 DEF e
<1>5. ASSUME NEW start \in Blocks, NEW end \in start + 1 .. Size
      PROVE  /\ Covers(present, start, end) <=> start .. end - 1 \subseteq presentSet
             /\ {Missing(present, start, end)[i] : i \in DOMAIN Missing(present, start, end)}
                  = RunsIn(Blocks \ presentSet, start, end)
  <2>1. start \in Int /\ end \in Int /\ start < end /\ 0 <= start /\ end <= Size
    BY <1>1
  <2>2. Covers(present, start, end) <=> \A x \in Int : start <= x /\ x < end => In(present, x)
    BY <1>2, <2>1, CoversExact
  <2>3. (\A x \in Int : start <= x /\ x < end => x \in presentSet) <=> start .. end - 1 \subseteq presentSet
    BY <2>1
  <2>4. Covers(present, start, end) <=> start .. end - 1 \subseteq presentSet
    BY <1>2, <2>2, <2>3
  <2>5. \A x \in Int : start <= x /\ x < end => (x \in Blocks \ presentSet <=> ~In(present, x))
    BY <1>1, <1>2, <2>1
  <2>6. {Missing(present, start, end)[i] : i \in DOMAIN Missing(present, start, end)}
          = RunsIn(Blocks \ presentSet, start, end)
    BY <1>2, <2>1, <2>5, MissingRuns
  <2> QED BY <2>4, <2>6
<1> QED BY <1>3, <1>4, <1>5 DEF QueriesAgree

(* After any sequence of operations the slices are sorted, merged and      *)
(* never adjacent, and stand for the offsets they should (intervalSet.add, *)
(* remove, SparseFile.reserve, reserveLowest, releaseInflight).            *)
THEOREM FileSlicesExact == Spec => []SlicesExact
BY SlicesInit, SlicesStep, SlicesInvExact, PTL DEF Spec

(* reserve hands out exactly what is free of its window, so no two fills   *)
(* fetch the same offset and none is left out (reserve, sparse.go).        *)
THEOREM FileReservesFreeOffsets == Spec => []ReservesFreeOffsets
<1>1. SlicesInv => ReservesFreeOffsets
  BY SlicesInvReserves
<1> QED BY <1>1, SlicesInit, SlicesStep, PTL DEF Spec

(* Presence of a whole range, the gaps of a window, the end of a run and   *)
(* the byte count are answered for what was written (covers, missing,      *)
(* runEnd and totalBytes, sparse.go).                                      *)
THEOREM FileQueriesAgree == Spec => []QueriesAgree
<1>1. SlicesInv => QueriesAgree
  BY SlicesInvQueries
<1> QED BY <1>1, SlicesInit, SlicesStep, PTL DEF Spec
=============================================================================
