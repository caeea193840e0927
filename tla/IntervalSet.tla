---------------------------- MODULE IntervalSet -----------------------------
(***************************************************************************)
(* The interval sets of sparse.go: a slice of half-open ranges kept        *)
(* sorted, merged and never adjacent, and the loops over it.               *)
(*                                                                         *)
(* A loop that walks the slice is a function of the number of turns: its   *)
(* value is what the loop's variables hold after them.  Where the code     *)
(* leaves a loop early (missing), the remaining ranges all start at or     *)
(* after the end of the window, so the loop's step ignores them.           *)
(***************************************************************************)
EXTENDS Integers, Sequences
SeqX == INSTANCE SequencesExt

(* Variants with a plausible bug; each breaks one of SparseFile's          *)
(* properties in its original's place.                                     *)
BugBefore(it, new) == it.end <= new.start
BugCovers(items, start, end) == \E i \in DOMAIN items : items[i].end >= end
BugPieces(sub, chunk) == <<sub>>

Interval(start, end) == [start |-> start, end |-> end]

Least(a, b) == IF a <= b THEN a ELSE b
Most(a, b)  == IF a >= b THEN a ELSE b

(* The offsets a range, or a slice of ranges, stands for.                  *)
Span(it) == it.start .. it.end - 1
Offsets(items) == UNION {Span(items[i]) : i \in DOMAIN items}

(* intervalSet.add: one range of the old slice is kept before the new one, *)
(* kept after it, or absorbed into it.                                     *)
Before(it, new) == it.end < new.start

AddStep(acc, it) ==
  CASE Before(it, acc.new) -> [out |-> Append(acc.out, it), new |-> acc.new,
                               inserted |-> acc.inserted]
    [] it.start > acc.new.end ->
         [out |-> Append(IF acc.inserted THEN acc.out ELSE Append(acc.out, acc.new), it),
          new |-> acc.new, inserted |-> TRUE]
    [] OTHER -> [out |-> acc.out, inserted |-> acc.inserted,
                 new |-> Interval(Least(acc.new.start, it.start), Most(acc.new.end, it.end))]

AddLoop(items, start, end) ==
  LET acc[i \in 0 .. Len(items)] ==
        IF i = 0 THEN [out |-> <<>>, new |-> Interval(start, end), inserted |-> FALSE]
        ELSE AddStep(acc[i - 1], items[i])
  IN  acc

Add(items, start, end) ==
  LET acc == AddLoop(items, start, end)[Len(items)]
  IN  IF start >= end   THEN items
      ELSE IF acc.inserted THEN acc.out
      ELSE Append(acc.out, acc.new)

(* intervalSet.remove: what is left of one range once [start, end) is cut. *)
Outside(it, start, end) ==
  IF it.end <= start \/ it.start >= end
  THEN <<it>>
  ELSE (IF it.start < start THEN <<Interval(it.start, start)>> ELSE <<>>)
       \o (IF it.end > end THEN <<Interval(end, it.end)>> ELSE <<>>)

Remove(items, start, end) ==
  IF start >= end
  THEN items
  ELSE SeqX!FlattenSeq([i \in DOMAIN items |-> Outside(items[i], start, end)])

Covers(items, start, end) ==
  \/ start >= end
  \/ \E i \in DOMAIN items : items[i].start <= start /\ items[i].end >= end

(* intervalSet.missing: the gaps of [start, end), in order.                *)
MissingStep(acc, it, end) ==
  IF it.end <= acc.pos \/ it.start >= end
  THEN acc
  ELSE [gaps |-> IF it.start > acc.pos
                 THEN Append(acc.gaps, Interval(acc.pos, Least(it.start, end)))
                 ELSE acc.gaps,
        pos  |-> it.end]

MissingLoop(items, start, end) ==
  LET acc[i \in 0 .. Len(items)] ==
        IF i = 0 THEN [gaps |-> <<>>, pos |-> start]
        ELSE MissingStep(acc[i - 1], items[i], end)
  IN  acc

Missing(items, start, end) ==
  LET walk == MissingLoop(items, start, end)[Len(items)]
  IN  IF walk.pos < end THEN Append(walk.gaps, Interval(walk.pos, end)) ELSE walk.gaps

RunEnd(items, off) ==
  IF \E i \in DOMAIN items : off \in Span(items[i])
  THEN items[CHOOSE i \in DOMAIN items : off \in Span(items[i])].end
  ELSE off

TotalLoop(items) ==
  LET total[i \in 0 .. Len(items)] ==
        IF i = 0 THEN 0 ELSE total[i - 1] + (items[i].end - items[i].start)
  IN  total

TotalBytes(items) == TotalLoop(items)[Len(items)]

(* The chunk-capped pieces of one free range (the inner loop of reserve).  *)
Pieces(sub, chunk) ==
  [k \in 1 .. (sub.end - sub.start + chunk - 1) \div chunk |->
     LET p == sub.start + (k - 1) * chunk
     IN  Interval(p, Least(p + chunk, sub.end))]

(* What is neither present nor in flight in [start, end), in order.        *)
FreeRanges(present, inflight, start, end) ==
  LET gaps == Missing(present, start, end)
  IN  SeqX!FlattenSeq([i \in DOMAIN gaps |-> Missing(inflight, gaps[i].start, gaps[i].end)])

(* SparseFile.reserve: the pieces it returns, for a file of the given size.*)
ReserveList(present, inflight, start, end, size, chunk) ==
  LET free == FreeRanges(present, inflight, Most(start, 0), Least(end, size))
  IN  IF Most(start, 0) >= Least(end, size)
      THEN <<>>
      ELSE SeqX!FlattenSeq([i \in DOMAIN free |-> Pieces(free[i], chunk)])

(* SparseFile.reserveLowest: at most one piece, of the lowest free range.  *)
LowestList(present, inflight, size, chunk) ==
  LET free == FreeRanges(present, inflight, 0, size)
  IN  IF free = <<>>
      THEN <<>>
      ELSE <<Interval(free[1].start, Least(free[1].start + chunk, free[1].end))>>

(* inflight after every piece of a list has been added to it.              *)
AddAllLoop(items, list) ==
  LET acc[i \in 0 .. Len(list)] ==
        IF i = 0 THEN items ELSE Add(acc[i - 1], list[i].start, list[i].end)
  IN  acc

AddAll(items, list) == AddAllLoop(items, list)[Len(list)]
=============================================================================
