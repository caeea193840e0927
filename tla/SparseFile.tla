----------------------------- MODULE SparseFile -----------------------------
(***************************************************************************)
(* The bookkeeping of a SparseFile (sparse.go): which ranges are present   *)
(* and which are in flight, as the two interval slices the code keeps,     *)
(* under every sequence of the four operations that change them.  Beside   *)
(* each slice runs the plain set of offsets it is meant to stand for; the  *)
(* SparseDownload module works with those sets.                            *)
(***************************************************************************)
EXTENDS IntervalSet, FiniteSets

CONSTANTS Size,   \* the file's size, in blocks
          Chunk   \* the most blocks one fill reserves

ASSUME SparseFileAssumption == Size \in Nat \ {0} /\ Chunk \in Nat \ {0}

Blocks == 0 .. Size - 1

VARIABLES present, inflight,          \* the two slices
          presentSet, inflightSet     \* the offsets each stands for

vars == <<present, inflight, presentSet, inflightSet>>

Init ==
  /\ present = <<>> /\ presentSet = {}
  /\ inflight = <<>> /\ inflightSet = {}

(* The second critical section of writeAt.                                 *)
WriteAt(start, end) ==
  /\ present' = Add(present, start, end)
  /\ presentSet' = presentSet \cup (start .. end - 1)
  /\ UNCHANGED <<inflight, inflightSet>>

Reserve(start, end) ==
  /\ inflight' = AddAll(inflight, ReserveList(present, inflight, start, end, Size, Chunk))
  /\ inflightSet' = inflightSet \cup (((start .. end - 1) \cap Blocks) \ presentSet)
  /\ UNCHANGED <<present, presentSet>>

ReserveLowest ==
  LET free == Blocks \ (presentSet \cup inflightSet)
      first == CHOOSE b \in free : \A c \in free : b <= c
  IN  /\ inflight' = AddAll(inflight, LowestList(present, inflight, Size, Chunk))
      /\ inflightSet' = inflightSet \cup
           (IF free = {} THEN {}
            ELSE {b \in free : b < first + Chunk /\ first .. b \subseteq free})
      /\ UNCHANGED <<present, presentSet>>

(* A range is released whole; any reserved range is one the fills hold.    *)
ReleaseInflight(start, end) ==
  /\ start .. end - 1 \subseteq inflightSet
  /\ inflight' = Remove(inflight, start, end)
  /\ inflightSet' = inflightSet \ (start .. end - 1)
  /\ UNCHANGED <<present, presentSet>>

Next ==
  \/ ReserveLowest
  \/ \E start \in Blocks : \E end \in start + 1 .. Size :
        WriteAt(start, end) \/ ReleaseInflight(start, end)
  \/ \E start \in Blocks : Reserve(start, start + Chunk)

Spec == Init /\ [][Next]_vars

-----------------------------------------------------------------------------
(* A slice is canonical: no empty range, sorted, and a gap of at least one *)
(* offset between neighbours ("sorted, merged, non-overlapping,            *)
(* non-adjacent", sparse.go:21).  covers is only right on such slices.     *)
Canonical(items) ==
  /\ \A i \in DOMAIN items : items[i].start < items[i].end
  /\ \A i \in 1 .. Len(items) - 1 : items[i].end < items[i + 1].start

SlicesCanonical == Canonical(present) /\ Canonical(inflight)

(* After any sequence of operations each slice stands for the offsets that *)
(* set arithmetic says it should, in its canonical form (intervalSet.add,  *)
(* remove).                                                                *)
SlicesTrackSets == Offsets(present) = presentSet /\ Offsets(inflight) = inflightSet

SlicesExact == SlicesCanonical /\ SlicesTrackSets

(* The maximal runs of a set of offsets inside [start, end).               *)
RunsIn(S, start, end) ==
  {it \in {Interval(a, b) : a \in start .. end - 1, b \in start + 1 .. end} :
     /\ it.start < it.end /\ Span(it) \subseteq S
     /\ it.start = start \/ it.start - 1 \notin S
     /\ it.end = end \/ it.end \notin S}

(* The queries a driver and a reader decide by answer for the set the      *)
(* slice stands for: whole-range presence, the gaps, the end of the run a  *)
(* read may go up to, and the byte count.                                  *)
QueriesAgree ==
  /\ TotalBytes(present) = Cardinality(presentSet)
  /\ \A start \in Blocks :
       /\ start .. RunEnd(present, start) - 1 \subseteq presentSet
       /\ RunEnd(present, start) \notin presentSet
       /\ \A end \in start + 1 .. Size :
            /\ Covers(present, start, end) <=> start .. end - 1 \subseteq presentSet
            /\ {Missing(present, start, end)[i] : i \in DOMAIN Missing(present, start, end)}
                 = RunsIn(Blocks \ presentSet, start, end)

(* reserve hands out exactly the free offsets of its window, once each, in *)
(* pieces of at most a chunk: what two fills hold never overlaps and no    *)
(* free offset is left without a fetch.                                    *)
ReservesFreeOffsets ==
  \A start \in -1 .. Size : \A end \in start .. Size + 1 :
    LET out == ReserveList(present, inflight, start, end, Size, Chunk)
    IN  /\ Offsets(out) = ((start .. end - 1) \cap Blocks) \ (presentSet \cup inflightSet)
        /\ TotalBytes(out) = Cardinality(Offsets(out))
        /\ \A i \in DOMAIN out : Cardinality(Span(out[i])) \in 1 .. Chunk
=============================================================================
