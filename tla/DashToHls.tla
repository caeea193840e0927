----------------------------- MODULE DashToHls ------------------------------
(***************************************************************************)
(* The conversion of a live DASH manifest to an HLS playlist (dash.go).    *)
(* Of the manifest's first period there are its adaptation sets, the       *)
(* SegmentTemplates of the three levels and the BaseURLs from the outside  *)
(* in.  A timeline is a sequence of [t, d, r], t Absent where it follows   *)
(* from what precedes; a template without a timeline has an empty one,     *)
(* which is refused alike.                                                 *)
(***************************************************************************)
EXTENDS Texts, Sequences, FiniteSets

SegmentEntries == [t : Nat \cup {Absent}, d : Nat, r : Int]
Templates == [media : BOOLEAN, start : Nat \cup {Absent}, timescale : Nat \cup {Absent},
              timeline : Seq(SegmentEntries)]

(* A template that is not there is none.                                   *)
ASSUME DashAssumption == Absent \notin Templates

(* A variant with a plausible bug: r counts the segments.                  *)
BugRepeats(s) == IF s.r < 1 THEN 0 ELSE s.r - 1

(* The repeats of an entry; an open one (r < 0) is not repeated.           *)
Repeats(s) == IF s.r < 0 THEN 0 ELSE s.r

(* One entry of the timeline: r counts the repeats beside the first.       *)
TimelineStep(acc, s) ==
  LET t == IF s.t = Absent THEN acc.t ELSE s.t
      n == Repeats(s) + 1
  IN  [out |-> acc.out \o [i \in 1 .. n |->
                 [number |-> acc.number + i - 1, time |-> t + (i - 1) * s.d, d |-> s.d]],
       number |-> acc.number + n, t |-> t + n * s.d]

(* The loop over the entries, by the number of its turns.                  *)
TimelineLoop(timeline, start) ==
  LET acc[k \in 0 .. Len(timeline)] ==
        IF k = 0 THEN [out |-> <<>>, number |-> start, t |-> 0]
        ELSE TimelineStep(acc[k - 1], timeline[k])
  IN  acc

TimelineSegments(timeline, start) == TimelineLoop(timeline, start)[Len(timeline)].out

(* The representations as <<set, place>>, in the order of the loops.       *)
Representations(sets) ==
  {p \in (DOMAIN sets) \X UNION {DOMAIN sets[i].reps : i \in DOMAIN sets} : p[2] \in DOMAIN sets[p[1]].reps}
Earlier(p, q) == p[1] < q[1] \/ (p[1] = q[1] /\ p[2] < q[2])
FirstOf(S) == CHOOSE p \in S : \A q \in S \ {p} : Earlier(p, q)

SelectVideoRepresentation(sets) ==
  LET all    == Representations(sets)
      Rate(p) == sets[p[1]].reps[p[2]].bandwidth
      videos == {p \in all : sets[p[1]].video}
      best   == {p \in videos : \A q \in videos : Rate(q) <= Rate(p)}
  IN  FirstOf(IF best # {} THEN best ELSE all)

FirstSegmentTemplate(templates) ==
  LET given == {i \in DOMAIN templates : templates[i] # Absent}
  IN  IF given = {} THEN Absent ELSE templates[CHOOSE i \in given : \A j \in given : i <= j]

(* Each level's BaseURL replaces the base, continues it, or is no URL.     *)
BaseLoop(manifest, bases) ==
  LET base[k \in 0 .. Len(bases)] ==
        IF k = 0 THEN <<manifest>>
        ELSE IF bases[k] \in {Absent, Garbage} THEN base[k - 1]
        ELSE IF bases[k].absolute THEN <<bases[k]>> ELSE Append(base[k - 1], bases[k])
  IN  base

ResolveDASHBase(manifest, bases) == BaseLoop(manifest, bases)[Len(bases)]

LongestSegment(segments) ==
  LET durations == {segments[i].d : i \in DOMAIN segments}
  IN  CHOOSE d \in durations : \A e \in durations : e <= d

ChosenTemplate(doc) ==
  LET chosen == SelectVideoRepresentation(doc.sets)
      set    == doc.sets[chosen[1]]
  IN  FirstSegmentTemplate(<<set.reps[chosen[2]].template, set.template, doc.template>>)

(* What the conversion needs; it returns an error without it.              *)
Converts(doc) ==
  LET st == ChosenTemplate(doc)
  IN  Representations(doc.sets) # {} /\ st # Absent /\ st.media /\ st.timeline # <<>>

Playlist(doc, manifest) ==
  LET st    == ChosenTemplate(doc)
      start == IF st.start = Absent THEN 1 ELSE st.start
      scale == IF st.timescale \in {Absent, 0} THEN 1 ELSE st.timescale
      out   == TimelineSegments(st.timeline, start)
  IN  [representation |-> SelectVideoRepresentation(doc.sets),
       targetDuration |-> (LongestSegment(out) + scale - 1) \div scale,
       mediaSequence  |-> start,
       base           |-> ResolveDASHBase(manifest, doc.bases),
       segments       |-> out]

DashToHLS(doc, manifest) == IF Converts(doc) THEN Playlist(doc, manifest) ELSE Rejected

-----------------------------------------------------------------------------
(* A stream: the segments' start times and durations in its timescale, and *)
(* whether the manifest is numbered by startNumber.                        *)
Contiguous(stream, n) == stream.at[n] = stream.at[n - 1] + stream.d[n - 1]

(* A manifest shows a window of it, divided into runs of equal segments    *)
(* that follow each other: runs has their first segments.                  *)
EndOf(runs, last, i) == IF i = Len(runs) THEN last ELSE runs[i + 1] - 1

DividesWindow(runs, last, stream) ==
  /\ runs # <<>> /\ last <= Len(stream.d)
  /\ \A i \in DOMAIN runs :
       /\ runs[i] <= EndOf(runs, last, i)
       /\ \A n \in runs[i] + 1 .. EndOf(runs, last, i) :
            Contiguous(stream, n) /\ stream.d[n] = stream.d[runs[i]]

(* The timeline of a window: start times are spelled out where they must   *)
(* be, or everywhere; the last run may be left open.                       *)
Timeline(stream, runs, last, spelled, open) ==
  [i \in 1 .. Len(runs) |->
     [t |-> IF spelled \/ i = 1 \/ ~Contiguous(stream, runs[i]) THEN stream.at[runs[i]] ELSE Absent,
      d |-> stream.d[runs[i]],
      r |-> IF open /\ i = Len(runs) THEN -1 ELSE EndOf(runs, last, i) - runs[i]]]

(* The template that holds it.                                             *)
TemplateOf(stream, runs, last, spelled, open) ==
  [media |-> TRUE, start |-> IF stream.numbered THEN runs[1] ELSE Absent, timescale |-> stream.timescale,
   timeline |-> Timeline(stream, runs, last, spelled, open)]

(* The last segment that a playlist made of that manifest should name: of  *)
(* an open run, the first one.                                             *)
LastShown(runs, last, open) == IF open THEN runs[Len(runs)] ELSE last

(* The playlist names each segment with the number, time and duration the  *)
(* stream has for it: whatever the window has slid to, however the         *)
(* manifest is written, a number stands for one segment, and none is       *)
(* skipped or doubled.  (A manifest without startNumber is numbered from   *)
(* one each time.)  No segment outlasts the target, no other video has a   *)
(* higher rate, and the base continues the last absolute one.              *)
ConvertsWindow(doc, manifest, stream, first, shown) ==
  LET p      == DashToHLS(doc, manifest)
      start  == IF stream.numbered THEN first ELSE 1
      scale  == IF stream.timescale = 0 THEN 1 ELSE stream.timescale
      Set(r) == doc.sets[r[1]]
      roots  == {i \in DOMAIN doc.bases : doc.bases[i] \notin {Absent, Garbage} /\ doc.bases[i].absolute}
  IN  /\ Converts(doc)
      /\ p.mediaSequence = start
      /\ p.segments = [i \in 1 .. shown - first + 1 |->
                         [number |-> start + i - 1, time |-> stream.at[first + i - 1],
                          d |-> stream.d[first + i - 1]]]
      /\ \A n \in first .. shown : stream.d[n] <= p.targetDuration * scale
      /\ \A r \in Representations(doc.sets) : Set(r).video =>
           /\ Set(p.representation).video
           /\ Set(r).reps[r[2]].bandwidth
                <= Set(p.representation).reps[p.representation[2]].bandwidth
      /\ IF roots = {} THEN p.base[1] = manifest
         ELSE \E i \in roots : p.base[1] = doc.bases[i] /\ \A j \in roots : j <= i
=============================================================================
