---------------------------- MODULE RangeHeader -----------------------------
(***************************************************************************)
(* What a live request for a byte range is answered (serve.go), and what   *)
(* http.ServeContent answers for the same header once the file is cached.  *)
(* A header is what is left of it after trimming: its form, and for        *)
(* "bytes=first-last" the two texts around the dash, each a number, absent *)
(* or not a number that fits.                                              *)
(***************************************************************************)
EXTENDS Texts

(* No header; no "bytes="; nothing after it; several ranges; no dash.      *)
OtherForms == {"none", "foreign", "empty", "list", "dashless"}

HeadersOver(numbers) ==
  LET Texts == numbers \cup {Absent, Garbage}
  IN  [form : OtherForms, first : {Absent}, last : {Absent}]
      \cup [form : {"range"}, first : Texts, last : Texts]

Whole(size)          == [status |-> 200, first |-> 0, last |-> size - 1]
Partial(first, last) == [status |-> 206, first |-> first, last |-> last]
Refused              == [status |-> 416, first |-> 0, last |-> -1]

(* A variant with a plausible bug: a suffix longer than the file.          *)
BugSuffix(n, size) == Partial(size - n, size - 1)

(* The last n bytes, or all of a file that has fewer.                      *)
Suffix(n, size) == Partial(IF n > size THEN 0 ELSE size - n, size - 1)

(* From s to e, or to the end of the file.                                 *)
FromFirst(s, e, size) ==
  IF s >= size THEN Refused ELSE Partial(s, IF e >= size THEN size - 1 ELSE e)

(* parseSingleRange and the head of serveSparse: the whole file for any    *)
(* header that is not one range.                                           *)
ParseSingleRange(h, size) ==
  CASE h.form # "range" \/ (h.first = Absent /\ h.last = Absent) -> Whole(size)
    [] h.form = "range" /\ h.first = Absent /\ h.last # Absent ->
         IF h.last = Garbage \/ h.last <= 0 THEN Refused ELSE Suffix(h.last, size)
    [] h.form = "range" /\ h.first # Absent ->
         IF \/ h.first = Garbage \/ h.first < 0
            \/ h.last = Garbage \/ (h.last # Absent /\ h.last < h.first)
         THEN Refused
         ELSE FromFirst(h.first, IF h.last = Absent THEN size - 1 ELSE h.last, size)

(* http.ServeContent: a header it cannot read is refused, not ignored, and *)
(* "the last 0 bytes" is an empty answer.  Several ranges are not modelled.*)
ServeContent(h, size) ==
  CASE h.form \in {"none", "empty"} -> Whole(size)
    [] h.form \in {"foreign", "dashless"} -> Refused
    [] h.form = "range" /\ h.first = Absent ->
         IF h.last \in {Absent, Garbage} \/ h.last < 0 THEN Refused
         ELSE IF h.last = 0 THEN Partial(size, size - 1) ELSE Suffix(h.last, size)
    [] h.form = "range" /\ h.first # Absent ->
         IF \/ h.first = Garbage \/ h.first < 0
            \/ h.first < size /\ (h.last = Garbage \/ (h.last # Absent /\ h.last < h.first))
         THEN Refused
         ELSE FromFirst(h.first, IF h.last = Absent THEN size - 1 ELSE h.last, size)

-----------------------------------------------------------------------------
(* RFC 7233's single range, and the offsets of the file it asks for.       *)
WellFormed(h) ==
  /\ h.form = "range"
  /\ \/ h.first = Absent /\ h.last \in Nat \ {0}
     \/ h.first \in Nat /\ (h.last = Absent \/ (h.last \in Nat /\ h.last >= h.first))

Asked(h, size) ==
  {o \in 0 .. size - 1 :
     IF h.first = Absent THEN o >= size - h.last
     ELSE o >= h.first /\ (h.last = Absent \/ o <= h.last)}

(* A player that seeks while the video downloads, and again when it is     *)
(* cached, is sent the same bytes: those it asked for, inside the file, or *)
(* a refusal if there are none.  A part is never sent to who did not ask   *)
(* for one.                                                                *)
AnsweredAsAsked(h, size) ==
  LET answer == ParseSingleRange(h, size)
  IN  /\ answer # Refused => answer.first >= 0 /\ answer.first <= answer.last
      /\ WellFormed(h) =>
           /\ answer = ServeContent(h, size)
           /\ answer.first .. answer.last = Asked(h, size)
      /\ answer.status = 206 => WellFormed(h)
=============================================================================
