------------------------------ MODULE DiskCache ------------------------------
(***************************************************************************)
(* The disk cache's budget (cache.go): finalize renames a finished         *)
(* download into the cache and, still under cache.mu, scans the directory  *)
(* and removes the least recently modified entries until the total fits.   *)
(* Touch, called for every /api/getvideo hit, changes an entry's           *)
(* modification time without the mutex.                                    *)
(*                                                                         *)
(* Modification times are an order of the files on disk: older holds       *)
(* <<f, g>> when f was modified before g.                                  *)
(***************************************************************************)
EXTENDS Integers, FiniteSets

CONSTANTS
  Videos,     \* cache ids
  SizeOf,     \* the size of each one's file
  MaxSize,    \* the budget
  None        \* no video

ASSUME CacheAssumption ==
  /\ IsFiniteSet(Videos)
  /\ SizeOf \in [Videos -> Nat] /\ MaxSize \in Nat /\ None \notin Videos

VARIABLES
  files, older,   \* the files on disk, by modification time
  pc,             \* per video: where its download is
  mu,             \* the video whose finalize holds cache.mu
  queue, order,   \* evictLocked's entries still to try, and their sorted order
  total,          \* and the total it keeps
  unseen,         \* the entries the last scan did not see: all, if there was none
  undeletable,    \* and those that the eviction after it failed to remove
  touched         \* the entries touched since the scan of an eviction at work

vars == <<files, older, pc, mu, queue, order, total, unseen, undeletable, touched>>

TempFile(v) == <<"tmp", v>>
Entry(v)    == <<"mp4", v>>
Files       == {TempFile(v) : v \in Videos} \cup {Entry(v) : v \in Videos}
Cached      == {v \in Videos : Entry(v) \in files}

(* The bytes of some entries, and how many they are.                       *)
Bytes(S) == UNION {{v} \X (1 .. SizeOf[v]) : v \in S}
Total(S) == Cardinality(Bytes(S))

StrictOrder(r, S) ==
  /\ r \subseteq S \X S
  /\ \A f \in S : <<f, f>> \notin r
  /\ \A f, g \in S : f # g => <<f, g>> \in r \/ <<g, f>> \in r
  /\ \A f, g, h \in S : <<f, g>> \in r /\ <<g, h>> \in r => <<f, h>> \in r

(* The server may find any entries, of any total, when it starts: NewCache *)
(* evicts nothing.                                                         *)
Init ==
  /\ \E C \in SUBSET Videos : files = {Entry(v) : v \in C}
  /\ older \in {r \in SUBSET (files \X files) : StrictOrder(r, files)}
  /\ pc = [v \in Videos |-> "none"]
  /\ mu = None /\ queue = {} /\ order = {} /\ total = 0
  /\ unseen = Videos /\ undeletable = {} /\ touched = {}

(* Variants of the definitions below that carry a plausible bug: each of   *)
(* the properties is violated when one of them takes its original's place. *)
BugNotLocked == TRUE
BugCountsAnyway(v) == total - SizeOf[v]
BugNewestFirst(S) == {p \in S \X S : <<Entry(p[2]), Entry(p[1])>> \in older}

Goto(v, at) == pc' = [pc EXCEPT ![v] = at]

(* The order left when a file goes, and the one when a file is modified.   *)
Among(S)   == {p \in older : p[1] \in S /\ p[2] \in S}
Without(f) == Among(files \ {f})
Newest(f)  == Without(f) \cup ((files \ {f}) \X {f})

(* A download writes its temp file, again and again.                       *)
Write(v) ==
  /\ pc[v] \in {"none", "writing"}
  /\ Goto(v, "writing")
  /\ files' = files \cup {TempFile(v)} /\ older' = Newest(TempFile(v))
  /\ UNCHANGED <<mu, queue, order, total, unseen, undeletable, touched>>

(* finalize takes cache.mu.                                                *)
Unlocked == mu = None

Lock(v) ==
  /\ pc[v] = "writing" /\ Unlocked
  /\ mu' = v
  /\ Goto(v, "rename")
  /\ UNCHANGED <<files, older, queue, order, total, unseen, undeletable, touched>>

(* The entry keeps the temp file's modification time; an older entry of    *)
(* the same video is replaced.                                             *)
Rename(v) ==
  LET Renamed(f) == IF f = TempFile(v) THEN Entry(v) ELSE f
  IN  /\ pc[v] = "rename"
      /\ \/ /\ files' = (files \ {TempFile(v)}) \cup {Entry(v)}
            /\ older' = {<<Renamed(p[1]), Renamed(p[2])>> : p \in Without(Entry(v))}
            /\ Goto(v, "scan") /\ UNCHANGED mu
         \/ /\ files' = files \ {TempFile(v)} /\ older' = Without(TempFile(v))
            /\ Goto(v, "none") /\ mu' = None
      /\ UNCHANGED <<queue, order, total, unseen, undeletable, touched>>

(* scanLocked and the sort.  An entry whose Info fails is left out of both *)
(* the entries and the total, and when the directory cannot be read all    *)
(* are: there is nothing to evict then.                                    *)
Sorted(S) == {p \in S \X S : <<Entry(p[1]), Entry(p[2])>> \in older}

Scan(v) ==
  /\ pc[v] = "scan"
  /\ \E seen \in SUBSET Cached :
       /\ total' = Total(seen) /\ queue' = seen /\ order' = Sorted(seen)
       /\ unseen' = Cached \ seen
  /\ undeletable' = {}
  /\ Goto(v, "evict")
  /\ UNCHANGED <<files, older, mu, touched>>

(* One turn of evictLocked's loop: it removes the entry that is first in   *)
(* the sorted order, or fails to and keeps it in the total; or it ends.    *)
First(v)     == v \in queue /\ \A w \in queue \ {v} : <<v, w>> \in order
TotalWith(v) == total

Evict(v) ==
  /\ pc[v] = "evict"
  /\ \/ \E oldest \in queue :
           /\ total > MaxSize /\ First(oldest)
           /\ queue' = queue \ {oldest}
           /\ \/ /\ files' = files \ {Entry(oldest)} /\ older' = Without(Entry(oldest))
                 /\ total' = total - SizeOf[oldest]
                 /\ UNCHANGED undeletable
              \/ /\ undeletable' = undeletable \cup {oldest}
                 /\ total' = TotalWith(oldest) /\ UNCHANGED <<files, older>>
           /\ UNCHANGED <<order, pc, mu, unseen, touched>>
     \/ /\ total <= MaxSize \/ queue = {}
        /\ queue' = {} /\ order' = {} /\ total' = 0
        /\ Goto(v, "none") /\ mu' = None /\ touched' = {}
        /\ UNCHANGED <<files, older, unseen, undeletable>>

Evicting == \E v \in Videos : pc[v] = "evict"

(* A hit of getVideoHandler: of an entry just gone it is a failure, and    *)
(* ignored.                                                                *)
Touch(v) ==
  /\ Entry(v) \in files
  /\ older' = Newest(Entry(v))
  /\ touched' = IF Evicting THEN touched \cup {v} ELSE touched
  /\ UNCHANGED <<files, pc, mu, queue, order, total, unseen, undeletable>>

(* A crash at any point, and NewCache: the temp files go, the entries stay.*)
Restart ==
  /\ files' = {Entry(v) : v \in Cached} /\ older' = Among({Entry(v) : v \in Cached})
  /\ pc' = [v \in Videos |-> "none"]
  /\ mu' = None /\ queue' = {} /\ order' = {} /\ total' = 0
  /\ unseen' = Videos /\ undeletable' = {} /\ touched' = {}

Next ==
  \/ Restart
  \/ \E v \in Videos : Write(v) \/ Lock(v) \/ Rename(v) \/ Scan(v) \/ Evict(v) \/ Touch(v)

Spec == Init /\ [][Next]_vars

-----------------------------------------------------------------------------
(* The shape of every variable: the files are in one order, the mutex is   *)
(* held exactly by the finalize that is at work, and while it evicts the   *)
(* queue holds entries that are still there.                               *)
TypeOK ==
  /\ files \subseteq Files /\ StrictOrder(older, files)
  /\ pc \in [Videos -> {"none", "writing", "rename", "scan", "evict"}]
  /\ mu \in Videos \cup {None} /\ total \in Nat
  /\ \A v \in Videos : mu = v <=> pc[v] \in {"rename", "scan", "evict"}
  /\ \A v \in Videos : pc[v] \in {"writing", "rename"} => TempFile(v) \in files
  /\ queue \subseteq Cached /\ order \subseteq Videos \X Videos
  /\ unseen \subseteq Videos /\ undeletable \subseteq Videos /\ touched \subseteq Videos

(* After a finalize the entries that its scan could see are within the     *)
(* budget, unless each of them is one it failed to remove (evictLocked).   *)
(* An entry it could not see may take the cache over budget.               *)
Seen == Cached \ unseen
BudgetKept == mu = None => Total(Seen) <= MaxSize \/ Seen \subseteq undeletable

(* No entry is removed that the budget has room for: two finalizes at a    *)
(* time do not both make the room one of them needs ("size accounting      *)
(* stays consistent", cache.go:30).                                        *)
NoNeedlessEviction ==
  [][\A v \in Videos : pc[v] = "evict" /\ Cached' # Cached => Total(Cached) > MaxSize]_vars

(* The entry evicted is the "least recently modified" (cache.go:22, 166)   *)
(* of those that the scan saw and that were not tried before: its queue    *)
(* stays in order while downloads and touches go on.  The times are read   *)
(* once, so an entry touched after the scan is still evicted in its turn.  *)
EvictsLeastRecent ==
  [][\A v \in Cached :
       Cached' = Cached \ {v}
         => \/ v \in touched
            \/ \A w \in Seen : <<Entry(w), Entry(v)>> \in older => w \in undeletable]_vars
=============================================================================
