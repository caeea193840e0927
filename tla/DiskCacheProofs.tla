--------------------------- MODULE DiskCacheProofs ---------------------------
(***************************************************************************)
(* The cache's budget and the order of its evictions, for any set of       *)
(* videos, of any sizes, and any budget.                                   *)
(***************************************************************************)
EXTENDS DiskCache, FiniteSetTheorems, TLAPS

(***************************************************************************)
(* Orders                                                                  *)
(***************************************************************************)

(* What is left of an order when elements go is an order of the rest.      *)
LEMMA OrderAmong ==
  ASSUME NEW r, NEW S, StrictOrder(r, S), NEW T, T \subseteq S
  PROVE  StrictOrder({p \in r : p[1] \in T /\ p[2] \in T}, T)
<1> DEFINE q == {p \in r : p[1] \in T /\ p[2] \in T}
<1>1. \A f, g \in T : <<f, g>> \in q <=> <<f, g>> \in r
  OBVIOUS
<1>2. q \subseteq T \X T
  BY DEF StrictOrder
<1> HIDE DEF q
<1>3. StrictOrder(q, T)
  BY <1>1, <1>2 DEF StrictOrder
<1> QED BY <1>3 DEF q

(* A new last element extends an order.                                    *)
LEMMA OrderLast ==
  ASSUME NEW r, NEW S, StrictOrder(r, S), NEW f, f \notin S
  PROVE  StrictOrder(r \cup (S \X {f}), S \cup {f})
<1> DEFINE q == r \cup (S \X {f})
<1>1. \A g, h \in S : <<g, h>> \in q <=> <<g, h>> \in r
  OBVIOUS
<1>2. \A g \in S : <<g, f>> \in q /\ <<f, g>> \notin q
  BY DEF StrictOrder
<1>3. <<f, f>> \notin q
  BY DEF StrictOrder
<1>4. q \subseteq (S \cup {f}) \X (S \cup {f})
  BY DEF StrictOrder
<1> HIDE DEF q
<1>5. \A g, h \in S \cup {f} : g # h => <<g, h>> \in q \/ <<h, g>> \in q
  BY <1>1, <1>2 DEF StrictOrder
<1>6. ASSUME NEW g \in S \cup {f}, NEW h \in S \cup {f}, NEW k \in S \cup {f},
             <<g, h>> \in q, <<h, k>> \in q
      PROVE  <<g, k>> \in q
  <2>1. g \in S /\ h \in S
    BY <1>2, <1>3, <1>6
  <2>2. CASE k = f
    BY <1>2, <2>1, <2>2
  <2>3. CASE k \in S
    BY <1>1, <1>6, <2>1, <2>3 DEF StrictOrder
  <2> QED BY <2>2, <2>3
<1>7. \A g \in S \cup {f} : <<g, g>> \notin q
  BY <1>1, <1>3 DEF StrictOrder
<1>8. StrictOrder(q, S \cup {f})
  BY <1>4, <1>5, <1>6, <1>7 DEF StrictOrder
<1> QED BY <1>8 DEF q

(* An element that takes another's place takes its place in the order.     *)
LEMMA OrderRenamed ==
  ASSUME NEW r, NEW S, StrictOrder(r, S), NEW a \in S, NEW b, b \notin S,
         NEW q, NEW T, T = (S \ {a}) \cup {b},
         q = {<<IF p[1] = a THEN b ELSE p[1], IF p[2] = a THEN b ELSE p[2]>> : p \in r}
  PROVE  /\ StrictOrder(q, T)
         /\ \A f, g \in S \ {a} : <<f, g>> \in q <=> <<f, g>> \in r
<1> DEFINE Back(f) == IF f = b THEN a ELSE f
<1>1. \A p \in r : p = <<p[1], p[2]>> /\ p[1] \in S /\ p[2] \in S
  BY DEF StrictOrder
<1>2. \A f \in T : Back(f) \in S
  OBVIOUS
<1>3. \A f, g \in T : <<f, g>> \in q <=> <<Back(f), Back(g)>> \in r
  <2> SUFFICES ASSUME NEW f \in T, NEW g \in T
               PROVE  <<f, g>> \in q <=> <<Back(f), Back(g)>> \in r
    OBVIOUS
  <2>1. ASSUME <<f, g>> \in q PROVE <<Back(f), Back(g)>> \in r
    <3>1. PICK p \in r : <<f, g>> = <<IF p[1] = a THEN b ELSE p[1], IF p[2] = a THEN b ELSE p[2]>>
      BY <2>1
    <3>2. f = (IF p[1] = a THEN b ELSE p[1]) /\ g = (IF p[2] = a THEN b ELSE p[2])
      BY <3>1
    <3>3. Back(f) = p[1] /\ Back(g) = p[2]
      BY <1>1, <3>2
    <3> QED BY <1>1, <3>3
  <2>2. ASSUME <<Back(f), Back(g)>> \in r PROVE <<f, g>> \in q
    <3> DEFINE p == <<Back(f), Back(g)>>
    <3>1. f = (IF p[1] = a THEN b ELSE p[1]) /\ g = (IF p[2] = a THEN b ELSE p[2])
      OBVIOUS
    <3> QED BY <2>2, <3>1
  <2> QED BY <2>1, <2>2
<1>4. q \subseteq T \X T
  BY <1>1
<1>5. \A f, g \in T : f # g => Back(f) # Back(g)
  OBVIOUS
<1>6. \A f \in S \ {a} : f \in T /\ Back(f) = f
  OBVIOUS
<1> HIDE DEF Back
<1>7. StrictOrder(q, T)
  <2>1. \A f \in T : <<f, f>> \notin q
    BY <1>2, <1>3 DEF StrictOrder
  <2>2. ASSUME NEW f \in T, NEW g \in T, f # g PROVE <<f, g>> \in q \/ <<g, f>> \in q
    <3>1. <<Back(f), Back(g)>> \in r \/ <<Back(g), Back(f)>> \in r
      BY <1>2, <1>5, <2>2 DEF StrictOrder
    <3> QED BY <1>3, <3>1
  <2>3. ASSUME NEW f \in T, NEW g \in T, NEW h \in T, <<f, g>> \in q, <<g, h>> \in q
        PROVE  <<f, h>> \in q
    <3>1. <<Back(f), Back(g)>> \in r /\ <<Back(g), Back(h)>> \in r
      BY <1>3, <2>3
    <3>2. <<Back(f), Back(h)>> \in r
      BY <1>2, <3>1 DEF StrictOrder
    <3> QED BY <1>3, <3>2
  <2> QED BY <1>4, <2>1, <2>2, <2>3 DEF StrictOrder
<1> QED BY <1>3, <1>6, <1>7

(***************************************************************************)
(* Totals                                                                  *)
(***************************************************************************)

(* The entries' bytes can be counted.                                      *)
LEMMA TotalType ==
  ASSUME NEW S, S \subseteq Videos
  PROVE  IsFiniteSet(Bytes(S)) /\ Total(S) \in Nat
<1> DEFINE T == {{v} \X (1 .. SizeOf[v]) : v \in S}
           f == [v \in S |-> {v} \X (1 .. SizeOf[v])]
<1>1. IsFiniteSet(S)
  BY FS_Subset, CacheAssumption
<1>2. f \in Surjection(S, T)
  BY DEF Surjection
<1>3. IsFiniteSet(T)
  BY <1>1, <1>2, FS_Surjection
<1>4. ASSUME NEW v \in S PROVE IsFiniteSet({v} \X (1 .. SizeOf[v]))
  <2>1. SizeOf[v] \in Int
    BY CacheAssumption
  <2>2. IsFiniteSet({v})
    BY FS_Singleton
  <2>3. IsFiniteSet(1 .. SizeOf[v])
    BY <2>1, FS_Interval
  <2> QED BY <2>2, <2>3, FS_Product
<1>5. IsFiniteSet(UNION T)
  BY <1>3, <1>4, FS_UNION
<1> QED BY <1>5, FS_CardinalityType DEF Total, Bytes

(* An entry that goes takes its size off the total.                        *)
LEMMA TotalWithout ==
  ASSUME NEW S, S \subseteq Videos, NEW v \in S
  PROVE  Total(S \ {v}) = Total(S) - SizeOf[v]
<1> DEFINE B == {v} \X (1 .. SizeOf[v])
           R == Bytes(S \ {v})
<1>1. SizeOf[v] \in Nat
  BY CacheAssumption
<1>2. Bytes(S) = R \cup B
  BY DEF Bytes
<1>3. R \cap B = {}
  BY DEF Bytes
<1>4. IsFiniteSet(R) /\ Cardinality(R) = Total(S \ {v}) /\ Total(S \ {v}) \in Nat
  BY TotalType DEF Total
<1>5. IsFiniteSet(B) /\ Cardinality(B) = SizeOf[v]
  <2>1. IsFiniteSet({v}) /\ Cardinality({v}) = 1
    BY FS_Singleton
  <2>2. IsFiniteSet(1 .. SizeOf[v]) /\ Cardinality(1 .. SizeOf[v]) = SizeOf[v]
    BY <1>1, FS_Interval
  <2>3. IsFiniteSet(B) /\ Cardinality(B) = 1 * SizeOf[v]
    BY <2>1, <2>2, FS_Product
  <2> QED BY <1>1, <2>3
<1> HIDE DEF B, R
<1>6. Cardinality(R \cup B) = Cardinality(R) + Cardinality(B) - Cardinality(R \cap B)
  BY <1>4, <1>5, FS_Union
<1>7. Cardinality(R \cap B) = 0
  BY <1>3, FS_EmptySet
<1> QED BY <1>1, <1>2, <1>4, <1>5, <1>6, <1>7 DEF Total

(* No entries have no bytes.                                               *)
LEMMA EmptyTotal == Total({}) = 0 /\ 0 <= MaxSize
<1>1. Bytes({}) = {}
  BY DEF Bytes
<1> QED BY <1>1, FS_EmptySet, CacheAssumption DEF Total

(* Fewer entries have no larger a total.                                   *)
LEMMA TotalMonotone ==
  ASSUME NEW S, S \subseteq Videos, NEW T, T \subseteq S
  PROVE  Total(T) <= Total(S)
<1>1. IsFiniteSet(Bytes(S))
  BY TotalType
<1>2. Bytes(T) \subseteq Bytes(S)
  BY DEF Bytes
<1> QED BY <1>1, <1>2, FS_Subset DEF Total

(***************************************************************************)
(* The invariant                                                           *)
(***************************************************************************)

WithinBudget == Total(Seen) <= MaxSize \/ Seen \subseteq undeletable

(* Outside a finalize that still has to evict, the budget is kept.         *)
BudgetInv == (\A v \in Videos : pc[v] \notin {"scan", "evict"}) => WithinBudget

(* While evictLocked's loop runs: its total is that of the entries there   *)
(* are that it saw, of which it need not try those it could not remove     *)
(* again; what the scan ordered is in that order, but for the touched.     *)
EvictInv ==
  Evicting =>
    /\ total = Total(Seen) /\ queue \subseteq Seen /\ Seen \ queue \subseteq undeletable
    /\ \A v, w \in queue : <<v, w>> \in order
         => v \in touched \/ <<Entry(v), Entry(w)>> \in older

CacheInv == TypeOK /\ BudgetInv /\ EvictInv

(* The names of the files are different.                                   *)
LEMMA Names ==
  /\ \A v, w : Entry(v) = Entry(w) <=> v = w
  /\ \A v, w : TempFile(v) = TempFile(w) <=> v = w
  /\ \A v, w : Entry(v) # TempFile(w)
BY DEF Entry, TempFile

(* The order without a file, and with a file made the newest.              *)
LEMMA OrderWithout ==
  ASSUME TypeOK, NEW f
  PROVE  /\ StrictOrder(Without(f), files \ {f})
         /\ \A g, h \in files \ {f} : <<g, h>> \in Without(f) <=> <<g, h>> \in older
         /\ StrictOrder(Newest(f), files \cup {f})
         /\ \A g, h \in files \ {f} : <<g, h>> \in older => <<g, h>> \in Newest(f)
         /\ \A g \in files \ {f} : <<g, f>> \in Newest(f)
<1>1. StrictOrder(older, files) /\ files \ {f} \subseteq files
  BY DEF TypeOK
<1>2. StrictOrder({p \in older : p[1] \in files \ {f} /\ p[2] \in files \ {f}}, files \ {f})
  BY <1>1, OrderAmong
<1>3. StrictOrder(Without(f), files \ {f})
  BY <1>2 DEF Without, Among
<1>4. (files \ {f}) \cup {f} = files \cup {f} /\ f \notin files \ {f}
  OBVIOUS
<1>5. StrictOrder(Without(f) \cup ((files \ {f}) \X {f}), (files \ {f}) \cup {f})
  BY <1>3, <1>4, OrderLast
<1>6. StrictOrder(Newest(f), files \cup {f})
  BY <1>4, <1>5 DEF Newest
<1>7. \A g, h \in files \ {f} : <<g, h>> \in Without(f) <=> <<g, h>> \in older
  BY DEF Without, Among
<1>8. /\ \A g, h \in files \ {f} : <<g, h>> \in older => <<g, h>> \in Newest(f)
      /\ \A g \in files \ {f} : <<g, f>> \in Newest(f)
  BY <1>7 DEF Newest
<1> QED BY <1>3, <1>6, <1>7, <1>8

(* The start.                                                              *)
LEMMA CacheInit == Init => CacheInv
<1> SUFFICES ASSUME Init PROVE CacheInv
  OBVIOUS
<1>1. PICK C \in SUBSET Videos : files = {Entry(v) : v \in C}
  BY DEF Init
<1>2. files \subseteq Files /\ StrictOrder(older, files)
  BY <1>1 DEF Init, Files
<1>3. pc = [v \in Videos |-> "none"] /\ None \notin Videos /\ mu = None
  BY CacheAssumption DEF Init
<1>4. TypeOK
  BY <1>2, <1>3 DEF Init, TypeOK
<1>5. WithinBudget
  BY EmptyTotal DEF Init, WithinBudget, Seen, Cached
<1>6. ~Evicting
  BY <1>3 DEF Evicting
<1> QED BY <1>4, <1>5, <1>6 DEF CacheInv, BudgetInv, EvictInv

(* A write only makes a temp file the newest file.                         *)
LEMMA WriteStep ==
  ASSUME CacheInv, NEW v \in Videos, Write(v)
  PROVE  CacheInv'
<1> DEFINE f == TempFile(v)
<1>1. /\ files' = files \cup {f} /\ older' = Newest(f)
      /\ mu' = mu /\ queue' = queue /\ order' = order /\ total' = total
      /\ unseen' = unseen /\ undeletable' = undeletable /\ touched' = touched
      /\ pc[v] \in {"none", "writing"} /\ pc' = [pc EXCEPT ![v] = "writing"]
  BY DEF Write, Goto
<1>2. /\ TypeOK /\ f \in Files /\ \A w \in Videos : Entry(w) # f
  BY Names DEF CacheInv, Files
<1>3. Cached' = Cached
  BY <1>1, <1>2 DEF Cached
<1> HIDE DEF f
<1>4. /\ StrictOrder(Newest(f), files \cup {f})
      /\ \A g, h \in files \ {f} : <<g, h>> \in older => <<g, h>> \in Newest(f)
  BY <1>2, OrderWithout
<1>5. /\ pc' \in [Videos -> {"none", "writing", "rename", "scan", "evict"}]
      /\ \A w \in Videos : pc'[w] = IF w = v THEN "writing" ELSE pc[w]
  BY <1>1, <1>2 DEF TypeOK
<1>6. TypeOK'
  <2>1. files' \subseteq Files /\ StrictOrder(older', files')
    BY <1>1, <1>2, <1>4 DEF TypeOK
  <2>2. \A w \in Videos : mu' = w <=> pc'[w] \in {"rename", "scan", "evict"}
    BY <1>1, <1>2, <1>5 DEF TypeOK
  <2>3. \A w \in Videos : pc'[w] \in {"writing", "rename"} => TempFile(w) \in files'
    BY <1>1, <1>2, <1>5 DEF TypeOK, f
  <2> QED BY <1>1, <1>2, <1>3, <1>5, <2>1, <2>2, <2>3 DEF TypeOK
<1>7. BudgetInv'
  <2>1. WithinBudget' <=> WithinBudget
    BY <1>1, <1>3 DEF WithinBudget, Seen, Total, Bytes
  <2> QED BY <1>1, <1>5, <2>1 DEF CacheInv, BudgetInv
<1>8. EvictInv'
  <2>1. Evicting' => Evicting
    BY <1>5 DEF Evicting
  <2>2. ASSUME Evicting, NEW u \in queue, NEW w \in queue, <<u, w>> \in order
        PROVE  u \in touched \/ <<Entry(u), Entry(w)>> \in older'
    <3>1. u \in touched \/ <<Entry(u), Entry(w)>> \in older
      BY <2>2 DEF CacheInv, EvictInv
    <3>2. Entry(u) \in files \ {f} /\ Entry(w) \in files \ {f}
      BY <1>2 DEF TypeOK, Cached
    <3> QED BY <1>1, <1>4, <3>1, <3>2
  <2>3. Seen' = Seen /\ Total(Seen)' = Total(Seen)
    BY <1>1, <1>3 DEF Seen, Total, Bytes
  <2> QED BY <1>1, <1>3, <2>1, <2>2, <2>3 DEF CacheInv, EvictInv
<1> QED BY <1>6, <1>7, <1>8 DEF CacheInv

(* The mutex is taken by nobody else's finalize.                           *)
LEMMA LockStep ==
  ASSUME CacheInv, NEW v \in Videos, Lock(v)
  PROVE  CacheInv'
<1>1. /\ files' = files /\ older' = older /\ queue' = queue /\ order' = order /\ total' = total
      /\ unseen' = unseen /\ undeletable' = undeletable /\ touched' = touched
      /\ pc[v] = "writing" /\ mu = None /\ mu' = v /\ pc' = [pc EXCEPT ![v] = "rename"]
  BY DEF Lock, Unlocked, Goto
<1>2. TypeOK /\ None \notin Videos
  BY CacheAssumption DEF CacheInv
<1>3. Cached' = Cached
  BY <1>1 DEF Cached
<1>4. \A w \in Videos : pc[w] \notin {"rename", "scan", "evict"}
  BY <1>1, <1>2 DEF TypeOK
<1>5. /\ pc' \in [Videos -> {"none", "writing", "rename", "scan", "evict"}]
      /\ \A w \in Videos : pc'[w] = IF w = v THEN "rename" ELSE pc[w]
  BY <1>1, <1>2 DEF TypeOK
<1>6. TypeOK'
  <2>1. \A w \in Videos : mu' = w <=> pc'[w] \in {"rename", "scan", "evict"}
    BY <1>1, <1>4, <1>5
  <2>2. \A w \in Videos : pc'[w] \in {"writing", "rename"} => TempFile(w) \in files'
    BY <1>1, <1>2, <1>5 DEF TypeOK
  <2> QED BY <1>1, <1>2, <1>3, <1>5, <2>1, <2>2 DEF TypeOK
<1>7. BudgetInv'
  <2>1. WithinBudget' <=> WithinBudget
    BY <1>1, <1>3 DEF WithinBudget, Seen, Total, Bytes
  <2> QED BY <1>4, <2>1 DEF CacheInv, BudgetInv
<1>8. ~Evicting'
  BY <1>4, <1>5 DEF Evicting
<1> QED BY <1>6, <1>7, <1>8 DEF CacheInv, EvictInv

(* The rename adds at most the entry, whose bytes the scan then counts.    *)
LEMMA RenameStep ==
  ASSUME CacheInv, NEW v \in Videos, Rename(v)
  PROVE  CacheInv'
<1> DEFINE a == TempFile(v)
           b == Entry(v)
           kept == Without(b)
<1>1. /\ queue' = queue /\ order' = order /\ total' = total
      /\ unseen' = unseen /\ undeletable' = undeletable /\ touched' = touched /\ pc[v] = "rename"
      /\ \/ /\ files' = (files \ {a}) \cup {b}
            /\ older' = {<<IF p[1] = a THEN b ELSE p[1], IF p[2] = a THEN b ELSE p[2]>> : p \in kept}
            /\ pc' = [pc EXCEPT ![v] = "scan"] /\ mu' = mu
         \/ /\ files' = files \ {a} /\ older' = Without(a)
            /\ pc' = [pc EXCEPT ![v] = "none"] /\ mu' = None
  BY DEF Rename, Goto
<1>2. TypeOK /\ None \notin Videos /\ a \in Files /\ b \in Files /\ a # b /\ a \in files
  BY <1>1, CacheAssumption, Names DEF CacheInv, TypeOK, Files
<1>3. mu = v /\ \A w \in Videos : w # v => pc[w] \in {"none", "writing"}
  BY <1>1, <1>2 DEF TypeOK
<1>4. \A w \in Videos : Entry(w) # a
  BY Names
<1>5. \A w \in Videos : w # v => TempFile(w) # a /\ TempFile(w) # b
  BY Names
<1> HIDE DEF a, b, kept
<1>6. CASE /\ files' = (files \ {a}) \cup {b}
           /\ older' = {<<IF p[1] = a THEN b ELSE p[1], IF p[2] = a THEN b ELSE p[2]>> : p \in kept}
           /\ pc' = [pc EXCEPT ![v] = "scan"] /\ mu' = mu
  <2>1. /\ pc' \in [Videos -> {"none", "writing", "rename", "scan", "evict"}]
        /\ \A w \in Videos : pc'[w] = IF w = v THEN "scan" ELSE pc[w]
    BY <1>2, <1>6 DEF TypeOK
  <2>2. StrictOrder(older', files')
    <3> DEFINE S == files \ {b}
               T == files'
    <3>1. StrictOrder(kept, S)
      BY <1>2, OrderWithout DEF kept
    <3>2. a \in S /\ b \notin S /\ T = (S \ {a}) \cup {b}
      BY <1>2, <1>6
    <3> HIDE DEF S, T
    <3>3. StrictOrder(older', T)
      BY <1>6, <3>1, <3>2, OrderRenamed
    <3> QED BY <3>3 DEF T
  <2>3. Cached \subseteq Cached'
    BY <1>4, <1>6 DEF Cached
  <2>4. \A w \in Videos : mu' = w <=> pc'[w] \in {"rename", "scan", "evict"}
    BY <1>3, <1>6, <2>1
  <2>5. \A w \in Videos : pc'[w] \in {"writing", "rename"} => TempFile(w) \in files'
    BY <1>2, <1>5, <1>6, <2>1 DEF TypeOK
  <2>6. TypeOK'
    BY <1>1, <1>2, <1>6, <2>1, <2>2, <2>3, <2>4, <2>5 DEF TypeOK
  <2>7. BudgetInv'
    BY <2>1 DEF BudgetInv
  <2>8. ~Evicting'
    BY <1>3, <2>1 DEF Evicting
  <2> QED BY <2>6, <2>7, <2>8 DEF CacheInv, EvictInv
<1>7. CASE /\ files' = files \ {a} /\ older' = Without(a)
           /\ pc' = [pc EXCEPT ![v] = "none"] /\ mu' = None
  <2>1. /\ pc' \in [Videos -> {"none", "writing", "rename", "scan", "evict"}]
        /\ \A w \in Videos : pc'[w] = IF w = v THEN "none" ELSE pc[w]
    BY <1>2, <1>7 DEF TypeOK
  <2>2. StrictOrder(older', files')
    BY <1>2, <1>7, OrderWithout
  <2>3. Cached' = Cached
    BY <1>4, <1>7 DEF Cached
  <2>4. \A w \in Videos : mu' = w <=> pc'[w] \in {"rename", "scan", "evict"}
    BY <1>2, <1>3, <1>7, <2>1
  <2>5. \A w \in Videos : pc'[w] \in {"writing", "rename"} => TempFile(w) \in files'
    BY <1>2, <1>5, <1>7, <2>1 DEF TypeOK
  <2>6. TypeOK'
    BY <1>1, <1>2, <1>7, <2>1, <2>2, <2>3, <2>4, <2>5 DEF TypeOK
  <2>7. BudgetInv'
    <3>1. \A w \in Videos : pc[w] \notin {"scan", "evict"}
      BY <1>1, <1>3
    <3>2. WithinBudget' <=> WithinBudget
      BY <1>1, <2>3 DEF WithinBudget, Seen, Total, Bytes
    <3> QED BY <3>1, <3>2 DEF CacheInv, BudgetInv
  <2>8. ~Evicting'
    BY <1>3, <2>1 DEF Evicting
  <2> QED BY <2>6, <2>7, <2>8 DEF CacheInv, EvictInv
<1> QED BY <1>1, <1>6, <1>7

(* The scan starts a loop whose invariant holds.                           *)
LEMMA ScanStep ==
  ASSUME CacheInv, NEW v \in Videos, Scan(v)
  PROVE  CacheInv'
<1>1. /\ files' = files /\ older' = older /\ mu' = mu /\ touched' = touched
      /\ undeletable' = {}
      /\ pc[v] = "scan" /\ pc' = [pc EXCEPT ![v] = "evict"]
  BY DEF Scan, Goto
<1>2. TypeOK
  BY DEF CacheInv
<1>3. Cached' = Cached
  BY <1>1 DEF Cached
<1>9. PICK seen \in SUBSET Cached : /\ total' = Total(seen) /\ queue' = seen
                                   /\ order' = Sorted(seen) /\ unseen' = Cached \ seen
  BY DEF Scan
<1>10. Seen' = seen /\ Total(Seen)' = Total(seen) /\ Total(seen) \in Nat
  BY <1>3, <1>9, TotalType DEF Seen, Cached, Total, Bytes
<1>4. /\ pc' \in [Videos -> {"none", "writing", "rename", "scan", "evict"}]
      /\ \A w \in Videos : pc'[w] = IF w = v THEN "evict" ELSE pc[w]
  BY <1>1, <1>2 DEF TypeOK
<1>5. TypeOK'
  <2>1. \A w \in Videos : mu' = w <=> pc'[w] \in {"rename", "scan", "evict"}
    BY <1>1, <1>2, <1>4 DEF TypeOK
  <2>2. \A w \in Videos : pc'[w] \in {"writing", "rename"} => TempFile(w) \in files'
    BY <1>1, <1>2, <1>4 DEF TypeOK
  <2>3. order' \subseteq Videos \X Videos
    BY <1>9 DEF Sorted, Cached
  <2>4. unseen' \subseteq Videos /\ queue' \subseteq Cached'
    BY <1>3, <1>9 DEF Cached
  <2> QED BY <1>1, <1>2, <1>3, <1>4, <1>9, <1>10, <2>1, <2>2, <2>3, <2>4 DEF TypeOK
<1>6. BudgetInv'
  BY <1>4 DEF BudgetInv
<1>7. EvictInv'
  BY <1>1, <1>9, <1>10 DEF EvictInv, Sorted
<1> QED BY <1>5, <1>6, <1>7 DEF CacheInv

(* The two things Evict does: to try an entry, and to end.                 *)
Tries(oldest) ==
  /\ total > MaxSize /\ First(oldest)
  /\ queue' = queue \ {oldest}
  /\ \/ /\ files' = files \ {Entry(oldest)} /\ older' = Without(Entry(oldest))
        /\ total' = total - SizeOf[oldest]
        /\ undeletable' = undeletable
     \/ /\ undeletable' = undeletable \cup {oldest}
        /\ total' = total /\ files' = files /\ older' = older
  /\ order' = order /\ pc' = pc /\ mu' = mu /\ unseen' = unseen /\ touched' = touched

Ends(v) ==
  /\ total <= MaxSize \/ queue = {}
  /\ queue' = {} /\ order' = {} /\ total' = 0
  /\ pc' = [pc EXCEPT ![v] = "none"] /\ mu' = None /\ touched' = {}
  /\ files' = files /\ older' = older /\ unseen' = unseen /\ undeletable' = undeletable

(* Evict does one or the other.                                            *)
LEMMA EvictCases ==
  ASSUME NEW v \in Videos, Evict(v)
  PROVE  pc[v] = "evict" /\ (Ends(v) \/ \E oldest \in queue : Tries(oldest))
BY DEF Evict, Tries, Ends, TotalWith, Goto

(* A turn of the loop: the entry removed is the first of those to try.     *)
LEMMA TurnStep ==
  ASSUME CacheInv, NEW v \in Videos, pc[v] = "evict", NEW oldest \in queue, Tries(oldest)
  PROVE  CacheInv' /\ (Cached' = Cached \/ Cached' = Cached \ {oldest})
<1> DEFINE f == Entry(oldest)
<1>1. TypeOK /\ oldest \in Cached /\ Cached \subseteq Videos
  BY DEF CacheInv, TypeOK, Cached
<1> USE DEF Tries
<1>2. /\ total = Total(Seen) /\ queue \subseteq Seen /\ Seen \ queue \subseteq undeletable
      /\ \A u, w \in queue : <<u, w>> \in order => u \in touched \/ <<Entry(u), Entry(w)>> \in older
      /\ Evicting'
  BY DEF CacheInv, EvictInv, Evicting
<1>3. \A w \in Videos : TempFile(w) # f /\ (Entry(w) = f => w = oldest)
  BY Names
<1>4. ~\A w \in Videos : pc'[w] \notin {"scan", "evict"}
  OBVIOUS
<1> HIDE DEF f
<1>5. CASE /\ files' = files \ {f} /\ older' = Without(f)
           /\ total' = total - SizeOf[oldest]
           /\ undeletable' = undeletable
  <2>1. Cached' = Cached \ {oldest}
    BY <1>3, <1>5 DEF Cached, f
  <2>2. total' = Total(Seen)' /\ total' \in Nat /\ Seen' = Seen \ {oldest}
    <3>1. Total(Seen \ {oldest}) = Total(Seen) - SizeOf[oldest] /\ Total(Seen \ {oldest}) \in Nat
      <4>1. Seen \subseteq Videos /\ oldest \in Seen /\ Seen \ {oldest} \subseteq Videos
        BY <1>1, <1>2 DEF Seen
      <4> QED BY <4>1, TotalWithout, TotalType
    <3>2. Seen' = Seen \ {oldest} /\ Total(Seen)' = Total(Seen \ {oldest})
      BY <2>1 DEF Seen, Total, Bytes
    <3> QED BY <1>2, <1>5, <3>1, <3>2
  <2>3. /\ StrictOrder(older', files')
        /\ \A g, h \in files \ {f} : <<g, h>> \in older => <<g, h>> \in older'
    BY <1>1, <1>5, OrderWithout
  <2>4. TypeOK'
    <3>1. \A w \in Videos : pc'[w] \in {"writing", "rename"} => TempFile(w) \in files'
      BY <1>1, <1>3, <1>5 DEF TypeOK
    <3> QED BY <1>1, <1>5, <2>1, <2>2, <2>3, <3>1 DEF TypeOK
  <2>5. ASSUME NEW u \in queue', NEW w \in queue', <<u, w>> \in order
        PROVE  u \in touched \/ <<Entry(u), Entry(w)>> \in older'
    <3>1. u \in touched \/ <<Entry(u), Entry(w)>> \in older
      BY <1>2, <2>5
    <3>2. Entry(u) \in files \ {f} /\ Entry(w) \in files \ {f}
      BY <1>1, <1>3 DEF TypeOK, Cached
    <3> QED BY <2>3, <3>1, <3>2
  <2>6. EvictInv'
    BY <1>2, <1>5, <2>1, <2>2, <2>5 DEF EvictInv
  <2> QED BY <1>4, <2>1, <2>4, <2>6 DEF CacheInv, BudgetInv
<1>6. CASE /\ undeletable' = undeletable \cup {oldest}
           /\ total' = total /\ files' = files /\ older' = older
  <2>1. Cached' = Cached /\ Seen' = Seen /\ Total(Seen)' = Total(Seen)
    BY <1>6 DEF Seen, Cached, Total, Bytes
  <2>2. TypeOK'
    BY <1>1, <1>6, <2>1 DEF TypeOK
  <2>3. EvictInv'
    BY <1>2, <1>6, <2>1 DEF EvictInv
  <2> QED BY <1>4, <2>1, <2>2, <2>3 DEF CacheInv, BudgetInv
<1> QED BY <1>5, <1>6 DEF f

(* The loop ends when the total fits or when every entry was tried.        *)
LEMMA EndStep ==
  ASSUME CacheInv, NEW v \in Videos, pc[v] = "evict", Ends(v)
  PROVE  CacheInv' /\ Cached' = Cached
<1> USE DEF Ends
<1>1. TypeOK /\ None \notin Videos
  BY CacheAssumption DEF CacheInv
<1>2. total = Total(Seen) /\ Seen \ queue \subseteq undeletable
  BY DEF CacheInv, EvictInv, Evicting
<1>3. Cached' = Cached
  BY DEF Cached
<1>4. mu = v /\ \A w \in Videos : w # v => pc[w] \in {"none", "writing"}
  BY <1>1 DEF TypeOK
<1>5. /\ pc' \in [Videos -> {"none", "writing", "rename", "scan", "evict"}]
      /\ \A w \in Videos : pc'[w] = IF w = v THEN "none" ELSE pc[w]
  BY <1>1 DEF TypeOK
<1>6. TypeOK'
  <2>1. \A w \in Videos : mu' = w <=> pc'[w] \in {"rename", "scan", "evict"}
    BY <1>1, <1>4, <1>5
  <2>2. \A w \in Videos : pc'[w] \in {"writing", "rename"} => TempFile(w) \in files'
    BY <1>1, <1>5 DEF TypeOK
  <2> QED BY <1>1, <1>3, <1>5, <2>1, <2>2 DEF TypeOK
<1>7. WithinBudget
  BY <1>2 DEF WithinBudget, Seen, Total, Bytes
<1>8. BudgetInv'
  BY <1>3, <1>7 DEF BudgetInv, WithinBudget, Seen, Total, Bytes
<1>9. ~Evicting'
  BY <1>4, <1>5 DEF Evicting
<1> QED BY <1>3, <1>6, <1>8, <1>9 DEF CacheInv, EvictInv

(* A touch makes an entry the newest, and is known to an eviction at work. *)
LEMMA TouchStep ==
  ASSUME CacheInv, NEW v \in Videos, Touch(v)
  PROVE  CacheInv' /\ Cached' = Cached
<1> DEFINE f == Entry(v)
<1>1. /\ f \in files /\ older' = Newest(f)
      /\ touched' = IF Evicting THEN touched \cup {v} ELSE touched
      /\ files' = files /\ pc' = pc /\ mu' = mu /\ queue' = queue /\ order' = order
      /\ total' = total /\ unseen' = unseen /\ undeletable' = undeletable
  BY DEF Touch
<1>2. TypeOK
  BY DEF CacheInv
<1>3. Cached' = Cached /\ Seen' = Seen /\ Total(Seen)' = Total(Seen)
  BY <1>1 DEF Seen, Cached, Total, Bytes
<1>4. \A w \in Videos : Entry(w) = f <=> w = v
  BY Names
<1> HIDE DEF f
<1>5. /\ StrictOrder(Newest(f), files \cup {f}) /\ files \cup {f} = files
      /\ \A g, h \in files \ {f} : <<g, h>> \in older => <<g, h>> \in Newest(f)
      /\ \A g \in files \ {f} : <<g, f>> \in Newest(f)
  BY <1>1, <1>2, OrderWithout
<1>6. TypeOK'
  BY <1>1, <1>2, <1>3, <1>5 DEF TypeOK
<1>7. BudgetInv'
  <2>1. WithinBudget' <=> WithinBudget
    BY <1>1, <1>3 DEF WithinBudget, Seen, Total, Bytes
  <2> QED BY <1>1, <2>1 DEF CacheInv, BudgetInv
<1>8. EvictInv'
  <2>1. Evicting' <=> Evicting
    BY <1>1 DEF Evicting
  <2>2. ASSUME Evicting, NEW u \in queue, NEW w \in queue, <<u, w>> \in order, u \notin touched'
        PROVE  <<Entry(u), Entry(w)>> \in older'
    <3>1. u # v /\ <<Entry(u), Entry(w)>> \in older
      BY <1>1, <2>2 DEF CacheInv, EvictInv
    <3>2. Entry(u) \in files \ {f} /\ Entry(w) \in files
      BY <1>2, <1>4, <3>1 DEF TypeOK, Cached
    <3>3. CASE Entry(w) = f
      BY <1>1, <1>5, <3>2, <3>3
    <3>4. CASE Entry(w) # f
      BY <1>1, <1>5, <3>1, <3>2, <3>4
    <3> QED BY <3>3, <3>4
  <2> QED BY <1>1, <1>3, <2>1, <2>2 DEF CacheInv, EvictInv
<1> QED BY <1>3, <1>6, <1>7, <1>8 DEF CacheInv

(* A restart keeps the entries, in their order.                            *)
LEMMA RestartStep ==
  ASSUME CacheInv, Restart
  PROVE  CacheInv' /\ Cached' = Cached
<1> DEFINE E == {Entry(v) : v \in Cached}
<1>1. /\ files' = E /\ older' = Among(E) /\ pc' = [v \in Videos |-> "none"]
      /\ mu' = None /\ queue' = {} /\ order' = {} /\ total' = 0
      /\ unseen' = Videos /\ undeletable' = {} /\ touched' = {}
  BY DEF Restart
<1>2. TypeOK /\ None \notin Videos
  BY CacheAssumption DEF CacheInv
<1>3. E \subseteq files /\ E \subseteq Files
  BY DEF Cached, Files
<1>4. Cached' = Cached
  BY <1>1, Names DEF Cached
<1> HIDE DEF E
<1>5. StrictOrder(older', files')
  <2>1. StrictOrder({p \in older : p[1] \in E /\ p[2] \in E}, E)
    BY <1>2, <1>3, OrderAmong DEF TypeOK
  <2> QED BY <1>1, <2>1 DEF Among
<1>6. \A v \in Videos : pc'[v] = "none"
  BY <1>1
<1>7. TypeOK'
  BY <1>1, <1>2, <1>3, <1>5, <1>6 DEF TypeOK
<1>8. WithinBudget' /\ ~Evicting'
  BY <1>1, <1>6, EmptyTotal DEF WithinBudget, Seen, Evicting, Cached
<1> QED BY <1>4, <1>7, <1>8 DEF CacheInv, BudgetInv, EvictInv

(* So every step keeps the invariant.                                      *)
LEMMA CacheStep == CacheInv /\ [Next]_vars => CacheInv'
<1> SUFFICES ASSUME CacheInv, [Next]_vars PROVE CacheInv'
  OBVIOUS
<1>1. CASE UNCHANGED vars
  <2>1. TypeOK'
    BY <1>1 DEF vars, CacheInv, TypeOK, Cached
  <2>2. BudgetInv' /\ EvictInv'
    BY <1>1 DEF vars, CacheInv, BudgetInv, WithinBudget, EvictInv, Evicting, Seen, Cached, Total, Bytes
  <2> QED BY <2>1, <2>2 DEF CacheInv
<1>2. CASE Restart
  BY <1>2, RestartStep
<1>3. ASSUME NEW v \in Videos, Write(v) \/ Lock(v) \/ Rename(v) \/ Scan(v) \/ Touch(v)
      PROVE  CacheInv'
  BY <1>3, WriteStep, LockStep, RenameStep, ScanStep, TouchStep
<1>4. ASSUME NEW v \in Videos, Evict(v) PROVE CacheInv'
  BY <1>4, EvictCases, TurnStep, EndStep
<1> QED BY <1>1, <1>2, <1>3, <1>4 DEF Next

(* The only steps that change what is cached: a rename, which adds to it   *)
(* while nothing is evicted, and a turn of the loop.                       *)
LEMMA CachedChanges ==
  ASSUME CacheInv, [Next]_vars, Cached' # Cached
  PROVE  \/ ~Evicting /\ Cached \subseteq Cached'
         \/ \E oldest \in queue : Evicting /\ Tries(oldest) /\ Cached' = Cached \ {oldest}
<1>1. \A v, w \in Videos : /\ Entry(v) # TempFile(w)
                           /\ Entry(v) = Entry(w) => v = w
  BY Names
<1>2. CASE UNCHANGED vars
  BY <1>2 DEF vars, Cached
<1>3. CASE Restart
  BY <1>3, RestartStep
<1>4. ASSUME NEW v \in Videos, Write(v) \/ Lock(v) \/ Scan(v) PROVE FALSE
  BY <1>1, <1>4 DEF Write, Lock, Scan, Cached
<1>5. ASSUME NEW v \in Videos, Touch(v) PROVE FALSE
  BY <1>5, TouchStep
<1>6. ASSUME NEW v \in Videos, Rename(v) PROVE ~Evicting /\ Cached \subseteq Cached'
  <2>1. ~Evicting
    BY <1>6 DEF Rename, CacheInv, TypeOK, Evicting
  <2>2. Cached \subseteq Cached'
    BY <1>1, <1>6 DEF Rename, Cached
  <2> QED BY <2>1, <2>2
<1>7. ASSUME NEW v \in Videos, Evict(v)
      PROVE  \E oldest \in queue : Evicting /\ Tries(oldest) /\ Cached' = Cached \ {oldest}
  <2>1. pc[v] = "evict" /\ Evicting
    BY <1>7, EvictCases DEF Evicting
  <2>2. CASE Ends(v)
    BY <2>1, <2>2, EndStep
  <2>3. CASE \E oldest \in queue : Tries(oldest)
    BY <2>1, <2>3, TurnStep
  <2> QED BY <1>7, <2>2, <2>3, EvictCases
<1> QED BY <1>2, <1>3, <1>4, <1>5, <1>6, <1>7 DEF Next

(***************************************************************************)
(* The theorems                                                            *)
(***************************************************************************)

(* The shape of every variable: the modification times order the files,    *)
(* cache.mu is held exactly by the finalize at work, and what is left to   *)
(* evict is still there (cache.go).                                        *)
THEOREM CacheTypeOK == Spec => []TypeOK
<1>1. CacheInv => TypeOK
  BY DEF CacheInv
<1> QED BY <1>1, CacheInit, CacheStep, PTL DEF Spec

(* Whenever no finalize is at work the entries that the last scan could    *)
(* see fit the budget, unless what is left of them could not be removed    *)
(* (scanLocked, evictLocked, cache.go).                                    *)
THEOREM CacheBudgetKept == Spec => []BudgetKept
<1>1. CacheInv => BudgetKept
  <2> SUFFICES ASSUME CacheInv, mu = None PROVE WithinBudget
    BY DEF BudgetKept, WithinBudget
  <2>1. \A v \in Videos : pc[v] \notin {"scan", "evict"}
    BY CacheAssumption DEF CacheInv, TypeOK
  <2> QED BY <2>1 DEF CacheInv, BudgetInv
<1> QED BY <1>1, CacheInit, CacheStep, PTL DEF Spec

(* An entry is removed only while the entries there exceed the budget: the *)
(* total an eviction keeps is never stale (finalize's lock, cache.go).     *)
THEOREM CacheNoNeedlessEviction == Spec => NoNeedlessEviction
<1>1. ASSUME CacheInv, [Next]_vars, NEW v \in Videos, pc[v] = "evict", Cached' # Cached
      PROVE  Total(Cached) > MaxSize
  <2>1. Evicting
    BY <1>1 DEF Evicting
  <2>2. PICK oldest \in queue : Tries(oldest)
    BY <1>1, <2>1, CachedChanges
  <2>3. total > MaxSize
    BY <2>2 DEF Tries
  <2>4. total = Total(Seen)
    BY <1>1, <2>1 DEF CacheInv, EvictInv
  <2>5. Total(Seen) <= Total(Cached) /\ Total(Seen) \in Nat /\ Total(Cached) \in Nat
    BY TotalMonotone, TotalType DEF Seen, Cached
  <2> QED BY <2>3, <2>4, <2>5, CacheAssumption
<1>2. CacheInv /\ [Next]_vars
        => [\A v \in Videos : pc[v] = "evict" /\ Cached' # Cached => Total(Cached) > MaxSize]_vars
  BY <1>1
<1> QED BY <1>2, CacheInit, CacheStep, PTL DEF Spec, NoNeedlessEviction

(* What is evicted is the least recently modified of the entries the scan  *)
(* saw that were not tried before, or was touched after the scan           *)
(* (scanLocked, evictLocked, cache.go).                                    *)
THEOREM CacheEvictsLeastRecent == Spec => EvictsLeastRecent
<1>1. ASSUME CacheInv, [Next]_vars, NEW v \in Cached, Cached' = Cached \ {v}, v \notin touched,
             NEW w \in Seen, <<Entry(w), Entry(v)>> \in older
      PROVE  w \in undeletable
  <2>1. PICK oldest \in queue : Evicting /\ Tries(oldest) /\ Cached' = Cached \ {oldest}
    <3>1. Cached' # Cached /\ ~(Cached \subseteq Cached')
      BY <1>1
    <3> QED BY <1>1, <3>1, CachedChanges
  <2>2. oldest = v
    BY <1>1, <2>1
  <2>3. SUFFICES ASSUME w \notin undeletable PROVE FALSE
    OBVIOUS
  <2>4. w \in queue
    BY <1>1, <2>1, <2>3 DEF CacheInv, EvictInv
  <2>5. /\ StrictOrder(older, files) /\ Entry(v) \in files /\ Entry(w) \in files
    BY <1>1 DEF CacheInv, TypeOK, Seen, Cached
  <2>6. ~(<<Entry(v), Entry(w)>> \in older) /\ v # w
    BY <1>1, <2>5 DEF StrictOrder
  <2>7. <<v, w>> \in order
    BY <2>1, <2>2, <2>4, <2>6 DEF Tries, First
  <2> QED BY <1>1, <2>1, <2>2, <2>4, <2>6, <2>7 DEF CacheInv, EvictInv
<1>2. CacheInv /\ [Next]_vars
        => [\A v \in Cached :
              Cached' = Cached \ {v}
                => \/ v \in touched
                   \/ \A w \in Seen : <<Entry(w), Entry(v)>> \in older => w \in undeletable]_vars
  BY <1>1
<1> QED BY <1>2, CacheInit, CacheStep, PTL DEF Spec, EvictsLeastRecent
=============================================================================
