------------------------- MODULE SegmentProxyProofs -------------------------
(***************************************************************************)
(* What holds of the live HLS proxy for any number of requests, segments   *)
(* and slots, and any capacity of the cache.                               *)
(***************************************************************************)
EXTENDS SegmentProxy, TLAPS

Working == {"slot", "fetch", "store", "deliver"}

(* The calls of singleflight and the requests that run them are each       *)
(* other's: a segment's call is run by one request at work on it, and a    *)
(* request at work on a segment runs its call.                             *)
CallInv ==
  /\ \A s \in Segments : leader[s] # None => wants[leader[s]] = s /\ pc[leader[s]] \in Working
  /\ \A r \in Requests : pc[r] \in Working /\ wants[r] \in Segments => leader[wants[r]] = r
  /\ \A r \in Requests : pc[r] = "shared" => leader[wants[r]] # None

(* Only segments are looked for in the cache, shared and stored, and only  *)
(* whole or cut bodies are stored.                                         *)
WantInv ==
  \A r \in Requests :
    /\ pc[r] \in {"look", "join", "shared", "store"} => wants[r] \in Segments
    /\ pc[r] # "idle" => wants[r] \in Objects
    /\ pc[r] = "store" => body[r] \in {"whole", "truncated"}

ProxyInv == TypeOK /\ CallInv /\ WantInv

(* It holds before anyone has asked for anything.                         *)
LEMMA InitInv == Init => ProxyInv
BY ProxyAssumption DEF Init, ProxyInv, TypeOK, CallInv, WantInv, Bodies, Pcs, Working

(* One request's step, from where it is at work to a place that fits what  *)
(* it asks for, keeps the shape of pc and body and what everyone wants.    *)
LEMMA Moved ==
  ASSUME ProxyInv, UNCHANGED wants,
         NEW r \in Requests, pc[r] # "idle",
         NEW at \in Pcs, pc' = [pc EXCEPT ![r] = at],
         NEW b \in Bodies, body' = body \/ body' = [body EXCEPT ![r] = b],
         at \in {"look", "join", "shared", "store"} => wants[r] \in Segments,
         at = "store" => body'[r] \in {"whole", "truncated"}
  PROVE  pc' \in [Requests -> Pcs] /\ body' \in [Requests -> Bodies] /\ WantInv'
<1>1. pc' \in [Requests -> Pcs] /\ body' \in [Requests -> Bodies]
  BY DEF ProxyInv, TypeOK
<1>2. ASSUME NEW q \in Requests
      PROVE  /\ pc'[q] \in {"look", "join", "shared", "store"} => wants'[q] \in Segments
             /\ pc'[q] # "idle" => wants'[q] \in Objects
             /\ pc'[q] = "store" => body'[q] \in {"whole", "truncated"}
  <2>1. CASE q = r
    BY <2>1 DEF ProxyInv, TypeOK, WantInv
  <2>2. CASE q # r
    <3>1. pc'[q] = pc[q] /\ body'[q] = body[q] /\ wants'[q] = wants[q]
      BY <2>2 DEF ProxyInv, TypeOK
    <3> QED BY <3>1 DEF ProxyInv, WantInv
  <2> QED BY <2>1, <2>2
<1> QED BY <1>1, <1>2 DEF WantInv

(* Every step keeps the shape of the variables, and each request is at     *)
(* work on what it may be.                                                 *)
LEMMA ShapeStep == ProxyInv /\ [Next]_vars => TypeOK' /\ WantInv'
<1> SUFFICES ASSUME ProxyInv, [Next]_vars PROVE TypeOK' /\ WantInv'
  OBVIOUS
<1>a. TypeOK /\ WantInv
  BY DEF ProxyInv
<1>b. {"look", "join", "shared", "slot", "fetch", "store", "deliver", "answered"} \subseteq Pcs
  BY DEF Pcs
<1>c. {"none", "whole", "truncated", "unavailable", "cancelled", "too large"} \subseteq Bodies
  BY DEF Bodies
<1>1. CASE UNCHANGED vars
  BY <1>a, <1>1 DEF vars, TypeOK, WantInv
<1>2. ASSUME NEW r \in Requests, Ask(r) PROVE TypeOK' /\ WantInv'
  <2>1. PICK o \in Objects : /\ wants' = [wants EXCEPT ![r] = o]
                             /\ pc' = [pc EXCEPT ![r] = IF o \in Segments THEN "look" ELSE "slot"]
    BY <1>2 DEF Ask, Goto
  <2>2. body' = [body EXCEPT ![r] = "none"] /\ gone' = gone \ {r} /\ UNCHANGED <<cache, leader>>
    BY <1>2 DEF Ask
  <2>3. TypeOK'
    <3>1. pc' \in [Requests -> Pcs] /\ wants' \in [Requests -> Objects \cup {None}]
      BY <1>a, <1>b, <2>1 DEF TypeOK
    <3>2. body' \in [Requests -> Bodies]
      BY <1>a, <1>c, <2>2 DEF TypeOK
    <3> QED BY <1>a, <2>2, <3>1, <3>2 DEF TypeOK
  <2>4. WantInv'
    <3>1. ASSUME NEW q \in Requests, q # r
          PROVE  pc'[q] = pc[q] /\ wants'[q] = wants[q] /\ body'[q] = body[q]
      BY <1>a, <2>1, <2>2, <3>1 DEF TypeOK
    <3>2. /\ pc'[r] \in {"look", "slot"} /\ wants'[r] \in Objects
          /\ pc'[r] = "look" => wants'[r] \in Segments
      BY <1>a, <2>1 DEF TypeOK
    <3> QED BY <1>a, <3>1, <3>2 DEF WantInv
  <2> QED BY <2>3, <2>4
<1>3. ASSUME NEW r \in Requests, Look(r) PROVE TypeOK' /\ WantInv'
  <2>1. pc[r] = "look" /\ UNCHANGED <<cache, leader, wants, gone>>
    BY <1>3 DEF Look
  <2>2. wants[r] \in Segments
    BY <1>a, <2>1 DEF WantInv
  <2>3. cache[wants[r]] \in Bodies
    BY <1>a, <1>c, <2>2 DEF TypeOK
  <2>4. PICK at \in {"join", "answered"} : pc' = [pc EXCEPT ![r] = at]
    BY <1>3 DEF Look, Goto
  <2>5. body' = body \/ body' = [body EXCEPT ![r] = cache[wants[r]]]
    BY <1>3 DEF Look
  <2>6. pc' \in [Requests -> Pcs] /\ body' \in [Requests -> Bodies] /\ WantInv'
    BY <1>b, <2>1, <2>2, <2>3, <2>4, <2>5, Moved
  <2> QED BY <1>a, <2>1, <2>6 DEF TypeOK
<1>4. ASSUME NEW r \in Requests, Join(r) PROVE TypeOK' /\ WantInv'
  <2>1. pc[r] = "join" /\ UNCHANGED <<cache, wants, body, gone>>
    BY <1>4 DEF Join
  <2>2. wants[r] \in Segments
    BY <1>a, <2>1 DEF WantInv
  <2>3. PICK at \in {"shared", "slot"} : pc' = [pc EXCEPT ![r] = at]
    BY <1>4 DEF Join, Goto
  <2>4. leader' = leader \/ leader' = [leader EXCEPT ![wants[r]] = r]
    BY <1>4 DEF Join
  <2>5. leader' \in [Segments -> Requests \cup {None}]
    BY <1>a, <2>2, <2>4 DEF TypeOK
  <2>6. pc' \in [Requests -> Pcs] /\ body' \in [Requests -> Bodies] /\ WantInv'
    BY <1>b, <1>c, <2>1, <2>2, <2>3, Moved
  <2> QED BY <1>a, <2>1, <2>5, <2>6 DEF TypeOK
<1>5. ASSUME NEW r \in Requests, AcquireSlot(r) PROVE TypeOK' /\ WantInv'
  <2>1. pc[r] = "slot" /\ UNCHANGED <<cache, leader, wants, gone>>
    BY <1>5 DEF AcquireSlot
  <2>2. PICK at \in {"fetch", "deliver"} : pc' = [pc EXCEPT ![r] = at]
    BY <1>5 DEF AcquireSlot, Goto
  <2>3. body' = body \/ body' = [body EXCEPT ![r] = "cancelled"]
    BY <1>5 DEF AcquireSlot
  <2>4. pc' \in [Requests -> Pcs] /\ body' \in [Requests -> Bodies] /\ WantInv'
    BY <1>b, <1>c, <2>1, <2>2, <2>3, Moved
  <2> QED BY <1>a, <2>1, <2>4 DEF TypeOK
<1>6. ASSUME NEW r \in Requests, Fetch(r) PROVE TypeOK' /\ WantInv'
  <2>1. pc[r] = "fetch" /\ UNCHANGED <<cache, leader, wants, gone>>
    BY <1>6 DEF Fetch
  <2>2. Fetched(wants[r]) \in Bodies
        /\ (wants[r] \in Segments => Fetched(wants[r]) \in {"whole", "truncated"})
    BY <1>c DEF Fetched
  <2>3. CASE /\ body' = [body EXCEPT ![r] = Fetched(wants[r])]
             /\ pc' = [pc EXCEPT ![r] = IF wants[r] \in Segments THEN "store" ELSE "deliver"]
    <3>1. body'[r] = Fetched(wants[r])
      BY <1>a, <2>3 DEF TypeOK
    <3> DEFINE at == IF wants[r] \in Segments THEN "store" ELSE "deliver"
    <3>2. /\ at \in Pcs /\ pc' = [pc EXCEPT ![r] = at]
          /\ at \in {"look", "join", "shared", "store"} => wants[r] \in Segments
          /\ at = "store" => body'[r] \in {"whole", "truncated"}
      BY <1>b, <2>2, <2>3, <3>1
    <3> HIDE DEF at
    <3>3. pc' \in [Requests -> Pcs] /\ body' \in [Requests -> Bodies] /\ WantInv'
      BY <2>1, <2>2, <2>3, <3>2, Moved
    <3> QED BY <1>a, <2>1, <3>3 DEF TypeOK
  <2>4. CASE pc' = [pc EXCEPT ![r] = "deliver"]
             /\ \E b \in {"unavailable", "cancelled"} : body' = [body EXCEPT ![r] = b]
    <3>1. PICK b \in {"unavailable", "cancelled"} : body' = [body EXCEPT ![r] = b]
      BY <2>4
    <3>2. b \in Bodies /\ "deliver" \in Pcs
      BY <1>b, <1>c, <3>1
    <3>3. pc' \in [Requests -> Pcs] /\ body' \in [Requests -> Bodies] /\ WantInv'
      BY <2>1, <2>4, <3>1, <3>2, Moved
    <3> QED BY <1>a, <2>1, <3>3 DEF TypeOK
  <2> QED BY <1>6, <2>3, <2>4 DEF Fetch, Goto
<1>7. ASSUME NEW r \in Requests, Store(r) PROVE TypeOK' /\ WantInv'
  <2>1. /\ pc[r] = "store" /\ pc' = [pc EXCEPT ![r] = "deliver"]
        /\ UNCHANGED <<leader, wants, body, gone>>
    BY <1>7 DEF Store, Goto
  <2>2. body[r] \in {"whole", "truncated"} /\ wants[r] \in Segments
    BY <1>a, <2>1 DEF WantInv
  <2>3. PICK kept \in SUBSET Cached(cache) :
          cache' = [s \in Segments |-> IF s = wants[r] THEN body[r]
                                       ELSE IF s \in kept THEN cache[s] ELSE "none"]
    BY <1>7 DEF Store
  <2>4. cache' \in [Segments -> {"none", "whole", "truncated"}]
    BY <1>a, <2>2, <2>3 DEF TypeOK
  <2>5. pc' \in [Requests -> Pcs] /\ body' \in [Requests -> Bodies] /\ WantInv'
    BY <1>b, <1>c, <2>1, <2>2, Moved
  <2> QED BY <1>a, <2>1, <2>4, <2>5 DEF TypeOK
<1>8. ASSUME NEW r \in Requests, Deliver(r) PROVE TypeOK' /\ WantInv'
  <2> DEFINE to == IF wants[r] \in Segments THEN Answered(r) ELSE {r}
  <2>1. /\ pc' = [q \in Requests |-> IF q \in to THEN "answered" ELSE pc[q]]
        /\ body' = [q \in Requests |-> IF q \in to THEN body[r] ELSE body[q]]
        /\ leader' = [s \in Segments |-> IF s = wants[r] THEN None ELSE leader[s]]
        /\ UNCHANGED <<cache, wants, gone>> /\ pc[r] = "deliver"
    BY <1>8 DEF Deliver
  <2>2. \A q \in to : q \in Requests /\ pc[q] # "idle"
    BY <2>1 DEF Answered
  <2> HIDE DEF to
  <2>3. pc' \in [Requests -> Pcs] /\ body' \in [Requests -> Bodies]
    BY <1>a, <1>b, <2>1 DEF TypeOK
  <2>4. leader' \in [Segments -> Requests \cup {None}]
    BY <1>a, <2>1 DEF TypeOK
  <2>5. ASSUME NEW q \in Requests
        PROVE  \/ pc'[q] = "answered" /\ wants'[q] \in Objects
               \/ pc'[q] = pc[q] /\ body'[q] = body[q] /\ wants'[q] = wants[q]
    <3>1. CASE q \in to
      BY <1>a, <2>1, <2>2, <3>1 DEF WantInv
    <3>2. CASE q \notin to
      BY <2>1, <3>2
    <3> QED BY <3>1, <3>2
  <2>6. WantInv'
    BY <1>a, <2>5 DEF WantInv
  <2> QED BY <1>a, <2>1, <2>3, <2>4, <2>6 DEF TypeOK
<1>9. ASSUME NEW r \in Requests, Disconnect(r) PROVE TypeOK' /\ WantInv'
  BY <1>a, <1>9 DEF Disconnect, TypeOK, WantInv
<1>10. ASSUME NEW s \in Segments, Expire(s) PROVE TypeOK' /\ WantInv'
  <2>1. cache' = [cache EXCEPT ![s] = "none"] /\ UNCHANGED <<leader, pc, wants, body, gone>>
    BY <1>10 DEF Expire
  <2>2. cache' \in [Segments -> {"none", "whole", "truncated"}]
    BY <1>a, <2>1 DEF TypeOK
  <2> QED BY <1>a, <2>1, <2>2 DEF TypeOK, WantInv
<1> QED BY <1>1, <1>2, <1>3, <1>4, <1>5, <1>6, <1>7, <1>8, <1>9, <1>10 DEF Next, RequestStep

(* Only Join, which makes a call, and Deliver, which ends one, can disturb *)
(* the match of calls and requests; the other steps of a request keep it   *)
(* at work or out of it.                                                   *)
LEMMA CallStep == ProxyInv /\ [Next]_vars => CallInv'
<1> SUFFICES ASSUME ProxyInv, [Next]_vars PROVE CallInv'
  OBVIOUS
<1> USE ProxyAssumption DEF ProxyInv, TypeOK, CallInv, WantInv, Objects, Goto, Working
<1>1. CASE UNCHANGED vars
  BY <1>1 DEF vars
<1>2. ASSUME NEW r \in Requests, Ask(r) PROVE CallInv'
  BY <1>2 DEF Ask
<1>3. ASSUME NEW r \in Requests, Look(r) PROVE CallInv'
  BY <1>3 DEF Look
<1>4. ASSUME NEW r \in Requests, Join(r) PROVE CallInv'
  <2>1. CASE Called(wants[r])
    BY <1>4, <2>1 DEF Join, Called
  <2>2. CASE ~Called(wants[r])
    BY <1>4, <2>2 DEF Join, Called
  <2> QED BY <2>1, <2>2
<1>5. ASSUME NEW r \in Requests, AcquireSlot(r) PROVE CallInv'
  BY <1>5 DEF AcquireSlot
<1>6. ASSUME NEW r \in Requests, Fetch(r) PROVE CallInv'
  BY <1>6 DEF Fetch
<1>7. ASSUME NEW r \in Requests, Store(r) PROVE CallInv'
  BY <1>7 DEF Store
<1>8. ASSUME NEW r \in Requests, Deliver(r) PROVE CallInv'
  BY <1>8 DEF Deliver, Answered
<1>9. ASSUME NEW r \in Requests, Disconnect(r) PROVE CallInv'
  BY <1>9 DEF Disconnect
<1>10. ASSUME NEW s \in Segments, Expire(s) PROVE CallInv'
  BY <1>10 DEF Expire
<1> QED BY <1>1, <1>2, <1>3, <1>4, <1>5, <1>6, <1>7, <1>8, <1>9, <1>10 DEF Next, RequestStep

(* Requests keep the calls and themselves in step (ServeSegment, fetch).   *)
THEOREM Invariant == Spec => []ProxyInv
<1>1. ProxyInv /\ [Next]_vars => ProxyInv'
  BY ShapeStep, CallStep DEF ProxyInv
<1> QED BY InitInv, <1>1, PTL DEF Spec

(* Only segments are stored, whole or cut off at the limit, and every      *)
(* variable keeps its shape (ServeSegment, fetch).                         *)
THEOREM TypeCorrect == Spec => []TypeOK
<1>1. ProxyInv => TypeOK
  BY DEF ProxyInv
<1> QED BY Invariant, <1>1, PTL

(* Concurrent requests for a segment share one fetch (ServeSegment), for   *)
(* any number of them.                                                     *)
THEOREM OneFetch == Spec => []OneFetchPerSegment
<1>1. ProxyInv => OneFetchPerSegment
  BY DEF ProxyInv, CallInv, OneFetchPerSegment, Working
<1> QED BY Invariant, <1>1, PTL
=============================================================================
