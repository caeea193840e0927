---------------------------- MODULE SegmentProxy ----------------------------
(***************************************************************************)
(* The live HLS proxy (hls.go, memcache.go): a request for a segment is    *)
(* answered from the memory cache, or by one upstream fetch that all the   *)
(* requests for it at that time share (singleflight), run by the first of  *)
(* them under its own request context; a request for a manifest always     *)
(* fetches.  All fetches share the slots of hlsProxy.sem.                  *)
(***************************************************************************)
EXTENDS Integers, FiniteSets

CONSTANTS
  Segments, Manifests,   \* what can be asked for
  Large,                 \* those longer than maxManifestSize
  Slots,                 \* maxConcurrentSegFetch
  Capacity,              \* entries the memory cache holds
  Requests,              \* requests at a time (a bound)
  None                   \* no request, nothing asked for

ASSUME ProxyAssumption ==
  /\ Segments \cap Manifests = {} /\ Large \subseteq Segments \cup Manifests
  /\ Slots \in Nat \ {0} /\ Capacity \in Nat \ {0}
  /\ None \notin Requests \cup Segments \cup Manifests

VARIABLES
  cache,         \* the entries of the memory cache: what each body is
  leader,        \* singleflight's calls: per segment the request that runs it
  pc, wants,     \* per request: where it is, what it asks for
  body,          \* per request: what it has fetched, or was answered with
  gone           \* the requests whose client disconnected

vars == <<cache, leader, pc, wants, body, gone>>

Objects == Segments \cup Manifests
Bodies  == {"none", "whole", "truncated", "unavailable", "cancelled", "too large"}
Pcs     == {"idle", "look", "join", "shared", "slot", "fetch", "store", "deliver", "answered"}

Init ==
  /\ cache = [s \in Segments |-> "none"]
  /\ leader = [s \in Segments |-> None]
  /\ pc = [r \in Requests |-> "idle"] /\ wants = [r \in Requests |-> None]
  /\ body = [r \in Requests |-> "none"]
  /\ gone = {}

(* Variants of the definitions below that carry a plausible bug: each of   *)
(* the properties is violated when one of them takes its original's place. *)
BugNoSharing(s) == FALSE
BugLeaderOnly(r) == {r}

Goto(r, at) == pc' = [pc EXCEPT ![r] = at]

Ask(r) ==
  /\ pc[r] \in {"idle", "answered"}
  /\ \E o \in Objects : /\ wants' = [wants EXCEPT ![r] = o]
                        /\ Goto(r, IF o \in Segments THEN "look" ELSE "slot")
  /\ body' = [body EXCEPT ![r] = "none"]
  /\ gone' = gone \ {r}
  /\ UNCHANGED <<cache, leader>>

(* MemCache.Get.                                                           *)
Look(r) ==
  /\ pc[r] = "look"
  /\ \/ /\ cache[wants[r]] = "none" /\ Goto(r, "join") /\ UNCHANGED body
     \/ /\ cache[wants[r]] # "none"
        /\ body' = [body EXCEPT ![r] = cache[wants[r]]]
        /\ Goto(r, "answered")
  /\ UNCHANGED <<cache, leader, wants, gone>>

(* group.Do: join the call for this segment, or start it.                  *)
Called(s) == leader[s] # None

Join(r) ==
  /\ pc[r] = "join"
  /\ \/ Called(wants[r]) /\ Goto(r, "shared") /\ UNCHANGED leader
     \/ ~Called(wants[r]) /\ Goto(r, "slot") /\ leader' = [leader EXCEPT ![wants[r]] = r]
  /\ UNCHANGED <<cache, wants, body, gone>>

Holding(r) == pc[r] = "fetch"
SlotFree == Cardinality({r \in Requests : Holding(r)}) < Slots

(* fetch: under the context of the request that runs it.                   *)
AcquireSlot(r) ==
  /\ pc[r] = "slot"
  /\ \/ SlotFree /\ Goto(r, "fetch") /\ UNCHANGED body
     \/ r \in gone /\ Goto(r, "deliver") /\ body' = [body EXCEPT ![r] = "cancelled"]
  /\ UNCHANGED <<cache, leader, wants, gone>>

(* A body is read up to maxManifestSize and one byte; only ServeManifest   *)
(* looks at what that cuts off.                                            *)
Fetched(o) ==
  IF o \notin Large THEN "whole" ELSE IF o \in Segments THEN "truncated" ELSE "too large"

Fetch(r) ==
  /\ pc[r] = "fetch"
  /\ \/ body' = [body EXCEPT ![r] = Fetched(wants[r])]
        /\ Goto(r, IF wants[r] \in Segments THEN "store" ELSE "deliver")
     \/ body' = [body EXCEPT ![r] = "unavailable"] /\ Goto(r, "deliver")
     \/ r \in gone /\ body' = [body EXCEPT ![r] = "cancelled"] /\ Goto(r, "deliver")
  /\ UNCHANGED <<cache, leader, wants, gone>>

(* MemCache.Set, which may evict another entry.                            *)
Cached(c) == {s \in Segments : c[s] # "none"}

Store(r) ==
  /\ pc[r] = "store"
  /\ \E kept \in SUBSET Cached(cache) :
       /\ cache' = [s \in Segments |-> IF s = wants[r] THEN body[r]
                                       ELSE IF s \in kept THEN cache[s] ELSE "none"]
       /\ kept = Cached(cache) \/ Cardinality(Cached(cache')) = Capacity
       /\ Cardinality(Cached(cache')) <= Capacity
  /\ Goto(r, "deliver")
  /\ UNCHANGED <<leader, wants, body, gone>>

(* The call ends: everyone who shares it is answered alike.                *)
Answered(r) == {r} \cup {q \in Requests : pc[q] = "shared" /\ wants[q] = wants[r]}

Deliver(r) ==
  /\ pc[r] = "deliver"
  /\ LET to == IF wants[r] \in Segments THEN Answered(r) ELSE {r}
     IN  /\ pc'   = [q \in Requests |-> IF q \in to THEN "answered" ELSE pc[q]]
         /\ body' = [q \in Requests |-> IF q \in to THEN body[r] ELSE body[q]]
  /\ leader' = [s \in Segments |-> IF s = wants[r] THEN None ELSE leader[s]]
  /\ UNCHANGED <<cache, wants, gone>>

RequestStep(r) ==
  Look(r) \/ Join(r) \/ AcquireSlot(r) \/ Fetch(r) \/ Store(r) \/ Deliver(r)

Disconnect(r) ==
  /\ pc[r] \notin {"idle", "answered"} /\ r \notin gone
  /\ gone' = gone \cup {r}
  /\ UNCHANGED <<cache, leader, pc, wants, body>>

(* The entry's time is up.                                                 *)
Expire(s) ==
  /\ cache[s] # "none"
  /\ cache' = [cache EXCEPT ![s] = "none"]
  /\ UNCHANGED <<leader, pc, wants, body, gone>>

Next ==
  \/ \E r \in Requests : Ask(r) \/ RequestStep(r) \/ Disconnect(r)
  \/ \E s \in Segments : Expire(s)

Spec == Init /\ [][Next]_vars

(* Handlers run on, a fetch ends when the request that runs it is over,    *)
(* and a send on the channel of slots is not passed over for ever.  The    *)
(* upstream may stall for ever: only its headers are under a timeout.      *)
FairSpec ==
  /\ Spec
  /\ \A r \in Requests : /\ WF_vars((pc[r] = "fetch" => r \in gone) /\ RequestStep(r))
                         /\ SF_vars(AcquireSlot(r))

-----------------------------------------------------------------------------
(* The shape of every variable.                                            *)
TypeOK ==
  /\ cache \in [Segments -> {"none", "whole", "truncated"}]
  /\ leader \in [Segments -> Requests \cup {None}]
  /\ pc \in [Requests -> Pcs] /\ wants \in [Requests -> Objects \cup {None}]
  /\ body \in [Requests -> Bodies] /\ gone \subseteq Requests

(* Concurrent requests for a segment share one fetch (ServeSegment): a     *)
(* call ends before the next for the same segment can begin.               *)
OneFetchPerSegment ==
  \A q, r \in Requests :
    pc[q] \in {"slot", "fetch", "store"} /\ pc[r] \in {"slot", "fetch", "store"}
      /\ wants[q] = wants[r] /\ wants[q] \in Segments => q = r

(* A request that is never answered has an upstream to blame, which stalls *)
(* for ever a request whose client stays: the slots and the shared calls   *)
(* by themselves keep nobody waiting (fetch, ServeSegment).                *)
RequestsEnd ==
  \A r \in Requests :
    <>[](pc[r] \notin {"idle", "answered"}) => <>[](\E q \in Requests : Holding(q) /\ q \notin gone)

(* A request fails only because the "upstream segment [is] unavailable"    *)
(* (hls.go:255) or its own client left.  Not so: when the first client of  *)
(* a shared fetch leaves, everyone who shares it fails.                    *)
FailsForCause == \A r \in Requests : pc[r] = "answered" /\ body[r] = "cancelled" => r \in gone
=============================================================================
