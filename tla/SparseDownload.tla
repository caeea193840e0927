--------------------------- MODULE SparseDownload ---------------------------
(***************************************************************************)
(* One download job in sparse mode (jobs.go, sparse.go, serve.go), from    *)
(* the close of job.ready to the return of run:                            *)
(*                                                                         *)
(*   - the driver, runSparse and the end of run: it reserves the lowest    *)
(*     free range, fills it, and at the end closes the writer, publishes   *)
(*     or removes the temp file and marks the job done;                    *)
(*   - the fills: the driver's own, and the goroutines requestFillAt       *)
(*     starts for a reader, all running fillRange;                         *)
(*   - the readers, serveSparse: one live request each;                    *)
(*   - the wakers, the goroutines that broadcast when a context ends.      *)
(*                                                                         *)
(* A thread's step is what it does in one critical section of sf.mu, or    *)
(* one call outside it.  sf.cond is the set of threads asleep on it.       *)
(* Offsets are blocks: what a chunk, a read or a write holds of them is    *)
(* set by the constants.  The two interval sets are sets of blocks here    *)
(* (SparseFile checks the slices behind them).                             *)
(***************************************************************************)
EXTENDS Integers, FiniteSets

CONSTANTS
  Size,            \* blocks of the video; rangeable jobs have size > 0
  Chunk,           \* the most blocks of one fill (sf.chunk)
  MaxRead,         \* the most blocks one Read of the upstream body returns
  MaxFills,        \* capacity of the manager's fillSem
  Seeks,           \* requestFillAt goroutines alive at a time (a bound)
  Driver,          \* the goroutine of run
  Readers,         \* live requests (a bound)
  OtherFills,      \* the most slots the other jobs hold (a bound)
  RangeHonoured    \* whether the upstream answers a Range with that range

ASSUME SparseAssumption ==
  /\ Size \in Nat \ {0} /\ Chunk \in Nat \ {0}
  /\ MaxRead \in Nat \ {0} /\ MaxFills \in Nat \ {0} /\ OtherFills \in 0 .. MaxFills
  /\ Driver \notin Seeks /\ Driver \notin Readers
  /\ RangeHonoured \in BOOLEAN

Bytes == 0 .. Size - 1
Fills == {Driver} \cup Seeks

VARIABLES
  present, inflight,   \* SparseFile.present and .inflight
  closed, done,        \* SparseFile.closed and .done
  sleeping,            \* the threads in sf.cond.Wait
  fdOpen,              \* the writer's file descriptor is open
  disk,                \* what each block of the temp file holds
  tmp,                 \* where the file is: "tmp", "cached" or "removed"
  dpc,                 \* where the driver is
  cancelled,           \* fctx was cancelled (firstErr is set)
  ctxDone,             \* the job's context has ended
  verdict,             \* run's err: "none" yet, "ok" or "error"
  fpc, lo, hi, pos,    \* per fill: where it is, its range, its position
  got, shifted,        \* per fill: blocks just read; body starts at offset 0
  erring,              \* the fills whose fillRange is returning an error
  rpc, rpos, rlast,    \* per reader: where it is, its position, its last block
  rlim,                \* per reader: the end of the run it is sending
  gone,                \* the readers whose client disconnected
  armed,               \* the wakers still waiting on their context
  others               \* fillSem slots other jobs hold

fileVars   == <<closed, done, fdOpen, disk, tmp>>
setVars    == <<present, inflight>>
driverVars == <<dpc, cancelled, ctxDone, verdict>>
fillVars   == <<fpc, lo, hi, pos, got, shifted, erring>>
readerVars == <<rpc, rpos, rlast, rlim, gone>>
envVars    == <<armed, others>>
vars == <<setVars, fileVars, sleeping, driverVars, fillVars, readerVars, envVars>>

DriverPcs == {"check", "reserve", "wait", "asleep", "filling", "filled", "close",
              "closefd", "verdict", "publish", "finish", "cleanup", "return", "returned"}
FillPcs   == {"idle", "acquire", "open", "read", "check", "write", "mark", "free", "release"}
ReaderPcs == {"idle", "open", "request", "await", "limit", "send", "whole", "cut", "late"}

Init ==
  /\ present = {} /\ inflight = {} /\ sleeping = {}
  /\ closed = FALSE /\ done = FALSE /\ fdOpen = TRUE
  /\ disk = [b \in Bytes |-> "hole"] /\ tmp = "tmp"
  /\ dpc = "check" /\ cancelled = FALSE /\ ctxDone = FALSE /\ verdict = "none"
  /\ fpc = [t \in Fills |-> "idle"] /\ erring = {}
  /\ lo = [t \in Fills |-> 0] /\ hi = [t \in Fills |-> 0] /\ pos = [t \in Fills |-> 0]
  /\ got = [t \in Fills |-> 0] /\ shifted = [t \in Fills |-> FALSE]
  /\ rpc = [r \in Readers |-> "idle"] /\ rpos = [r \in Readers |-> 0]
  /\ rlast = [r \in Readers |-> 0] /\ rlim = [r \in Readers |-> 0] /\ gone = {}
  /\ armed = {Driver} /\ others = 0

(* Variants of the definitions below that carry a plausible bug: each of   *)
(* the properties is violated when one of them takes its original's place. *)
BugNoClamp(a, b) == a
BugNoBroadcast == UNCHANGED sleeping
BugIgnoresInflight(start, end) == ((start .. end - 1) \cap Bytes) \ present
BugLimitIsSize(off, e) == e = Size
BugIgnoresWriteError(t) == fpc' = [fpc EXCEPT ![t] = "mark"] /\ UNCHANGED <<erring, disk>>
BugNoCompleteCheck == ~cancelled
BugDoneFirst(r) == rpos[r] \in present /\ ~done
BugNoDriverWaker(x) == x \in gone

Lesser(a, b) == IF a <= b THEN a ELSE b
Broadcast == sleeping' = {}

(* The blocks of the window [start, end) a reserve may hand out, and the   *)
(* maximal runs of a set of blocks, as half-open ranges.                   *)
FreeIn(start, end) == ((start .. end - 1) \cap Bytes) \ (present \cup inflight)

Runs(S) ==
  {v \in S \X (1 .. Size) : /\ v[1] < v[2] /\ v[1] .. v[2] - 1 \subseteq S
                          /\ v[1] - 1 \notin S /\ v[2] \notin S}

(* e is the end of the present run that covers off, or off (runEnd).       *)
IsRunEnd(off, e) ==
  IF off \in present
  THEN off < e /\ off .. e - 1 \subseteq present /\ e \notin present
  ELSE e = off

-----------------------------------------------------------------------------
(* fillRange                                                               *)

Live(t) == fpc[t] # "idle"
Holding(t) == fpc[t] \in {"open", "read", "check", "write", "mark", "free"}
SlotFree == Cardinality({t \in Fills : Holding(t)}) + others < MaxFills

(* The driver fills under fctx, a seek under the job's own context.        *)
FillCtxDone(t) == ctxDone \/ (t = Driver /\ cancelled)

Goto(t, pc) == fpc' = [fpc EXCEPT ![t] = pc]
FillError(t, pc) == Goto(t, pc) /\ erring' = erring \cup {t}

(* The select on fillSem and ctx.Done: either case when both are ready.    *)
AcquireSlot(t) ==
  /\ fpc[t] = "acquire"
  /\ \/ SlotFree /\ Goto(t, "open") /\ UNCHANGED erring
     \/ FillCtxDone(t) /\ FillError(t, "release")
  /\ UNCHANGED <<setVars, fileVars, sleeping, driverVars, lo, hi, pos, got, shifted,
                 readerVars, envVars>>

(* httpFetchRange takes 206 and 200 alike: the body of a 200 starts at     *)
(* offset 0, whatever range was asked for.                                 *)
OpenUpstream(t) ==
  /\ fpc[t] = "open"
  /\ \/ /\ Goto(t, "read") /\ UNCHANGED erring
        /\ \E whole \in IF RangeHonoured THEN {FALSE} ELSE BOOLEAN :
             shifted' = [shifted EXCEPT ![t] = whole /\ lo[t] # 0]
     \/ FillError(t, "free") /\ UNCHANGED shifted
  /\ UNCHANGED <<setVars, fileVars, sleeping, driverVars, lo, hi, pos, got, readerVars, envVars>>

(* One turn of the read loop up to the write: some blocks, clamped to the  *)
(* range; or the end of the body, early or not; or an error.  A Read that  *)
(* returns data and a status together is two turns here, or for the last   *)
(* data of the range a MarkPresent that fails.                             *)
ReadBody(t) ==
  /\ fpc[t] = "read"
  /\ \/ FillCtxDone(t) /\ FillError(t, "free") /\ UNCHANGED got
     \/ /\ ~FillCtxDone(t)
        /\ \/ \E n \in 1 .. MaxRead : /\ got' = [got EXCEPT ![t] = Lesser(n, hi[t] - pos[t])]
                                      /\ Goto(t, "check") /\ UNCHANGED erring
           \/ Goto(t, "free") /\ UNCHANGED <<got, erring>>
           \/ FillError(t, "free") /\ UNCHANGED got
  /\ UNCHANGED <<setVars, fileVars, sleeping, driverVars, lo, hi, pos, shifted,
                 readerVars, envVars>>

(* writeAt, first critical section.                                        *)
CheckWriter(t) ==
  /\ fpc[t] = "check"
  /\ IF closed THEN FillError(t, "free") ELSE Goto(t, "write") /\ UNCHANGED erring
  /\ UNCHANGED <<setVars, fileVars, sleeping, driverVars, lo, hi, pos, got, shifted,
                 readerVars, envVars>>

(* writeAt, between its critical sections: the write to the file, which    *)
(* fails on a closed descriptor and may fail on an open one.               *)
WriteFails(t) == FillError(t, "free") /\ UNCHANGED disk

WriteDisk(t) ==
  /\ fpc[t] = "write"
  /\ \/ /\ fdOpen
        /\ disk' = [b \in Bytes |-> IF b \in pos[t] .. pos[t] + got[t] - 1
                                    THEN IF shifted[t] THEN "other" ELSE "video"
                                    ELSE disk[b]]
        /\ Goto(t, "mark") /\ UNCHANGED erring
     \/ WriteFails(t)
  /\ UNCHANGED <<setVars, closed, done, fdOpen, tmp, sleeping, driverVars,
                 lo, hi, pos, got, shifted, readerVars, envVars>>

(* writeAt, second critical section, and the loop test.  The last data of  *)
(* the range may have come with an error.                                  *)
MarkPresent(t) ==
  /\ fpc[t] = "mark"
  /\ present' = present \cup (pos[t] .. pos[t] + got[t] - 1)
  /\ Broadcast
  /\ pos' = [pos EXCEPT ![t] = @ + got[t]]
  /\ \/ Goto(t, IF pos[t] + got[t] < hi[t] THEN "read" ELSE "free") /\ UNCHANGED erring
     \/ pos[t] + got[t] = hi[t] /\ FillError(t, "free")
  /\ UNCHANGED <<inflight, fileVars, driverVars, lo, hi, got, shifted, readerVars, envVars>>

(* The deferred calls: the slot goes back, then the range.                 *)
FreeSlot(t) ==
  /\ fpc[t] = "free"
  /\ Goto(t, "release")
  /\ UNCHANGED <<setVars, fileVars, sleeping, driverVars, lo, hi, pos, got, shifted, erring,
                 readerVars, envVars>>

ReleaseInflight(t) ==
  /\ fpc[t] = "release"
  /\ inflight' = inflight \ (lo[t] .. hi[t] - 1)
  /\ Broadcast
  /\ Goto(t, "idle")
  /\ lo' = [lo EXCEPT ![t] = 0] /\ hi' = [hi EXCEPT ![t] = 0] /\ pos' = [pos EXCEPT ![t] = 0]
  /\ got' = [got EXCEPT ![t] = 0] /\ shifted' = [shifted EXCEPT ![t] = FALSE]
  /\ dpc' = IF t = Driver THEN "filled" ELSE dpc
  /\ erring' = IF t = Driver THEN erring ELSE erring \ {t}
  /\ UNCHANGED <<present, fileVars, cancelled, ctxDone, verdict, readerVars, envVars>>

FillStep(t) ==
  \/ AcquireSlot(t) \/ OpenUpstream(t) \/ ReadBody(t) \/ CheckWriter(t)
  \/ WriteDisk(t) \/ MarkPresent(t) \/ FreeSlot(t) \/ ReleaseInflight(t)

-----------------------------------------------------------------------------
(* runSparse, and the rest of run after it                                 *)

LoopTest ==
  /\ dpc = "check"
  /\ dpc' = IF ctxDone \/ cancelled \/ present = Bytes THEN "close" ELSE "reserve"
  /\ UNCHANGED <<setVars, fileVars, sleeping, cancelled, ctxDone, verdict,
                 fillVars, readerVars, envVars>>

(* reserveLowest: one range, from the lowest free block, to a chunk or to  *)
(* the end of the free run.                                                *)
ReserveLowest ==
  /\ dpc = "reserve"
  /\ LET free == FreeIn(0, Size)
     IN  \/ /\ free = {}
            /\ dpc' = "wait"
            /\ UNCHANGED <<inflight, fillVars>>
         \/ \E v \in Runs(free) :
              LET end == Lesser(v[1] + Chunk, v[2])
              IN  /\ \A b \in free : v[1] <= b
                  /\ inflight' = inflight \cup (v[1] .. end - 1)
                  /\ lo' = [lo EXCEPT ![Driver] = v[1]]
                  /\ pos' = [pos EXCEPT ![Driver] = v[1]]
                  /\ hi' = [hi EXCEPT ![Driver] = end]
                  /\ Goto(Driver, "acquire")
                  /\ dpc' = "filling"
                  /\ UNCHANGED <<got, shifted, erring>>
  /\ UNCHANGED <<present, fileVars, sleeping, cancelled, ctxDone, verdict, readerVars, envVars>>

(* waitProgress: the mutex was free since reserveLowest returned.          *)
WaitProgress ==
  /\ dpc = "wait"
  /\ IF ctxDone \/ cancelled \/ done
     THEN dpc' = "check" /\ UNCHANGED sleeping
     ELSE dpc' = "asleep" /\ sleeping' = sleeping \cup {Driver}
  /\ UNCHANGED <<setVars, fileVars, cancelled, ctxDone, verdict, fillVars, readerVars, envVars>>

WaitReturns ==
  /\ dpc = "asleep" /\ Driver \notin sleeping
  /\ dpc' = "check"
  /\ UNCHANGED <<setVars, fileVars, sleeping, cancelled, ctxDone, verdict,
                 fillVars, readerVars, envVars>>

(* fillRange returned: an error cancels fctx and leaves the loop.  (The    *)
(* driver's fill never returns context.Canceled: nobody else cancels.)     *)
FillReturned ==
  /\ dpc = "filled"
  /\ dpc' = IF Driver \in erring THEN "close" ELSE "check"
  /\ cancelled' = (cancelled \/ Driver \in erring)
  /\ erring' = erring \ {Driver}
  /\ UNCHANGED <<setVars, fileVars, sleeping, ctxDone, verdict, fpc, lo, hi, pos, got, shifted,
                 readerVars, envVars>>

(* closeWriter: the flag under the mutex, the descriptor after it.         *)
CloseWriter ==
  /\ dpc = "close"
  /\ closed' = TRUE /\ Broadcast
  /\ dpc' = "closefd"
  /\ UNCHANGED <<setVars, done, fdOpen, disk, tmp, cancelled, ctxDone, verdict,
                 fillVars, readerVars, envVars>>

CloseDescriptor ==
  /\ dpc = "closefd"
  /\ fdOpen' = FALSE
  /\ dpc' = "verdict"
  /\ UNCHANGED <<setVars, closed, done, disk, tmp, sleeping, cancelled, ctxDone, verdict,
                 fillVars, readerVars, envVars>>

(* What runSparse returns.                                                 *)
Succeeded == ~cancelled /\ present = Bytes

Verdict ==
  /\ dpc = "verdict"
  /\ IF Succeeded
     THEN verdict' = "ok" /\ dpc' = "publish"
     ELSE verdict' = "error" /\ dpc' = "finish"
  /\ UNCHANGED <<setVars, fileVars, sleeping, cancelled, ctxDone,
                 fillVars, readerVars, envVars>>

(* cache.finalize: the rename, which may fail.                             *)
Publish ==
  /\ dpc = "publish"
  /\ \/ tmp' = "cached" /\ UNCHANGED verdict
     \/ verdict' = "error" /\ UNCHANGED tmp
  /\ dpc' = "finish"
  /\ UNCHANGED <<setVars, closed, done, fdOpen, disk, sleeping, cancelled, ctxDone,
                 fillVars, readerVars, envVars>>

(* finishJob: markDone, and after a failure the removal of the temp file,  *)
(* whose own error is ignored.                                             *)
MarkDone ==
  /\ dpc = "finish"
  /\ done' = TRUE /\ Broadcast
  /\ dpc' = IF verdict = "error" THEN "cleanup" ELSE "return"
  /\ UNCHANGED <<setVars, closed, fdOpen, disk, tmp, cancelled, ctxDone, verdict,
                 fillVars, readerVars, envVars>>

RemoveTemp ==
  /\ dpc = "cleanup"
  /\ tmp' \in {"tmp", "removed"}
  /\ dpc' = "return"
  /\ UNCHANGED <<setVars, closed, done, fdOpen, disk, sleeping, cancelled, ctxDone, verdict,
                 fillVars, readerVars, envVars>>

(* run's deferred cancel.                                                  *)
Return ==
  /\ dpc = "return"
  /\ ctxDone' = TRUE
  /\ dpc' = "returned"
  /\ UNCHANGED <<setVars, fileVars, sleeping, cancelled, verdict, fillVars, readerVars, envVars>>

DriverStep ==
  \/ LoopTest \/ ReserveLowest \/ WaitProgress \/ WaitReturns \/ FillReturned
  \/ CloseWriter \/ CloseDescriptor \/ Verdict \/ Publish \/ MarkDone \/ RemoveTemp \/ Return

(* downloadTimeout.                                                        *)
Timeout ==
  /\ ~ctxDone /\ dpc # "returned"
  /\ ctxDone' = TRUE
  /\ UNCHANGED <<setVars, fileVars, sleeping, dpc, cancelled, verdict,
                 fillVars, readerVars, envVars>>

-----------------------------------------------------------------------------
(* serveSparse                                                             *)

RGoto(r, pc) == rpc' = [rpc EXCEPT ![r] = pc]

(* The range is satisfiable and the headers are written.                   *)
StartReader(r) ==
  /\ rpc[r] = "idle"
  /\ \E first, last \in Bytes :
       /\ first <= last
       /\ rpos' = [rpos EXCEPT ![r] = first] /\ rlast' = [rlast EXCEPT ![r] = last]
  /\ RGoto(r, "open")
  /\ UNCHANGED <<setVars, fileVars, sleeping, driverVars, fillVars, rlim, gone, envVars>>

(* os.Open of the temp file, gone once the job has renamed or removed it.  *)
OpenTemp(r) ==
  /\ rpc[r] = "open"
  /\ IF tmp = "tmp"
     THEN RGoto(r, "request") /\ armed' = armed \cup {r}
     ELSE RGoto(r, "late") /\ UNCHANGED armed
  /\ UNCHANGED <<setVars, fileVars, sleeping, driverVars, fillVars,
                 rpos, rlast, rlim, gone, others>>

(* requestFillAt(pos): reserve the window of one chunk and start a fill    *)
(* for each free run of it.  A run is never longer than the window, so it  *)
(* is one piece.                                                           *)
RequestFill(r) ==
  /\ rpc[r] = "request"
  /\ LET free == FreeIn(rpos[r], rpos[r] + Chunk)
     IN  \E started \in SUBSET {t \in Seeks : ~Live(t)} : \E run \in [started -> Runs(free)] :
           /\ \A t, u \in started : run[t] = run[u] => t = u
           /\ \A v \in Runs(free) : \E t \in started : run[t] = v
           /\ inflight' = inflight \cup free
           /\ lo'  = [t \in Fills |-> IF t \in started THEN run[t][1] ELSE lo[t]]
           /\ pos' = [t \in Fills |-> IF t \in started THEN run[t][1] ELSE pos[t]]
           /\ hi'  = [t \in Fills |-> IF t \in started THEN run[t][2] ELSE hi[t]]
           /\ fpc' = [t \in Fills |-> IF t \in started THEN "acquire" ELSE fpc[t]]
  /\ RGoto(r, "await")
  /\ UNCHANGED <<present, fileVars, sleeping, driverVars, got, shifted, erring,
                 rpos, rlast, rlim, gone, envVars>>

(* waitByte: presence is looked at before the context and the job's end.   *)
ByteReady(r) == rpos[r] \in present

AwaitByte(r) ==
  /\ rpc[r] = "await" /\ r \notin sleeping
  /\ \/ ByteReady(r) /\ RGoto(r, "limit") /\ UNCHANGED sleeping
     \/ ~ByteReady(r) /\ (r \in gone \/ done) /\ RGoto(r, "cut") /\ UNCHANGED sleeping
     \/ /\ ~ByteReady(r) /\ r \notin gone /\ ~done
        /\ sleeping' = sleeping \cup {r} /\ UNCHANGED rpc
  /\ UNCHANGED <<setVars, fileVars, driverVars, fillVars, rpos, rlast, rlim, gone, envVars>>

(* How far the present run allows it to read.                              *)
FindLimit(r) ==
  /\ rpc[r] = "limit"
  /\ \E e \in 0 .. Size : /\ IsRunEnd(rpos[r], e)
                         /\ rlim' = [rlim EXCEPT ![r] = Lesser(e, rlast[r] + 1)]
  /\ RGoto(r, "send")
  /\ UNCHANGED <<setVars, fileVars, sleeping, driverVars, fillVars, rpos, rlast, gone, envVars>>

(* One ReadAt and the Write of what it read, and the two loop tests.       *)
SendBlock(r) ==
  /\ rpc[r] = "send"
  /\ rpos' = [rpos EXCEPT ![r] = @ + 1]
  /\ RGoto(r, IF rpos[r] + 1 < rlim[r] THEN "send"
              ELSE IF rpos[r] + 1 <= rlast[r] THEN "request" ELSE "whole")
  /\ rlim' = IF rpos[r] + 1 < rlim[r] THEN rlim ELSE [rlim EXCEPT ![r] = 0]
  /\ UNCHANGED <<setVars, fileVars, sleeping, driverVars, fillVars, rlast, gone, envVars>>

(* A failing ReadAt sends the reader round the outer loop; a failing Write *)
(* ends it.                                                                *)
SendFails(r) ==
  /\ rpc[r] = "send"
  /\ \/ RGoto(r, "request")
     \/ r \in gone /\ RGoto(r, "cut")
  /\ rlim' = [rlim EXCEPT ![r] = 0]
  /\ UNCHANGED <<setVars, fileVars, sleeping, driverVars, fillVars, rpos, rlast, gone, envVars>>

ReaderStep(r) ==
  OpenTemp(r) \/ RequestFill(r) \/ AwaitByte(r) \/ FindLimit(r) \/ SendBlock(r) \/ SendFails(r)

Ended(r) == rpc[r] \in {"whole", "cut", "late"}

Disconnect(r) ==
  /\ rpc[r] # "idle" /\ ~Ended(r) /\ r \notin gone
  /\ gone' = gone \cup {r}
  /\ UNCHANGED <<setVars, fileVars, sleeping, driverVars, fillVars,
                 rpc, rpos, rlast, rlim, envVars>>

-----------------------------------------------------------------------------
(* The wakers, and the fills of other jobs                                 *)

WakerCtxDone(x) == IF x = Driver THEN ctxDone \/ cancelled ELSE x \in gone
WakerStopped(x) ==
  IF x = Driver THEN dpc \in {"publish", "finish", "cleanup", "return", "returned"} ELSE Ended(x)

(* A select on the context and on the stop channel its owner closes when   *)
(* it returns.                                                             *)
WakerFires(x) ==
  /\ x \in armed /\ WakerCtxDone(x)
  /\ Broadcast
  /\ armed' = armed \ {x}
  /\ UNCHANGED <<setVars, fileVars, driverVars, fillVars, readerVars, others>>

WakerStops(x) ==
  /\ x \in armed /\ WakerStopped(x)
  /\ armed' = armed \ {x}
  /\ UNCHANGED <<setVars, fileVars, sleeping, driverVars, fillVars, readerVars, others>>

WakerStep(x) == WakerFires(x) \/ WakerStops(x)

(* fillSem belongs to the manager: every job's fills draw on it.           *)
OtherJobs ==
  /\ \/ SlotFree /\ others < OtherFills /\ others' = others + 1
     \/ others > 0 /\ others' = others - 1
  /\ UNCHANGED <<setVars, fileVars, sleeping, driverVars, fillVars, readerVars, armed>>

(* The only states with nothing left to do.                                *)
AllOver ==
  /\ dpc = "returned" /\ \A t \in Fills : ~Live(t)
  /\ \A r \in Readers : Ended(r)
  /\ armed = {}
  /\ UNCHANGED vars

Next ==
  \/ DriverStep \/ Timeout \/ OtherJobs \/ AllOver
  \/ \E t \in Fills : FillStep(t)
  \/ \E r \in Readers : StartReader(r) \/ ReaderStep(r) \/ Disconnect(r)
  \/ \E x \in {Driver} \cup Readers : WakerStep(x)

Spec == Init /\ [][Next]_vars

(* Goroutines keep running, a context ends what waits on the upstream, the *)
(* timeout does come, and a reader's file and client do not fail or stall  *)
(* for ever.  The upstream may stall for ever, clients need not come and   *)
(* the other jobs need not give a slot back.                               *)
FairSpec ==
  /\ Spec
  /\ WF_vars(DriverStep) /\ WF_vars(Timeout)
  /\ \A t \in Fills : WF_vars((fpc[t] \in {"open", "read"} => FillCtxDone(t)) /\ FillStep(t))
  /\ \A r \in Readers : WF_vars(ReaderStep(r)) /\ SF_vars(SendBlock(r))
  /\ \A x \in {Driver} \cup Readers : WF_vars(WakerStep(x))

-----------------------------------------------------------------------------
(* The shape of every variable.                                            *)
FileTypeOK ==
  /\ present \subseteq Bytes /\ inflight \subseteq Bytes
  /\ closed \in BOOLEAN /\ done \in BOOLEAN /\ fdOpen \in BOOLEAN
  /\ disk \in [Bytes -> {"hole", "video", "other"}]
  /\ tmp \in {"tmp", "cached", "removed"}

DriverTypeOK ==
  /\ dpc \in DriverPcs /\ cancelled \in BOOLEAN /\ ctxDone \in BOOLEAN
  /\ verdict \in {"none", "ok", "error"}

FillTypeOK ==
  /\ fpc \in [Fills -> FillPcs] /\ erring \subseteq Fills
  /\ lo \in [Fills -> 0 .. Size] /\ hi \in [Fills -> 0 .. Size]
  /\ pos \in [Fills -> 0 .. Size] /\ got \in [Fills -> 0 .. Size]
  /\ shifted \in [Fills -> BOOLEAN]

ReaderTypeOK ==
  /\ rpc \in [Readers -> ReaderPcs] /\ rpos \in [Readers -> 0 .. Size]
  /\ rlast \in [Readers -> Bytes] /\ rlim \in [Readers -> 0 .. Size]
  /\ gone \subseteq Readers

TypeOK ==
  /\ FileTypeOK /\ DriverTypeOK /\ FillTypeOK /\ ReaderTypeOK
  /\ sleeping \subseteq {Driver} \cup Readers /\ armed \subseteq {Driver} \cup Readers
  /\ others \in 0 .. OtherFills

Reserved(t) == lo[t] .. hi[t] - 1

(* What a live fill has reserved is in flight until it releases it, and no *)
(* block is reserved by two fills: the lowest-gap reservation of the       *)
(* driver and the windows the readers ask for never overlap.               *)
ReservationsDisjoint ==
  /\ \A t \in Fills : Live(t) => Reserved(t) \subseteq inflight
  /\ \A t, u \in Fills : t # u /\ Live(t) /\ Live(u) => Reserved(t) \cap Reserved(u) = {}

(* A fill has still to write only blocks that are absent: no block of the  *)
(* video is fetched into the file a second time, whatever is retried.      *)
NothingFetchedTwice ==
  \A t \in Fills : Live(t) => (pos[t] .. hi[t] - 1) \cap present = {}

(* Together: no block is fetched twice, not by two fills at once and not   *)
(* one after the other (reserve, reserveLowest, fillRange).                *)
FetchedOnce == ReservationsDisjoint /\ NothingFetchedTwice

(* A block is marked present only once the file holds it, so what a reader *)
(* sends is video, never the hole of a sparse file (writeAt, serveSparse). *)
PresentIsOnDisk == \A b \in present : disk[b] = "video"

(* A file in the cache holds the whole video (runSparse, run).             *)
CachedIsWhole == tmp = "cached" => \A b \in Bytes : disk[b] = "video"

(* Nobody sleeps through what it waits for: a sleeping reader's block is   *)
(* absent, the job is not over, and if its client has left, its waker has  *)
(* still to broadcast.                                                     *)
SleepersHaveReason ==
  \A r \in Readers \cap sleeping :
    rpos[r] \notin present /\ ~done /\ (r \in gone => r \in armed)

(* A reader that opened the file is cut short only when its client left or *)
(* the download failed: a download that succeeds under it serves it whole. *)
CutOnlyForCause ==
  \A r \in Readers : rpc[r] = "cut" => r \in gone \/ verdict = "error"

(* The job ends, and every live request does.                              *)
JobEnds == <>(dpc = "returned")
ReadersEnd == \A r \in Readers : rpc[r] = "open" ~> Ended(r)

(* The driver sleeps only while a fetch is in flight to wake it: the       *)
(* purpose waitProgress states ("blocks until the next state change ... so *)
(* a driver loop can re-evaluate", sparse.go:308).  Not so: the last       *)
(* release may fall between reserveLowest and waitProgress.                *)
DriverSleepsOnFetch ==
  Driver \in sleeping => inflight # {} \/ (Driver \in armed /\ WakerCtxDone(Driver))

(* The job as a Download.                                                  *)
DState(r) ==
  CASE rpc[r] = "idle" -> "idle"
    [] rpc[r] = "open" -> "asked"
    [] rpc[r] \in {"request", "await", "limit", "send"} -> "reading"
    [] OTHER -> rpc[r]

Outcome ==
  IF tmp = "cached" THEN "cached" ELSE IF verdict = "error" THEN "failed" ELSE "running"

ReaderView(r) == [state |-> DState(r), next |-> rpos[r], last |-> rlast[r]]

D == INSTANCE Download WITH have <- present, outcome <- Outcome,
                            reader <- [r \in Readers |-> ReaderView(r)]

(* Sparse mode is a Download: every interleaving of driver, fills, readers *)
(* and wakers is one of its behaviours.                                    *)
IsDownload == D!DSpec
=============================================================================
