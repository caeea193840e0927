------------------------ MODULE SparseDownloadProofs ------------------------
(***************************************************************************)
(* Proofs about SparseDownload, for every size, chunk, number of slots and *)
(* set of readers.                                                         *)
(***************************************************************************)
EXTENDS SparseDownload, TLAPS

-----------------------------------------------------------------------------
(* Arithmetic and sets                                                     *)

(* Lesser is the minimum.                                                  *)
LEMMA LesserFacts ==
  ASSUME NEW a \in Int, NEW b \in Int
  PROVE  /\ Lesser(a, b) \in Int /\ Lesser(a, b) <= a /\ Lesser(a, b) <= b
         /\ Lesser(a, b) = a \/ Lesser(a, b) = b
BY DEF Lesser

(* A maximal run of a set of blocks is a non-empty range of that set.      *)
LEMMA RunIsRange ==
  ASSUME NEW S \in SUBSET Bytes, NEW v \in Runs(S)
  PROVE  /\ v[1] \in Bytes /\ v[2] \in 1 .. Size /\ v[1] < v[2]
         /\ v[1] .. v[2] - 1 \subseteq S
         /\ v[1] - 1 \notin S /\ v[2] \notin S
<1>1. v \in S \X (1 .. Size)
  BY DEF Runs
<1>2. v[1] \in S /\ v[2] \in 1 .. Size
  BY <1>1
<1> QED BY <1>1, <1>2 DEF Runs

(* What a reserve may hand out are blocks of the file.                     *)
LEMMA FreeInBytes ==
  ASSUME NEW a, NEW b
  PROVE  FreeIn(a, b) \in SUBSET Bytes
BY DEF FreeIn

(* Two different maximal runs have no block in common.                     *)
LEMMA RunsDisjoint ==
  ASSUME NEW S \in SUBSET Bytes, NEW v \in Runs(S), NEW w \in Runs(S), v # w
  PROVE  (v[1] .. v[2] - 1) \cap (w[1] .. w[2] - 1) = {}
<1>1. /\ v[1] \in Int /\ v[2] \in Int /\ v[1] .. v[2] - 1 \subseteq S
      /\ v[1] - 1 \notin S /\ v[2] \notin S /\ v[1] < v[2]
  BY RunIsRange, SparseAssumption DEF Bytes
<1>2. /\ w[1] \in Int /\ w[2] \in Int /\ w[1] .. w[2] - 1 \subseteq S
      /\ w[1] - 1 \notin S /\ w[2] \notin S /\ w[1] < w[2]
  BY RunIsRange, SparseAssumption DEF Bytes
<1>3. SUFFICES ASSUME NEW b \in Int, v[1] <= b, b < v[2], w[1] <= b, b < w[2]
               PROVE  FALSE
  BY <1>1, <1>2
<1>4. v[1] = w[1] /\ v[2] = w[2]
  <2>1. ~(v[1] < w[1])
    BY <1>1, <1>2, <1>3
  <2>2. ~(w[1] < v[1])
    BY <1>1, <1>2, <1>3
  <2>3. ~(v[2] < w[2])
    BY <1>1, <1>2, <1>3
  <2>4. ~(w[2] < v[2])
    BY <1>1, <1>2, <1>3
  <2> QED BY <1>1, <1>2, <2>1, <2>2, <2>3, <2>4
<1>5. v = <<v[1], v[2]>> /\ w = <<w[1], w[2]>>
  BY DEF Runs
<1> QED BY <1>4, <1>5

(* What reserveLowest cuts off the lowest free run is a non-empty range.   *)
LEMMA LowestPiece ==
  ASSUME NEW v \in Runs(FreeIn(0, Size))
  PROVE  /\ v[1] \in 0 .. Size /\ v[1] < Lesser(v[1] + Chunk, v[2])
         /\ Lesser(v[1] + Chunk, v[2]) \in 0 .. Size
         /\ v[1] .. Lesser(v[1] + Chunk, v[2]) - 1 \subseteq FreeIn(0, Size)
<1>1. /\ v[1] \in Bytes /\ v[2] \in 1 .. Size /\ v[1] < v[2]
      /\ v[1] .. v[2] - 1 \subseteq FreeIn(0, Size)
  BY RunIsRange, FreeInBytes
<1> QED BY <1>1, SparseAssumption DEF Lesser, Bytes

(* The free runs of a reader's window, and what requestFillAt does with    *)
(* them: each goes to an idle goroutine of its own.                        *)
Window(r) == Runs(FreeIn(rpos[r], rpos[r] + Chunk))

Starts(r, started, run) ==
  /\ \A t \in started : ~Live(t)
  /\ \A t, u \in started : run[t] = run[u] => t = u
  /\ \A v \in Window(r) : \E t \in started : run[t] = v
  /\ inflight' = inflight \cup FreeIn(rpos[r], rpos[r] + Chunk)
  /\ lo'  = [t \in Fills |-> IF t \in started THEN run[t][1] ELSE lo[t]]
  /\ pos' = [t \in Fills |-> IF t \in started THEN run[t][1] ELSE pos[t]]
  /\ hi'  = [t \in Fills |-> IF t \in started THEN run[t][2] ELSE hi[t]]
  /\ fpc' = [t \in Fills |-> IF t \in started THEN "acquire" ELSE fpc[t]]

(* A request starts fills for some of the free runs of its window, each    *)
(* with a run of its own.                                                  *)
LEMMA RequestStarts ==
  ASSUME NEW r \in Readers, RequestFill(r)
  PROVE  \E started \in SUBSET Seeks : \E run \in [started -> Window(r)] : Starts(r, started, run)
<1>1. PICK started \in SUBSET {t \in Seeks : ~Live(t)} :
        \E run \in [started -> Window(r)] : Starts(r, started, run)
  BY DEF RequestFill, Window, Starts
<1> QED BY <1>1

-----------------------------------------------------------------------------
(* Which steps touch which variables                                       *)

(* Only the steps of the fills and what starts or collects one move fills. *)
LEMMA FillFrame ==
  [Next]_vars => \/ UNCHANGED fillVars
                 \/ \E t \in Fills : FillStep(t)
                 \/ ReserveLowest \/ FillReturned
                 \/ \E r \in Readers : RequestFill(r)
BY DEF Next, vars, DriverStep, ReaderStep, WakerStep, LoopTest, WaitProgress, WaitReturns,
       CloseWriter, CloseDescriptor, Verdict, Publish, MarkDone, RemoveTemp, Return, Timeout,
       StartReader, OpenTemp, AwaitByte, FindLimit, SendBlock, SendFails, Disconnect,
       WakerFires, WakerStops, OtherJobs, AllOver

(* Only readers move readers.                                              *)
LEMMA ReaderFrame ==
  [Next]_vars => \/ UNCHANGED readerVars
                 \/ \E r \in Readers : StartReader(r) \/ ReaderStep(r) \/ Disconnect(r)
BY DEF Next, vars, DriverStep, FillStep, WakerStep, LoopTest, ReserveLowest, WaitProgress,
       WaitReturns, FillReturned, CloseWriter, CloseDescriptor, Verdict, Publish, MarkDone,
       RemoveTemp, Return, Timeout, AcquireSlot, OpenUpstream, ReadBody, CheckWriter, WriteDisk,
       MarkPresent, FreeSlot, ReleaseInflight, WakerFires, WakerStops, OtherJobs, AllOver

(* Which steps can touch the file or the two interval sets.                *)
LEMMA FileFrame ==
  [Next]_vars => \/ UNCHANGED <<setVars, fileVars>>
                 \/ \E t \in Fills : WriteDisk(t) \/ MarkPresent(t) \/ ReleaseInflight(t)
                 \/ ReserveLowest \/ \E r \in Readers : RequestFill(r)
                 \/ CloseWriter \/ CloseDescriptor \/ Publish \/ MarkDone \/ RemoveTemp
BY DEF Next, vars, DriverStep, FillStep, ReaderStep, WakerStep, LoopTest, WaitProgress,
       WaitReturns, FillReturned, Verdict, Return, Timeout, AcquireSlot, OpenUpstream, ReadBody,
       CheckWriter, FreeSlot, StartReader, OpenTemp, AwaitByte, FindLimit, SendBlock, SendFails,
       Disconnect, WakerFires, WakerStops, OtherJobs, AllOver

(* Nothing that is present is forgotten.                                   *)
LEMMA PresentGrows == [Next]_vars => present \subseteq present'
BY FileFrame DEF setVars, fileVars, WriteDisk, MarkPresent, ReleaseInflight, ReserveLowest,
                 RequestFill, CloseWriter, CloseDescriptor, Publish, MarkDone, RemoveTemp

(* Who goes to sleep; every other step wakes all sleepers or none.         *)
LEMMA SleepFrame ==
  [Next]_vars => \/ sleeping' = sleeping \/ sleeping' = {}
                 \/ WaitProgress \/ \E r \in Readers : AwaitByte(r)
BY DEF Next, vars, DriverStep, FillStep, ReaderStep, WakerStep, Broadcast, LoopTest,
       ReserveLowest, WaitReturns, FillReturned, CloseWriter, CloseDescriptor, Verdict, Publish,
       MarkDone, RemoveTemp, Return, Timeout, AcquireSlot, OpenUpstream, ReadBody, CheckWriter,
       WriteDisk, MarkPresent, FreeSlot, ReleaseInflight, StartReader, OpenTemp, RequestFill,
       FindLimit, SendBlock, SendFails, Disconnect, WakerFires, WakerStops, OtherJobs, AllOver

(* Only an attaching request arms a waker, and only wakers disarm one.     *)
LEMMA EnvFrame ==
  [Next]_vars => \/ UNCHANGED envVars \/ OtherJobs
                 \/ \E x \in {Driver} \cup Readers : WakerStep(x)
                 \/ \E r \in Readers : OpenTemp(r)
BY DEF Next, vars, DriverStep, FillStep, ReaderStep, LoopTest, ReserveLowest, WaitProgress,
       WaitReturns, FillReturned, CloseWriter, CloseDescriptor, Verdict, Publish, MarkDone,
       RemoveTemp, Return, Timeout, AcquireSlot, OpenUpstream, ReadBody, CheckWriter, WriteDisk,
       MarkPresent, FreeSlot, ReleaseInflight, StartReader, RequestFill, AwaitByte, FindLimit,
       SendBlock, SendFails, Disconnect, AllOver

(* Only the driver, the timeout and the end of the driver's fill move the  *)
(* driver.                                                                 *)
LEMMA DriverFrame ==
  [Next]_vars => \/ UNCHANGED driverVars
                 \/ \E t \in Fills : ReleaseInflight(t)
                 \/ DriverStep \/ Timeout
BY DEF Next, vars, FillStep, ReaderStep, WakerStep, AcquireSlot, OpenUpstream, ReadBody,
       CheckWriter, WriteDisk, MarkPresent, FreeSlot, StartReader, OpenTemp, RequestFill,
       AwaitByte, FindLimit, SendBlock, SendFails, Disconnect, WakerFires, WakerStops,
       OtherJobs, AllOver

-----------------------------------------------------------------------------
(* Type correctness                                                        *)

(* A fill's position stays in its range, and so does what it writes.       *)
FillShape ==
  \A t \in Fills :
    /\ lo[t] <= pos[t] /\ pos[t] <= hi[t]
    /\ fpc[t] \in {"check", "write", "mark"} => pos[t] + got[t] <= hi[t]

(* A reader's position stays in its range; what it is about to send is     *)
(* present, up to the limit it found.                                      *)
ReaderShape ==
  \A r \in Readers :
    /\ rpc[r] \in {"open", "request", "await", "limit", "send"} => rpos[r] <= rlast[r]
    /\ rpc[r] = "limit" => rpos[r] \in present
    /\ rpc[r] = "send" => /\ rpos[r] < rlim[r] /\ rlim[r] <= rlast[r] + 1
                          /\ rpos[r] .. rlim[r] - 1 \subseteq present

FillInv == FillTypeOK /\ FillShape
ReaderInv == ReaderTypeOK /\ ReaderShape
TypeInv == TypeOK /\ FillShape /\ ReaderShape

(* Every step keeps a fill inside its range.                               *)
LEMMA FillInvStep == FillInv /\ [Next]_vars => FillInv'
<1> USE SparseAssumption DEF FillInv
<1>1. SUFFICES ASSUME FillTypeOK, FillShape, [Next]_vars PROVE FillTypeOK' /\ FillShape'
  OBVIOUS
<1>2. CASE UNCHANGED fillVars
  BY <1>1, <1>2 DEF fillVars, FillTypeOK, FillShape
<1>3. ASSUME NEW t \in Fills, AcquireSlot(t) PROVE FillTypeOK' /\ FillShape'
  <2>1. FillTypeOK'
    BY <1>1, <1>3 DEF AcquireSlot, Goto, FillError, FillTypeOK, FillPcs
  <2>2. FillShape'
    BY <1>1, <1>3 DEF AcquireSlot, Goto, FillError, FillTypeOK, FillShape
  <2> QED BY <2>1, <2>2
<1>4. ASSUME NEW t \in Fills, OpenUpstream(t) PROVE FillTypeOK' /\ FillShape'
  <2>1. FillTypeOK'
    BY <1>1, <1>4 DEF OpenUpstream, Goto, FillError, FillTypeOK, FillPcs
  <2>2. FillShape'
    BY <1>1, <1>4 DEF OpenUpstream, Goto, FillError, FillTypeOK, FillShape
  <2> QED BY <2>1, <2>2
<1>5. ASSUME NEW t \in Fills, ReadBody(t) PROVE FillTypeOK' /\ FillShape'
  <2>1. CASE Goto(t, "free") /\ UNCHANGED got /\ erring' \subseteq erring \cup {t}
    BY <1>1, <1>5, <2>1 DEF ReadBody, Goto, FillTypeOK, FillPcs, FillShape
  <2>2. ASSUME NEW n \in 1 .. MaxRead, got' = [got EXCEPT ![t] = Lesser(n, hi[t] - pos[t])],
               Goto(t, "check"), UNCHANGED erring
        PROVE  FillTypeOK' /\ FillShape'
    <3>1. /\ lo[t] \in 0 .. Size /\ hi[t] \in 0 .. Size /\ pos[t] \in 0 .. Size
          /\ lo[t] <= pos[t] /\ pos[t] <= hi[t]
      BY <1>1 DEF FillTypeOK, FillShape
    <3>2. Lesser(n, hi[t] - pos[t]) \in 0 .. Size /\ Lesser(n, hi[t] - pos[t]) <= hi[t] - pos[t]
      BY <3>1 DEF Lesser
    <3>3. UNCHANGED <<lo, hi, pos, shifted>>
      BY <1>5 DEF ReadBody
    <3>4. FillTypeOK'
      BY <1>1, <2>2, <3>2, <3>3 DEF FillTypeOK, FillPcs, Goto
    <3>5. FillShape'
      BY <1>1, <2>2, <3>1, <3>2, <3>3 DEF FillTypeOK, FillShape, Goto
    <3> QED BY <3>4, <3>5
  <2> QED BY <1>5, <2>1, <2>2 DEF ReadBody, FillError
<1>6. ASSUME NEW t \in Fills, CheckWriter(t) PROVE FillTypeOK' /\ FillShape'
  <2>1. FillTypeOK'
    BY <1>1, <1>6 DEF CheckWriter, Goto, FillError, FillTypeOK, FillPcs
  <2>2. FillShape'
    BY <1>1, <1>6 DEF CheckWriter, Goto, FillError, FillTypeOK, FillShape
  <2> QED BY <2>1, <2>2
<1>7. ASSUME NEW t \in Fills, WriteDisk(t) PROVE FillTypeOK' /\ FillShape'
  <2>1. FillTypeOK'
    BY <1>1, <1>7 DEF WriteDisk, Goto, FillError, WriteFails, FillTypeOK, FillPcs
  <2>2. FillShape'
    BY <1>1, <1>7 DEF WriteDisk, Goto, FillError, WriteFails, FillTypeOK, FillShape
  <2> QED BY <2>1, <2>2
<1>8. ASSUME NEW t \in Fills, MarkPresent(t) PROVE FillTypeOK' /\ FillShape'
  <2>1. FillTypeOK'
    BY <1>1, <1>8 DEF MarkPresent, Goto, FillError, FillTypeOK, FillPcs, FillShape
  <2>2. FillShape'
    BY <1>1, <1>8 DEF MarkPresent, Goto, FillError, FillTypeOK, FillShape
  <2> QED BY <2>1, <2>2
<1>9. ASSUME NEW t \in Fills, FreeSlot(t) PROVE FillTypeOK' /\ FillShape'
  <2>1. FillTypeOK'
    BY <1>1, <1>9 DEF FreeSlot, Goto, FillTypeOK, FillPcs
  <2>2. FillShape'
    BY <1>1, <1>9 DEF FreeSlot, Goto, FillTypeOK, FillShape
  <2> QED BY <2>1, <2>2
<1>10. ASSUME NEW t \in Fills, ReleaseInflight(t) PROVE FillTypeOK' /\ FillShape'
  <2>1. FillTypeOK'
    BY <1>1, <1>10 DEF ReleaseInflight, Goto, FillTypeOK, FillPcs
  <2>2. FillShape'
    BY <1>1, <1>10 DEF ReleaseInflight, Goto, FillTypeOK, FillShape
  <2> QED BY <2>1, <2>2
<1>11. CASE ReserveLowest
  <2>1. CASE UNCHANGED fillVars
    BY <1>1, <2>1 DEF fillVars, FillTypeOK, FillShape
  <2>2. ASSUME NEW v \in Runs(FreeIn(0, Size)),
               lo' = [lo EXCEPT ![Driver] = v[1]], pos' = [pos EXCEPT ![Driver] = v[1]],
               hi' = [hi EXCEPT ![Driver] = Lesser(v[1] + Chunk, v[2])],
               Goto(Driver, "acquire"), UNCHANGED <<got, shifted, erring>>
        PROVE  FillTypeOK' /\ FillShape'
    <3>1. /\ v[1] \in 0 .. Size /\ v[1] < Lesser(v[1] + Chunk, v[2])
          /\ Lesser(v[1] + Chunk, v[2]) \in 0 .. Size
      BY LowestPiece
    <3>2. FillTypeOK'
      BY <1>1, <2>2, <3>1 DEF FillTypeOK, FillPcs, Goto
    <3>3. FillShape'
      BY <1>1, <2>2, <3>1 DEF FillTypeOK, FillShape, Goto
    <3> QED BY <3>2, <3>3
  <2> QED BY <1>11, <2>1, <2>2 DEF ReserveLowest
<1>12. CASE FillReturned
  BY <1>1, <1>12 DEF FillReturned, FillTypeOK, FillShape
<1>13. ASSUME NEW r \in Readers, RequestFill(r) PROVE FillTypeOK' /\ FillShape'
  <2>1. PICK started \in SUBSET Seeks : \E run \in [started -> Window(r)] : Starts(r, started, run)
    BY <1>13, RequestStarts
  <2>2. PICK run \in [started -> Window(r)] : Starts(r, started, run)
    BY <2>1
  <2>3. \A t \in started : /\ run[t][1] \in 0 .. Size /\ run[t][2] \in 0 .. Size
                           /\ run[t][1] <= run[t][2]
    BY RunIsRange, FreeInBytes DEF Bytes, Window
  <2>4. UNCHANGED <<got, shifted, erring>>
    BY <1>13 DEF RequestFill
  <2>5. FillTypeOK'
    BY <1>1, <2>2, <2>3, <2>4 DEF FillTypeOK, FillPcs, Starts
  <2>6. FillShape'
    BY <1>1, <2>2, <2>3, <2>4 DEF FillTypeOK, FillShape, Starts
  <2> QED BY <2>5, <2>6
<1> QED
  BY <1>1, FillFrame, <1>2, <1>3, <1>4, <1>5, <1>6, <1>7, <1>8, <1>9, <1>10, <1>11, <1>12, <1>13 DEF FillStep

(* Every step keeps a reader inside its range.                             *)
LEMMA ReaderInvStep == ReaderInv /\ [Next]_vars => ReaderInv'
<1> USE SparseAssumption DEF ReaderInv
<1>1. SUFFICES ASSUME ReaderTypeOK, ReaderShape, [Next]_vars, present \subseteq present'
               PROVE  ReaderTypeOK' /\ ReaderShape'
  BY PresentGrows
<1>2. CASE UNCHANGED readerVars
  BY <1>1, <1>2 DEF readerVars, ReaderTypeOK, ReaderShape
<1>3. ASSUME NEW r \in Readers, StartReader(r) PROVE ReaderTypeOK' /\ ReaderShape'
  <2>1. ReaderTypeOK'
    BY <1>1, <1>3 DEF StartReader, RGoto, ReaderTypeOK, ReaderShape, ReaderPcs, Bytes
  <2>2. ReaderShape'
    BY <1>1, <1>3 DEF StartReader, RGoto, ReaderTypeOK, ReaderShape, Bytes
  <2> QED BY <2>1, <2>2
<1>4. ASSUME NEW r \in Readers, OpenTemp(r) PROVE ReaderTypeOK' /\ ReaderShape'
  <2>1. ReaderTypeOK'
    BY <1>1, <1>4 DEF OpenTemp, RGoto, ReaderTypeOK, ReaderShape, ReaderPcs, Bytes
  <2>2. ReaderShape'
    BY <1>1, <1>4 DEF OpenTemp, RGoto, ReaderTypeOK, ReaderShape, Bytes
  <2> QED BY <2>1, <2>2
<1>5. ASSUME NEW r \in Readers, RequestFill(r) PROVE ReaderTypeOK' /\ ReaderShape'
  <2>1. ReaderTypeOK'
    BY <1>1, <1>5 DEF RequestFill, RGoto, ReaderTypeOK, ReaderShape, ReaderPcs, Bytes
  <2>2. ReaderShape'
    BY <1>1, <1>5 DEF RequestFill, RGoto, ReaderTypeOK, ReaderShape, Bytes
  <2> QED BY <2>1, <2>2
<1>6. ASSUME NEW r \in Readers, AwaitByte(r) PROVE ReaderTypeOK' /\ ReaderShape'
  <2>1. ReaderTypeOK'
    BY <1>1, <1>6 DEF AwaitByte, RGoto, ReaderTypeOK, ReaderShape, ReaderPcs, Bytes
  <2>2. ReaderShape'
    BY <1>1, <1>6 DEF AwaitByte, RGoto, ReaderTypeOK, ReaderShape, Bytes, ByteReady
  <2> QED BY <2>1, <2>2
<1>7. ASSUME NEW r \in Readers, FindLimit(r) PROVE ReaderTypeOK' /\ ReaderShape'
  <2>1. PICK e \in 0 .. Size : /\ IsRunEnd(rpos[r], e)
                              /\ rlim' = [rlim EXCEPT ![r] = Lesser(e, rlast[r] + 1)]
    BY <1>7 DEF FindLimit
  <2>2. /\ rpos[r] \in 0 .. Size /\ rlast[r] \in 0 .. Size - 1 /\ rpos[r] <= rlast[r]
        /\ rpos[r] < e /\ rpos[r] .. e - 1 \subseteq present
    BY <1>1, <1>7, <2>1 DEF FindLimit, IsRunEnd, ReaderTypeOK, ReaderShape, Bytes
  <2>3. /\ Lesser(e, rlast[r] + 1) \in 0 .. Size /\ rpos[r] < Lesser(e, rlast[r] + 1)
        /\ Lesser(e, rlast[r] + 1) <= rlast[r] + 1 /\ Lesser(e, rlast[r] + 1) <= e
    BY <2>1, <2>2 DEF Lesser
  <2>4. /\ UNCHANGED <<rpos, rlast, gone>> /\ rpc' = [rpc EXCEPT ![r] = "send"]
    BY <1>7 DEF FindLimit, RGoto
  <2>5. ReaderTypeOK'
    BY <1>1, <2>1, <2>3, <2>4 DEF ReaderTypeOK, ReaderPcs
  <2>6. ReaderShape'
    BY <1>1, <2>1, <2>2, <2>3, <2>4 DEF ReaderTypeOK, ReaderShape
  <2> QED BY <2>5, <2>6
<1>8. ASSUME NEW r \in Readers, SendBlock(r) PROVE ReaderTypeOK' /\ ReaderShape'
  <2>1. ReaderTypeOK'
    BY <1>1, <1>8 DEF SendBlock, RGoto, ReaderTypeOK, ReaderShape, ReaderPcs, Bytes
  <2>2. ReaderShape'
    BY <1>1, <1>8 DEF SendBlock, RGoto, ReaderTypeOK, ReaderShape, Bytes
  <2> QED BY <2>1, <2>2
<1>9. ASSUME NEW r \in Readers, SendFails(r) PROVE ReaderTypeOK' /\ ReaderShape'
  <2>1. ReaderTypeOK'
    BY <1>1, <1>9 DEF SendFails, RGoto, ReaderTypeOK, ReaderShape, ReaderPcs, Bytes
  <2>2. ReaderShape'
    BY <1>1, <1>9 DEF SendFails, RGoto, ReaderTypeOK, ReaderShape, Bytes
  <2> QED BY <2>1, <2>2
<1>10. ASSUME NEW r \in Readers, Disconnect(r) PROVE ReaderTypeOK' /\ ReaderShape'
  <2>1. ReaderTypeOK'
    BY <1>1, <1>10 DEF Disconnect, RGoto, ReaderTypeOK, ReaderShape, ReaderPcs, Bytes
  <2>2. ReaderShape'
    BY <1>1, <1>10 DEF Disconnect, RGoto, ReaderTypeOK, ReaderShape, Bytes
  <2> QED BY <2>1, <2>2
<1> QED
  BY <1>1, ReaderFrame, <1>2, <1>3, <1>4, <1>5, <1>6, <1>7, <1>8, <1>9, <1>10 DEF ReaderStep

(* What is present or in flight stays inside the file.                     *)
LEMMA FileTypeStep == FileTypeOK /\ FillInv /\ [Next]_vars => FileTypeOK'
<1> USE SparseAssumption
<1>1. SUFFICES ASSUME FileTypeOK, FillTypeOK, FillShape, [Next]_vars PROVE FileTypeOK'
  BY DEF FillInv
<1>2. CASE UNCHANGED <<setVars, fileVars>>
  BY <1>1, <1>2 DEF FileTypeOK, setVars, fileVars
<1>3. ASSUME NEW t \in Fills, WriteDisk(t) PROVE FileTypeOK'
  BY <1>1, <1>3 DEF FileTypeOK, WriteDisk, WriteFails, setVars
<1>4. ASSUME NEW t \in Fills, MarkPresent(t) PROVE FileTypeOK'
  <2>1. pos[t] .. pos[t] + got[t] - 1 \subseteq Bytes
    BY <1>1, <1>4 DEF MarkPresent, FillTypeOK, FillShape, Bytes
  <2> QED BY <1>1, <1>4, <2>1 DEF FileTypeOK, MarkPresent, fileVars
<1>5. ASSUME NEW t \in Fills, ReleaseInflight(t) PROVE FileTypeOK'
  BY <1>1, <1>5 DEF FileTypeOK, ReleaseInflight, fileVars
<1>6. CASE ReserveLowest
  <2>1. inflight' \subseteq Bytes
    BY <1>1, <1>6, LowestPiece, FreeInBytes DEF ReserveLowest, FileTypeOK
  <2> QED BY <1>1, <1>6, <2>1 DEF FileTypeOK, ReserveLowest, fileVars
<1>7. ASSUME NEW r \in Readers, RequestFill(r) PROVE FileTypeOK'
  BY <1>1, <1>7 DEF FileTypeOK, RequestFill, fileVars, FreeIn
<1>8. CASE CloseWriter \/ CloseDescriptor \/ Publish \/ MarkDone \/ RemoveTemp
  BY <1>1, <1>8 DEF FileTypeOK, CloseWriter, CloseDescriptor, Publish, MarkDone, RemoveTemp, setVars
<1> QED
  BY <1>1, FileFrame, <1>2, <1>3, <1>4, <1>5, <1>6, <1>7, <1>8

(* The driver keeps its shape.                                             *)
LEMMA DriverTypeStep == DriverTypeOK /\ [Next]_vars => DriverTypeOK'
<1> USE DEF DriverTypeOK, DriverPcs
<1>1. SUFFICES ASSUME DriverTypeOK, [Next]_vars PROVE DriverTypeOK'
  OBVIOUS
<1>2. CASE UNCHANGED driverVars
  BY <1>1, <1>2 DEF driverVars
<1>3. ASSUME NEW t \in Fills, ReleaseInflight(t) PROVE DriverTypeOK'
  BY <1>1, <1>3 DEF ReleaseInflight
<1>4. CASE LoopTest \/ ReserveLowest \/ WaitProgress \/ WaitReturns
  BY <1>1, <1>4 DEF LoopTest, ReserveLowest, WaitProgress, WaitReturns
<1>5. CASE FillReturned \/ CloseWriter \/ CloseDescriptor \/ Verdict
  BY <1>1, <1>5 DEF FillReturned, CloseWriter, CloseDescriptor, Verdict
<1>6. CASE Publish \/ MarkDone \/ RemoveTemp \/ Return \/ Timeout
  BY <1>1, <1>6 DEF Publish, MarkDone, RemoveTemp, Return, Timeout
<1> QED
  BY <1>1, DriverFrame, <1>2, <1>3, <1>4, <1>5, <1>6 DEF DriverStep

(* The condition variable, the wakers and the slots of other jobs.         *)
LEMMA RestTypeStep ==
  ASSUME TypeOK, [Next]_vars
  PROVE  /\ (sleeping \subseteq {Driver} \cup Readers)' /\ (armed \subseteq {Driver} \cup Readers)'
         /\ (others \in 0 .. OtherFills)'
<1> USE SparseAssumption
<1>1. (sleeping \subseteq {Driver} \cup Readers)'
  BY SleepFrame DEF TypeOK, WaitProgress, AwaitByte
<1>2. (armed \subseteq {Driver} \cup Readers)' /\ (others \in 0 .. OtherFills)'
  BY EnvFrame DEF TypeOK, envVars, OtherJobs, WakerStep, WakerFires, WakerStops, OpenTemp
<1> QED BY <1>1, <1>2

(* The typing invariant holds when ready is closed.                        *)
LEMMA TypeInvInit == Init => TypeInv
<1> SUFFICES ASSUME Init PROVE TypeInv
  OBVIOUS
<1>1. 0 \in Bytes /\ 0 \in 0 .. Size /\ 0 \in 0 .. OtherFills
  BY SparseAssumption DEF Bytes
<1>2. FileTypeOK /\ DriverTypeOK
  BY DEF Init, FileTypeOK, DriverTypeOK, DriverPcs
<1>3. FillTypeOK /\ FillShape
  BY <1>1 DEF Init, FillTypeOK, FillShape, FillPcs
<1>4. ReaderTypeOK /\ ReaderShape
  BY <1>1 DEF Init, ReaderTypeOK, ReaderShape, ReaderPcs, Bytes
<1> QED BY <1>1, <1>2, <1>3, <1>4 DEF Init, TypeInv, TypeOK

(* The typing invariant is inductive.                                      *)
LEMMA TypeInvStep == TypeInv /\ [Next]_vars => TypeInv'
BY FileTypeStep, DriverTypeStep, FillInvStep, ReaderInvStep, RestTypeStep
   DEF TypeInv, TypeOK, FillInv, ReaderInv

(* Every variable keeps its shape, and every fill and reader its position  *)
(* in its range.                                                           *)
THEOREM Typing == Spec => []TypeInv
<1> QED BY TypeInvInit, TypeInvStep, PTL DEF Spec

(* Every variable keeps its shape: no fill, read or request of a sparse    *)
(* job leaves the file or its own range (fillRange, serveSparse).          *)
THEOREM TypeCorrect == Spec => []TypeOK
<1> QED BY Typing, PTL DEF TypeInv

-----------------------------------------------------------------------------
(* Reservations                                                            *)

(* The driver's fill lives exactly while the driver is inside fillRange.   *)
DriverFills == Live(Driver) <=> dpc = "filling"

ResInv == DriverFills /\ ReservationsDisjoint /\ NothingFetchedTwice

(* The driver leaves fillRange when its fill is over, and not before.      *)
LEMMA DriverFillsStep == TypeInv /\ DriverFills /\ [Next]_vars => DriverFills'
<1> USE DEF DriverFills, Live
<1>1. SUFFICES ASSUME TypeInv, DriverFills, [Next]_vars PROVE DriverFills'
  OBVIOUS
<1>2. fpc \in [Fills -> FillPcs] /\ Driver \in Fills
  BY <1>1 DEF TypeInv, TypeOK, FillTypeOK, Fills
<1>3. CASE UNCHANGED <<fpc, dpc>>
  BY <1>1, <1>3
<1>4. ASSUME NEW t \in Fills, FillStep(t) PROVE DriverFills'
  <2>1. CASE ReleaseInflight(t)
    BY <1>1, <1>2, <2>1 DEF ReleaseInflight, Goto
  <2>2. CASE ~ReleaseInflight(t)
    <3>1. /\ dpc' = dpc /\ fpc[t] # "idle"
          /\ \E pc \in FillPcs \ {"idle"} : fpc' = [fpc EXCEPT ![t] = pc]
      BY <1>4, <2>2 DEF FillStep, AcquireSlot, OpenUpstream, ReadBody, CheckWriter, WriteDisk,
                        WriteFails, MarkPresent, FreeSlot, Goto, FillError, driverVars, FillPcs
    <3> QED BY <1>1, <1>2, <3>1
  <2> QED BY <2>1, <2>2
<1>5. CASE ReserveLowest
  BY <1>1, <1>2, <1>5 DEF ReserveLowest, Goto, fillVars
<1>6. ASSUME NEW r \in Readers, RequestFill(r) PROVE DriverFills'
  <2>1. PICK started \in SUBSET Seeks : \E run \in [started -> Window(r)] : Starts(r, started, run)
    BY <1>6, RequestStarts
  <2>2. fpc'[Driver] = fpc[Driver] /\ dpc' = dpc
    BY <1>2, <1>6, <2>1, SparseAssumption DEF Starts, RequestFill, driverVars
  <2> QED BY <1>1, <2>2
<1>7. CASE DriverStep /\ ~ReserveLowest
  <2>1. fpc' = fpc /\ dpc # "filling" /\ dpc' # "filling"
    BY <1>7 DEF DriverStep, LoopTest, WaitProgress, WaitReturns, FillReturned, CloseWriter,
                CloseDescriptor, Verdict, Publish, MarkDone, RemoveTemp, Return, fillVars
  <2> QED BY <1>1, <2>1
<1>8. CASE Timeout
  BY <1>1, <1>8 DEF Timeout, fillVars
<1> QED
  BY <1>1, <1>3, <1>4, <1>5, <1>6, <1>7, <1>8
     DEF Next, ReaderStep, WakerStep, vars, fillVars, driverVars, StartReader, OpenTemp, AwaitByte,
         FindLimit, SendBlock, SendFails, Disconnect, WakerFires, WakerStops, OtherJobs, AllOver

(* A step that starts and ends no fill, moves no range and adds no block   *)
(* leaves the reservations alone.                                          *)
LEMMA QuietStep ==
  ASSUME ReservationsDisjoint, NothingFetchedTwice,
         UNCHANGED <<present, inflight, lo, hi, pos>>,
         \A t \in Fills : Live(t)' => Live(t)
  PROVE  ReservationsDisjoint' /\ NothingFetchedTwice'
BY DEF ReservationsDisjoint, NothingFetchedTwice, Reserved

(* What a fill marks present lies in its own range, which no other fill    *)
(* shares.                                                                 *)
LEMMA MarkStep ==
  ASSUME TypeInv, ReservationsDisjoint, NothingFetchedTwice, NEW t \in Fills, MarkPresent(t)
  PROVE  ReservationsDisjoint' /\ NothingFetchedTwice'
<1>1. /\ fpc \in [Fills -> FillPcs]
      /\ \A u \in Fills : /\ lo[u] \in Int /\ hi[u] \in Int /\ pos[u] \in Int /\ got[u] \in Int
                          /\ lo[u] <= pos[u] /\ pos[u] <= hi[u] /\ got[u] >= 0
      /\ pos[t] + got[t] <= hi[t]
  BY SparseAssumption DEF TypeInv, TypeOK, FillTypeOK, FillShape, MarkPresent
<1>2. /\ UNCHANGED <<inflight, lo, hi>>
      /\ present' = present \cup (pos[t] .. pos[t] + got[t] - 1)
      /\ pos' = [pos EXCEPT ![t] = pos[t] + got[t]]
      /\ \A u \in Fills : Live(u)' <=> Live(u)
      /\ Live(t)
  BY <1>1 DEF MarkPresent, Goto, FillError, Live
<1>3. ReservationsDisjoint'
  BY <1>2 DEF ReservationsDisjoint, Reserved
<1>4. ASSUME NEW u \in Fills, Live(u)
      PROVE  (pos'[u] .. hi[u] - 1) \cap present' = {}
  <2>1. CASE u = t
    <3>1. pos'[t] = pos[t] + got[t]
      BY <1>2 DEF TypeInv, TypeOK, FillTypeOK
    <3> QED BY <1>1, <1>2, <1>4, <2>1, <3>1 DEF NothingFetchedTwice
  <2>2. CASE u # t
    <3>1. pos'[u] = pos[u]
      BY <1>2, <2>2 DEF TypeInv, TypeOK, FillTypeOK
    <3>2. (lo[u] .. hi[u] - 1) \cap (lo[t] .. hi[t] - 1) = {}
      BY <1>2, <1>4, <2>2 DEF ReservationsDisjoint, Reserved
    <3>3. (pos[u] .. hi[u] - 1) \cap present = {}
      BY <1>4 DEF NothingFetchedTwice
    <3> QED BY <1>1, <1>2, <3>1, <3>2, <3>3
  <2> QED BY <2>1, <2>2
<1> QED BY <1>2, <1>3, <1>4 DEF NothingFetchedTwice

(* A release takes nothing from another fill.                              *)
LEMMA ReleaseStep ==
  ASSUME TypeInv, ReservationsDisjoint, NothingFetchedTwice, NEW t \in Fills, ReleaseInflight(t)
  PROVE  ReservationsDisjoint' /\ NothingFetchedTwice'
<1>1. /\ present' = present /\ inflight' = inflight \ Reserved(t)
      /\ Live(t) /\ ~Live(t)'
      /\ \A u \in Fills \ {t} : /\ Live(u)' <=> Live(u)
                               /\ lo'[u] = lo[u] /\ hi'[u] = hi[u] /\ pos'[u] = pos[u]
  BY DEF ReleaseInflight, Goto, Live, Reserved, TypeInv, TypeOK, FillTypeOK
<1>2. ReservationsDisjoint'
  BY <1>1 DEF ReservationsDisjoint, Reserved
<1>3. NothingFetchedTwice'
  BY <1>1 DEF NothingFetchedTwice
<1> QED BY <1>2, <1>3

(* New fills whose ranges were free, and have nothing in common, keep the  *)
(* reservations disjoint.                                                  *)
LEMMA StartStep ==
  ASSUME ReservationsDisjoint, NothingFetchedTwice, NEW started \in SUBSET Fills,
         present' = present, inflight \subseteq inflight',
         \A t \in started : /\ pos'[t] = lo'[t] /\ (lo'[t] .. hi'[t] - 1) \subseteq inflight'
                            /\ (lo'[t] .. hi'[t] - 1) \cap (present \cup inflight) = {},
         \A t, u \in started :
           t # u => (lo'[t] .. hi'[t] - 1) \cap (lo'[u] .. hi'[u] - 1) = {},
         \A t \in Fills \ started : /\ Live(t)' => Live(t)
                                    /\ lo'[t] = lo[t] /\ hi'[t] = hi[t] /\ pos'[t] = pos[t]
  PROVE  ReservationsDisjoint' /\ NothingFetchedTwice'
<1>1. ASSUME NEW t \in Fills, Live(t)'
      PROVE  (lo'[t] .. hi'[t] - 1) \subseteq inflight'
  BY <1>1 DEF ReservationsDisjoint, Reserved
<1>2. ASSUME NEW t \in Fills, NEW u \in Fills, t # u, Live(t)', Live(u)'
      PROVE  (lo'[t] .. hi'[t] - 1) \cap (lo'[u] .. hi'[u] - 1) = {}
  <2>1. CASE t \in started /\ u \in started
    BY <1>2, <2>1
  <2>2. CASE t \in started /\ u \notin started
    BY <1>2, <2>2 DEF ReservationsDisjoint, Reserved
  <2>3. CASE t \notin started /\ u \in started
    BY <1>2, <2>3 DEF ReservationsDisjoint, Reserved
  <2>4. CASE t \notin started /\ u \notin started
    BY <1>2, <2>4 DEF ReservationsDisjoint, Reserved
  <2> QED BY <2>1, <2>2, <2>3, <2>4
<1>3. NothingFetchedTwice'
  BY DEF NothingFetchedTwice
<1> QED BY <1>1, <1>2, <1>3 DEF ReservationsDisjoint, Reserved

(* The invariant of the reservations is inductive.                         *)
LEMMA ResInvStep == TypeInv /\ ResInv /\ [Next]_vars => ResInv'
<1>1. SUFFICES ASSUME TypeInv, DriverFills, ReservationsDisjoint, NothingFetchedTwice, [Next]_vars
               PROVE  ReservationsDisjoint' /\ NothingFetchedTwice'
  BY DriverFillsStep DEF ResInv
<1>2. fpc \in [Fills -> FillPcs] /\ Driver \in Fills
  BY <1>1 DEF TypeInv, TypeOK, FillTypeOK, Fills
<1>3. CASE UNCHANGED <<present, inflight, fpc, lo, hi, pos>>
  BY <1>1, <1>3, QuietStep DEF Live
<1>4. ASSUME NEW t \in Fills, FillStep(t) PROVE ReservationsDisjoint' /\ NothingFetchedTwice'
  <2>1. CASE MarkPresent(t)
    BY <1>1, <2>1, MarkStep
  <2>2. CASE ReleaseInflight(t)
    BY <1>1, <2>2, ReleaseStep
  <2>3. CASE ~MarkPresent(t) /\ ~ReleaseInflight(t)
    <3>1. /\ UNCHANGED <<present, inflight, lo, hi, pos>> /\ fpc[t] # "idle"
          /\ \E pc \in FillPcs : fpc' = [fpc EXCEPT ![t] = pc]
      BY <1>4, <2>3 DEF FillStep, AcquireSlot, OpenUpstream, ReadBody, CheckWriter, WriteDisk,
                        WriteFails, FreeSlot, Goto, FillError, setVars, FillPcs
    <3> QED BY <1>1, <1>2, <3>1, QuietStep DEF Live
  <2> QED BY <2>1, <2>2, <2>3
<1>5. CASE ReserveLowest
  <2>1. CASE UNCHANGED <<present, inflight, fillVars>>
    BY <1>3, <2>1 DEF fillVars
  <2>2. ASSUME NEW v \in Runs(FreeIn(0, Size)),
               inflight' = inflight \cup (v[1] .. Lesser(v[1] + Chunk, v[2]) - 1),
               lo' = [lo EXCEPT ![Driver] = v[1]], pos' = [pos EXCEPT ![Driver] = v[1]],
               hi' = [hi EXCEPT ![Driver] = Lesser(v[1] + Chunk, v[2])],
               Goto(Driver, "acquire")
        PROVE  ReservationsDisjoint' /\ NothingFetchedTwice'
    <3>1. (v[1] .. Lesser(v[1] + Chunk, v[2]) - 1) \subseteq FreeIn(0, Size)
      BY LowestPiece
    <3>2. /\ lo'[Driver] = v[1] /\ pos'[Driver] = v[1] /\ hi'[Driver] = Lesser(v[1] + Chunk, v[2])
          /\ \A t \in Fills \ {Driver} : /\ Live(t)' => Live(t)
                                        /\ lo'[t] = lo[t] /\ hi'[t] = hi[t] /\ pos'[t] = pos[t]
      BY <1>1, <1>2, <2>2 DEF TypeInv, TypeOK, FillTypeOK, Goto, Live
    <3>3. present' = present
      BY <1>5 DEF ReserveLowest
    <3>4. /\ (lo'[Driver] .. hi'[Driver] - 1) \subseteq inflight'
          /\ (lo'[Driver] .. hi'[Driver] - 1) \cap (present \cup inflight) = {}
      BY <2>2, <3>1, <3>2 DEF FreeIn
    <3>5. {Driver} \in SUBSET Fills /\ inflight \subseteq inflight'
      BY <1>2, <2>2
    <3> HIDE <2>2
    <3>6. \A t \in {Driver} : /\ pos'[t] = lo'[t] /\ (lo'[t] .. hi'[t] - 1) \subseteq inflight'
                              /\ (lo'[t] .. hi'[t] - 1) \cap (present \cup inflight) = {}
      BY <3>2, <3>4
    <3>7. \A t, u \in {Driver} :
            t # u => (lo'[t] .. hi'[t] - 1) \cap (lo'[u] .. hi'[u] - 1) = {}
      OBVIOUS
    <3> QED BY <1>1, <3>2, <3>3, <3>5, <3>6, <3>7, StartStep
  <2> QED BY <1>5, <2>1, <2>2 DEF ReserveLowest
<1>6. ASSUME NEW r \in Readers, RequestFill(r) PROVE ReservationsDisjoint' /\ NothingFetchedTwice'
  <2> DEFINE free == FreeIn(rpos[r], rpos[r] + Chunk)
  <2>1. PICK started \in SUBSET Seeks : \E run \in [started -> Window(r)] : Starts(r, started, run)
    BY <1>6, RequestStarts
  <2>2. PICK run \in [started -> Window(r)] : Starts(r, started, run)
    BY <2>1
  <2>3. present' = present /\ started \in SUBSET Fills /\ inflight' = inflight \cup free
    BY <1>6, <2>2 DEF RequestFill, Fills, Starts
  <2>4. \A t \in started : run[t] \in Runs(free) /\ run[t][1] .. run[t][2] - 1 \subseteq free
    BY RunIsRange, FreeInBytes DEF Window
  <2>5. \A t, u \in started :
          t # u => (run[t][1] .. run[t][2] - 1) \cap (run[u][1] .. run[u][2] - 1) = {}
    BY <2>2, <2>4, RunsDisjoint, FreeInBytes DEF Starts
  <2>6. \A t \in started : lo'[t] = run[t][1] /\ pos'[t] = run[t][1] /\ hi'[t] = run[t][2]
    BY <2>2, <2>3 DEF Starts
  <2>7. \A t \in Fills \ started : /\ Live(t)' => Live(t)
                                   /\ lo'[t] = lo[t] /\ hi'[t] = hi[t] /\ pos'[t] = pos[t]
    BY <2>2 DEF Starts, Live
  <2>8. free \cap (present \cup inflight) = {}
    BY DEF FreeIn
  <2> HIDE DEF free
  <2> QED BY <1>1, <2>3, <2>4, <2>5, <2>6, <2>7, <2>8, StartStep
<1>7. CASE DriverStep /\ ~ReserveLowest
  <2>1. UNCHANGED <<present, inflight, fpc, lo, hi, pos>>
    BY <1>7 DEF DriverStep, LoopTest, WaitProgress, WaitReturns, FillReturned, CloseWriter,
                CloseDescriptor, Verdict, Publish, MarkDone, RemoveTemp, Return, fillVars, setVars
  <2> QED BY <1>3, <2>1
<1> QED
  BY <1>1, <1>3, <1>4, <1>5, <1>6, <1>7
     DEF Next, ReaderStep, WakerStep, vars, fillVars, setVars, StartReader, OpenTemp, AwaitByte,
         FindLimit, SendBlock, SendFails, Disconnect, WakerFires, WakerStops, OtherJobs, AllOver,
         Timeout

(* It holds while nothing is reserved.                                     *)
LEMMA ResInvInit == Init => ResInv
BY DEF Init, ResInv, DriverFills, ReservationsDisjoint, NothingFetchedTwice, Live, Fills

(* The fills of a job never share a block, and never write one that is     *)
(* already there.                                                          *)
THEOREM Reservations == Spec => []FetchedOnce
<1>1. Spec => []ResInv
  BY ResInvInit, Typing, ResInvStep, PTL DEF Spec
<1> QED BY <1>1, PTL DEF ResInv, FetchedOnce

-----------------------------------------------------------------------------
(* What the file holds                                                     *)

(* A fill whose write returned has put video where it wrote; none of them  *)
(* reads a body that starts elsewhere.                                     *)
ContentInv ==
  /\ PresentIsOnDisk
  /\ \A t \in Fills : shifted[t] = FALSE
  /\ \A t \in Fills : fpc[t] = "mark" =>
       \A b \in pos[t] .. pos[t] + got[t] - 1 : disk[b] = "video"

(* If ranges are honoured, the invariant of the content is inductive.      *)
LEMMA ContentStep ==
  ASSUME RangeHonoured
  PROVE  TypeInv /\ ResInv /\ ContentInv /\ [Next]_vars => ContentInv'
<1>1. SUFFICES ASSUME TypeInv, ResInv, ContentInv, [Next]_vars PROVE ContentInv'
  OBVIOUS
<1>2. /\ FileTypeOK /\ FillTypeOK /\ FillShape
      /\ present \subseteq Bytes
  BY <1>1 DEF TypeInv, TypeOK, FileTypeOK
<1>3. ASSUME UNCHANGED <<present, disk, pos, got, shifted>>,
             \A t \in Fills : fpc'[t] = "mark" => fpc[t] = "mark"
      PROVE  ContentInv'
  BY <1>1, <1>3 DEF ContentInv, PresentIsOnDisk
<1>4. ASSUME NEW t \in Fills, OpenUpstream(t) PROVE ContentInv'
  BY <1>1, <1>2, <1>4 DEF OpenUpstream, ContentInv, PresentIsOnDisk, Goto, FillError, FillTypeOK,
                          setVars, fileVars
<1>5. ASSUME NEW t \in Fills, ReadBody(t) PROVE ContentInv'
  <2>1. /\ UNCHANGED <<present, disk, pos, shifted>> /\ fpc'[t] # "mark"
        /\ \A u \in Fills \ {t} : fpc'[u] = fpc[u] /\ got'[u] = got[u]
    BY <1>2, <1>5 DEF ReadBody, Goto, FillError, FillTypeOK, setVars, fileVars
  <2> QED BY <1>1, <2>1 DEF ContentInv, PresentIsOnDisk
<1>6. ASSUME NEW t \in Fills, WriteDisk(t) PROVE ContentInv'
  <2>1. CASE UNCHANGED disk /\ fpc' = [fpc EXCEPT ![t] = "free"]
    BY <1>2, <1>3, <1>6, <2>1 DEF WriteDisk, FillTypeOK, setVars
  <2>2. CASE /\ disk' = [b \in Bytes |-> IF b \in pos[t] .. pos[t] + got[t] - 1
                                         THEN IF shifted[t] THEN "other" ELSE "video"
                                         ELSE disk[b]]
             /\ fpc' = [fpc EXCEPT ![t] = "mark"]
    <3>1. UNCHANGED <<present, pos, got, shifted>> /\ shifted[t] = FALSE
      BY <1>1, <1>6 DEF WriteDisk, setVars, ContentInv
    <3>2. \A b \in Bytes : disk[b] = "video" => disk'[b] = "video"
      BY <2>2, <3>1
    <3>3. \A u \in Fills : fpc[u] \in {"write", "mark"} =>
             pos[u] .. pos[u] + got[u] - 1 \subseteq Bytes
      BY <1>2, SparseAssumption DEF FillTypeOK, FillShape, Bytes
    <3>4. \A b \in pos[t] .. pos[t] + got[t] - 1 : disk'[b] = "video"
      BY <1>6, <2>2, <3>1, <3>3 DEF WriteDisk
    <3>5. \A u \in Fills \ {t} : fpc'[u] = fpc[u]
      BY <1>2, <2>2 DEF FillTypeOK
    <3>6. PresentIsOnDisk'
      BY <1>1, <1>2, <3>1, <3>2 DEF ContentInv, PresentIsOnDisk
    <3>7. ASSUME NEW u \in Fills, fpc'[u] = "mark"
          PROVE  \A b \in pos'[u] .. pos'[u] + got'[u] - 1 : disk'[b] = "video"
      <4>1. CASE u = t
        BY <3>1, <3>4, <4>1
      <4>2. CASE u # t
        BY <1>1, <3>1, <3>2, <3>3, <3>5, <3>7, <4>2 DEF ContentInv
      <4> QED BY <4>1, <4>2
    <3> QED BY <1>1, <3>1, <3>6, <3>7 DEF ContentInv
  <2> QED BY <1>6, <2>1, <2>2 DEF WriteDisk, WriteFails, FillError, Goto
<1>7. ASSUME NEW t \in Fills, MarkPresent(t) PROVE ContentInv'
  <2>1. /\ UNCHANGED <<disk, got, shifted>> /\ fpc'[t] # "mark" /\ fpc[t] = "mark"
        /\ present' = present \cup (pos[t] .. pos[t] + got[t] - 1)
        /\ \A u \in Fills \ {t} : fpc'[u] = fpc[u] /\ pos'[u] = pos[u]
    BY <1>2, <1>7 DEF MarkPresent, Goto, FillError, FillTypeOK, fileVars
  <2> QED BY <1>1, <2>1 DEF ContentInv, PresentIsOnDisk
<1>8. ASSUME NEW t \in Fills, ReleaseInflight(t) PROVE ContentInv'
  <2>1. /\ UNCHANGED <<disk, present>> /\ fpc'[t] # "mark" /\ shifted'[t] = FALSE
        /\ \A u \in Fills \ {t} : /\ fpc'[u] = fpc[u] /\ pos'[u] = pos[u] /\ got'[u] = got[u]
                                 /\ shifted'[u] = shifted[u]
    BY <1>2, <1>8 DEF ReleaseInflight, Goto, FillTypeOK, fileVars
  <2> QED BY <1>1, <2>1 DEF ContentInv, PresentIsOnDisk
<1>9. ASSUME NEW t \in Fills, AcquireSlot(t) \/ CheckWriter(t) \/ FreeSlot(t) PROVE ContentInv'
  <2>1. /\ UNCHANGED <<present, disk, pos, got, shifted>>
        /\ \E pc \in FillPcs \ {"mark"} : fpc' = [fpc EXCEPT ![t] = pc]
    BY <1>9 DEF AcquireSlot, CheckWriter, FreeSlot, Goto, FillError, setVars, fileVars, FillPcs
  <2> QED BY <1>2, <1>3, <2>1 DEF FillTypeOK
<1>10. CASE ReserveLowest
  <2>1. /\ UNCHANGED <<present, disk, got, shifted>>
        /\ \A u \in Fills : fpc'[u] = "mark" => fpc[u] = "mark" /\ pos'[u] = pos[u]
    BY <1>2, <1>10 DEF ReserveLowest, Goto, FillTypeOK, fillVars, fileVars
  <2> QED BY <1>1, <2>1 DEF ContentInv, PresentIsOnDisk
<1>11. ASSUME NEW r \in Readers, RequestFill(r) PROVE ContentInv'
  <2>1. /\ UNCHANGED <<present, disk, got, shifted>>
        /\ \A u \in Fills : fpc'[u] = "mark" => fpc[u] = "mark" /\ pos'[u] = pos[u]
    BY <1>11, RequestStarts DEF RequestFill, Starts, fileVars
  <2> QED BY <1>1, <2>1 DEF ContentInv, PresentIsOnDisk
<1>12. CASE DriverStep /\ ~ReserveLowest
  <2>1. UNCHANGED <<present, disk, fpc, pos, got, shifted>>
    BY <1>12 DEF DriverStep, LoopTest, WaitProgress, WaitReturns, FillReturned, CloseWriter,
                 CloseDescriptor, Verdict, Publish, MarkDone, RemoveTemp, Return, fillVars,
                 setVars, fileVars
  <2> QED BY <1>3, <2>1
<1>13. CASE UNCHANGED <<setVars, fileVars, fillVars>>
  BY <1>3, <1>13 DEF setVars, fileVars, fillVars
<1> QED
  BY <1>1, <1>4, <1>5, <1>6, <1>7, <1>8, <1>9, <1>10, <1>11, <1>12, <1>13
     DEF Next, FillStep, ReaderStep, WakerStep, vars, StartReader, OpenTemp, AwaitByte,
         FindLimit, SendBlock, SendFails, Disconnect, WakerFires, WakerStops, OtherJobs, AllOver,
         Timeout

(* From an upstream that honours ranges, whatever is present is video, and *)
(* no reader can be sent the hole of the sparse file.                      *)
THEOREM Content ==
  ASSUME RangeHonoured
  PROVE  Spec => []PresentIsOnDisk
<1>1. Init => ContentInv
  BY DEF Init, ContentInv, PresentIsOnDisk
<1>2. Spec => []ContentInv
  BY <1>1, ResInvInit, TypeInvInit, TypeInvStep, ResInvStep, ContentStep, PTL DEF Spec
<1> QED BY <1>2, PTL DEF ContentInv

-----------------------------------------------------------------------------
(* How the job ends                                                        *)

Ending == {"finish", "cleanup", "return", "returned"}

(* The verdict is given once; only a complete file gets "ok", only an "ok" *)
(* file is renamed, and done is set after the rename.                      *)
PhaseInv ==
  /\ dpc \notin Ending \cup {"publish"} => verdict = "none" /\ tmp = "tmp"
  /\ dpc = "publish" => verdict = "ok" /\ tmp = "tmp"
  /\ dpc \in Ending => verdict \in {"ok", "error"}
  /\ dpc = "cleanup" => verdict = "error"
  /\ done => dpc \in Ending \ {"finish"}
  /\ verdict = "ok" => present = Bytes
  /\ tmp = "cached" => verdict = "ok"
  /\ tmp = "removed" => verdict = "error"

(* The order of the end of a job is kept by every step.                    *)
LEMMA PhaseStep == TypeInv /\ ResInv /\ PhaseInv /\ [Next]_vars => PhaseInv'
<1>1. SUFFICES ASSUME TypeInv, ResInv, PhaseInv, [Next]_vars PROVE PhaseInv'
  OBVIOUS
<1>2. present = Bytes => present' = Bytes
  BY <1>1, PresentGrows, TypeInvStep DEF TypeInv, TypeOK, FileTypeOK
<1>3. /\ DriverTypeOK /\ tmp \in {"tmp", "cached", "removed"}
  BY <1>1 DEF TypeInv, TypeOK, FileTypeOK
<1>4. ASSUME UNCHANGED <<done, tmp, verdict>>,
             \/ dpc' = dpc
             \/ {dpc, dpc'} \cap (Ending \cup {"publish"}) = {}
      PROVE  PhaseInv'
  BY <1>1, <1>2, <1>4 DEF PhaseInv, Ending
<1>5. CASE LoopTest \/ ReserveLowest \/ WaitProgress \/ WaitReturns
  BY <1>4, <1>5 DEF LoopTest, ReserveLowest, WaitProgress, WaitReturns, Ending, fileVars
<1>6. CASE FillReturned \/ CloseWriter \/ CloseDescriptor
  BY <1>4, <1>6 DEF FillReturned, CloseWriter, CloseDescriptor, Ending, fileVars
<1>7. CASE Verdict
  BY <1>1, <1>2, <1>7 DEF Verdict, Succeeded, PhaseInv, Ending, fileVars
<1>8. CASE Publish
  BY <1>1, <1>2, <1>8 DEF Publish, PhaseInv, Ending
<1>9. CASE MarkDone
  BY <1>1, <1>2, <1>9 DEF MarkDone, PhaseInv, Ending
<1>10. CASE RemoveTemp
  BY <1>1, <1>2, <1>10 DEF RemoveTemp, PhaseInv, Ending
<1>11. CASE Return
  BY <1>1, <1>2, <1>11 DEF Return, PhaseInv, Ending, fileVars
<1>12. CASE UNCHANGED <<fileVars, driverVars>> \/ Timeout
  BY <1>4, <1>12 DEF Timeout, fileVars, driverVars
<1>13. ASSUME NEW t \in Fills, FillStep(t) PROVE PhaseInv'
  <2>1. UNCHANGED <<done, tmp, verdict>>
    BY <1>13 DEF FillStep, AcquireSlot, OpenUpstream, ReadBody, CheckWriter, WriteDisk, WriteFails,
                 MarkPresent, FreeSlot, ReleaseInflight, fileVars, driverVars
  <2>2. dpc' = dpc \/ (dpc = "filling" /\ dpc' = "filled")
    BY <1>1, <1>13 DEF FillStep, AcquireSlot, OpenUpstream, ReadBody, CheckWriter, WriteDisk,
                       WriteFails, MarkPresent, FreeSlot, ReleaseInflight, driverVars, ResInv,
                       DriverFills, Live
  <2> QED BY <1>4, <2>1, <2>2 DEF Ending
<1> QED
  BY <1>1, <1>5, <1>6, <1>7, <1>8, <1>9, <1>10, <1>11, <1>12, <1>13
     DEF Next, DriverStep, ReaderStep, WakerStep, vars, StartReader, OpenTemp, RequestFill,
         AwaitByte, FindLimit, SendBlock, SendFails, Disconnect, WakerFires, WakerStops,
         OtherJobs, AllOver

(* It holds at the start.                                                  *)
LEMMA PhaseInit == Init => PhaseInv
BY DEF Init, PhaseInv, Ending

(* A job that failed stays failed.                                         *)
LEMMA ErrorIsFinal ==
  ASSUME PhaseInv, [Next]_vars, verdict = "error"
  PROVE  verdict' = "error"
<1>1. dpc \notin {"verdict", "publish"}
  BY DEF PhaseInv, Ending
<1> QED
  BY <1>1, DriverFrame DEF DriverStep, LoopTest, ReserveLowest, WaitProgress, WaitReturns,
       FillReturned, CloseWriter, CloseDescriptor, Verdict, Publish, MarkDone, RemoveTemp, Return,
       Timeout, ReleaseInflight, driverVars

(* The file that reaches the cache holds the whole video.                  *)
THEOREM CacheContent ==
  ASSUME RangeHonoured
  PROVE  Spec => []CachedIsWhole
<1>1. PhaseInv /\ ContentInv => CachedIsWhole
  BY DEF PhaseInv, ContentInv, PresentIsOnDisk, CachedIsWhole
<1>2. Init => ContentInv
  BY DEF Init, ContentInv, PresentIsOnDisk
<1> QED
  BY <1>1, <1>2, TypeInvInit, ResInvInit, PhaseInit, TypeInvStep, ResInvStep, ContentStep,
     PhaseStep, PTL DEF Spec

-----------------------------------------------------------------------------
(* How a request ends, and what it sleeps on                               *)

(* A reader gives up only after a disconnect, or after done of a failed    *)
(* job: done after success means that its block is there.                  *)
LEMMA CutStep == TypeInv /\ PhaseInv /\ CutOnlyForCause /\ [Next]_vars => CutOnlyForCause'
<1>1. SUFFICES ASSUME TypeInv, PhaseInv, CutOnlyForCause, [Next]_vars,
                      NEW r \in Readers, rpc'[r] = "cut"
               PROVE  r \in gone' \/ verdict' = "error"
  BY DEF CutOnlyForCause
<1>2. /\ rpc \in [Readers -> ReaderPcs] /\ rpos[r] \in Int /\ rlast[r] \in Bytes
      /\ rpc[r] = "await" => rpos[r] <= rlast[r] /\ rpos[r] >= 0
  BY <1>1, SparseAssumption DEF TypeInv, TypeOK, ReaderTypeOK, ReaderShape, Bytes
<1>3. gone \subseteq gone'
  BY <1>1, ReaderFrame DEF readerVars, ReaderStep, StartReader, OpenTemp, RequestFill, AwaitByte,
       FindLimit, SendBlock, SendFails, Disconnect
<1>4. CASE rpc[r] = "cut"
  BY <1>1, <1>3, <1>4, ErrorIsFinal DEF CutOnlyForCause
<1>5. CASE rpc[r] # "cut"
  <2>1. PICK q \in Readers : AwaitByte(q) \/ SendFails(q)
    BY <1>1, <1>2, <1>5, ReaderFrame
       DEF readerVars, ReaderStep, StartReader, OpenTemp, RequestFill, FindLimit, SendBlock,
           Disconnect, RGoto
  <2>2. q = r
    BY <1>1, <1>2, <1>5, <2>1 DEF AwaitByte, SendFails, RGoto
  <2>3. CASE SendFails(r)
    BY <1>1, <1>2, <1>3, <2>3 DEF SendFails, RGoto
  <2>4. CASE AwaitByte(r)
    <3>1. r \in gone \/ (done /\ rpos[r] \notin present)
      BY <1>1, <1>2, <1>5, <2>4 DEF AwaitByte, ByteReady, RGoto
    <3>2. rpos[r] \in Bytes
      BY <1>2, <2>4, SparseAssumption DEF AwaitByte, Bytes
    <3>3. r \in gone \/ verdict = "error"
      BY <1>1, <3>1, <3>2 DEF PhaseInv
    <3> QED BY <1>1, <1>3, <3>3, ErrorIsFinal
  <2> QED BY <2>1, <2>2, <2>3, <2>4
<1> QED BY <1>4, <1>5

(* A download that succeeds never cuts short a client that stays.          *)
THEOREM CutForCause == Spec => []CutOnlyForCause
<1>1. Init => CutOnlyForCause
  BY DEF Init, CutOnlyForCause
<1> QED
  BY <1>1, TypeInvInit, ResInvInit, PhaseInit, TypeInvStep, ResInvStep, PhaseStep, CutStep, PTL
     DEF Spec

(* A sleeping request is in waitByte, and the waker of an attached request *)
(* is armed as long as its client stays.                                   *)
Attached(r) == rpc[r] \in {"request", "await", "limit", "send"}

SleepInv ==
  /\ SleepersHaveReason
  /\ \A r \in Readers \cap sleeping : rpc[r] = "await"
  /\ \A r \in Readers : Attached(r) /\ r \notin gone => r \in armed

(* Whatever ends a reason to sleep wakes the sleeper, or leaves a waker    *)
(* armed to do so.                                                         *)
LEMMA SleepStep == TypeInv /\ SleepInv /\ [Next]_vars => SleepInv'
<1>1. SUFFICES ASSUME TypeInv, SleepInv, [Next]_vars PROVE SleepInv'
  OBVIOUS
<1>2. rpc \in [Readers -> ReaderPcs] /\ rpos \in [Readers -> 0 .. Size] /\ Driver \notin Readers
  BY <1>1, SparseAssumption DEF TypeInv, TypeOK, ReaderTypeOK
<1>3. ASSUME sleeping' = {}, UNCHANGED <<rpc, gone>>, armed' = armed
      PROVE  SleepInv'
  BY <1>1, <1>3 DEF SleepInv, SleepersHaveReason, Attached
<1>4. ASSUME UNCHANGED <<sleeping, present, done, rpc, rpos, gone, armed>> PROVE SleepInv'
  BY <1>1, <1>4 DEF SleepInv, SleepersHaveReason, Attached
<1>5. ASSUME NEW t \in Fills, FillStep(t) PROVE SleepInv'
  BY <1>3, <1>4, <1>5 DEF FillStep, AcquireSlot, OpenUpstream, ReadBody, CheckWriter, WriteDisk,
       WriteFails, MarkPresent, FreeSlot, ReleaseInflight, Broadcast, setVars, fileVars,
       readerVars, envVars
<1>6. CASE WaitProgress
  BY <1>1, <1>2, <1>6 DEF WaitProgress, SleepInv, SleepersHaveReason, Attached, setVars, fileVars,
       readerVars, envVars
<1>7. CASE DriverStep /\ ~WaitProgress
  BY <1>3, <1>4, <1>7 DEF DriverStep, LoopTest, ReserveLowest, WaitReturns, FillReturned,
       CloseWriter, CloseDescriptor, Verdict, Publish, MarkDone, RemoveTemp, Return, Broadcast,
       setVars, fileVars, readerVars, envVars
<1>8. CASE Timeout \/ OtherJobs \/ AllOver \/ UNCHANGED vars
  BY <1>4, <1>8 DEF Timeout, OtherJobs, AllOver, vars, setVars, fileVars, readerVars, envVars
<1>9. ASSUME NEW x \in {Driver} \cup Readers, WakerFires(x) PROVE SleepInv'
  <2>1. sleeping' = {} /\ UNCHANGED <<rpc, gone>> /\ armed' = armed \ {x}
    BY <1>9 DEF WakerFires, Broadcast, readerVars
  <2>2. x \in Readers => x \in gone
    BY <1>2, <1>9 DEF WakerFires, WakerCtxDone
  <2> QED BY <1>1, <1>2, <2>1, <2>2 DEF SleepInv, SleepersHaveReason, Attached
<1>10. ASSUME NEW x \in {Driver} \cup Readers, WakerStops(x) PROVE SleepInv'
  <2>1. UNCHANGED <<sleeping, present, done, rpc, rpos, gone>> /\ armed' = armed \ {x}
    BY <1>10 DEF WakerStops, readerVars, setVars, fileVars
  <2>2. x \in Readers => rpc[x] \in {"whole", "cut", "late"}
    BY <1>2, <1>10 DEF WakerStops, WakerStopped, Ended
  <2> QED BY <1>1, <1>2, <2>1, <2>2 DEF SleepInv, SleepersHaveReason, Attached
<1>11. ASSUME NEW r \in Readers, AwaitByte(r) PROVE SleepInv'
  <2>1. /\ UNCHANGED <<present, done, rpos, gone, armed>> /\ rpc[r] = "await" /\ r \notin sleeping
        /\ \A q \in Readers \ {r} : rpc'[q] = rpc[q]
        /\ \/ sleeping' = sleeping /\ rpc'[r] \in {"limit", "cut"}
           \/ /\ sleeping' = sleeping \cup {r} /\ rpc' = rpc
              /\ rpos[r] \notin present /\ ~done /\ r \notin gone
    BY <1>2, <1>11 DEF AwaitByte, ByteReady, RGoto, setVars, fileVars, envVars
  <2> QED BY <1>1, <2>1 DEF SleepInv, SleepersHaveReason, Attached
<1>12. ASSUME NEW r \in Readers,
              StartReader(r) \/ OpenTemp(r) \/ RequestFill(r) \/ FindLimit(r) \/ SendBlock(r)
                \/ SendFails(r)
       PROVE  SleepInv'
  <2>1. /\ UNCHANGED <<sleeping, present, done, gone>> /\ armed \subseteq armed'
        /\ rpc[r] # "await" /\ (Attached(r)' => Attached(r) \/ r \in armed')
        /\ \A q \in Readers \ {r} : rpc'[q] = rpc[q] /\ rpos'[q] = rpos[q]
    BY <1>2, <1>12 DEF StartReader, OpenTemp, RequestFill, FindLimit, SendBlock, SendFails, RGoto,
         Attached, setVars, fileVars, envVars
  <2>2. r \notin sleeping
    BY <1>1, <2>1 DEF SleepInv
  <2> QED BY <1>1, <2>1, <2>2 DEF SleepInv, SleepersHaveReason, Attached
<1>13. ASSUME NEW r \in Readers, Disconnect(r) PROVE SleepInv'
  <2>1. /\ UNCHANGED <<sleeping, present, done, rpc, rpos, armed>> /\ gone' = gone \cup {r}
        /\ r \notin gone
    BY <1>13 DEF Disconnect, setVars, fileVars, envVars
  <2> QED BY <1>1, <2>1 DEF SleepInv, SleepersHaveReason, Attached
<1> QED
  BY <1>1, <1>5, <1>6, <1>7, <1>8, <1>9, <1>10, <1>11, <1>12, <1>13
     DEF Next, ReaderStep, WakerStep

(* No request sleeps through the arrival of its block, the end of the job  *)
(* or the departure of its client.                                         *)
THEOREM Sleepers == Spec => []SleepersHaveReason
<1>1. Init => SleepInv
  BY DEF Init, SleepInv, SleepersHaveReason, Attached
<1> QED BY <1>1, TypeInvInit, TypeInvStep, SleepStep, PTL DEF Spec, SleepInv

-----------------------------------------------------------------------------
(* Sparse mode implements Download                                         *)

(* At the start nothing has arrived and nobody has asked.                  *)
LEMMA InitRefines == Init => D!DInit
BY DEF Init, D!DInit, Outcome, ReaderView, DState

(* A step that moves no block, no outcome and no request is a stutter.     *)
LEMMA Stutter ==
  ASSUME UNCHANGED <<present, tmp, verdict, rpos, rlast, gone>>,
         \A r \in Readers : DState(r)' = DState(r)
  PROVE  UNCHANGED D!dvars
BY DEF D!dvars, Outcome, ReaderView

(* In particular, a step that leaves the requests alone too.               *)
LEMMA QuietReaders ==
  ASSUME UNCHANGED <<present, tmp, verdict, readerVars>>
  PROVE  UNCHANGED D!dvars
BY Stutter DEF readerVars, DState

(* What Send makes of a reader's view of the abstract download.            *)
LEMMA SentView ==
  ASSUME NEW v \in [state : {"whole", "reading"}, next : Int, last : Int],
         NEW n \in Int, NEW to \in {"whole", "reading"}
  PROVE  [v EXCEPT !.next = n, !.state = to] = [state |-> to, next |-> n, last |-> v.last]
<1> DEFINE R == [state : {"whole", "reading"}, next : Int, last : Int]
           w == [v EXCEPT !.next = n, !.state = to]
           z == [state |-> to, next |-> n, last |-> v.last]
<1>1. w \in R /\ w.state = to /\ w.next = n /\ w.last = v.last
  OBVIOUS
<1>2. z \in R /\ z.state = to /\ z.next = n /\ z.last = v.last
  OBVIOUS
<1>3. ASSUME NEW x \in R, NEW y \in R, x.state = y.state, x.next = y.next, x.last = y.last
      PROVE  x = y
  BY <1>3
<1> HIDE DEF w, z, R
<1>4. w = z
  BY <1>1, <1>2, <1>3
<1> QED BY <1>4 DEF w, z

(* The steps of a request are those of Download, or stutters.              *)
LEMMA ReaderRefines ==
  ASSUME TypeInv, PhaseInv, NEW r \in Readers, StartReader(r) \/ ReaderStep(r) \/ Disconnect(r)
  PROVE  D!DNext \/ UNCHANGED D!dvars
<1> DEFINE view == [q \in Readers |-> ReaderView(q)]
<1>1. /\ rpc \in [Readers -> ReaderPcs] /\ rpos \in [Readers -> 0 .. Size]
      /\ rlast \in [Readers -> Bytes]
  BY DEF TypeInv, TypeOK, ReaderTypeOK
<1>2. UNCHANGED <<tmp, verdict, present>>
  BY DEF StartReader, ReaderStep, Disconnect, OpenTemp, RequestFill, AwaitByte, FindLimit,
         SendBlock, SendFails, setVars, fileVars, driverVars
<1>3. UNCHANGED <<present, Outcome>>
  BY <1>2 DEF Outcome
<1>4. CASE StartReader(r)
  <2>1. PICK first, last \in Bytes :
          first <= last /\ rpos' = [rpos EXCEPT ![r] = first] /\ rlast' = [rlast EXCEPT ![r] = last]
    BY <1>4 DEF StartReader
  <2>2. rpc[r] = "idle" /\ rpc' = [rpc EXCEPT ![r] = "open"] /\ gone' = gone
    BY <1>4 DEF StartReader, RGoto
  <2>3. view[r].state = "idle"
    BY <2>2 DEF ReaderView, DState
  <2>4. view' = [view EXCEPT ![r] = [state |-> "asked", next |-> first, last |-> last]]
    BY <1>1, <2>1, <2>2 DEF ReaderView, DState
  <2>5. D!Ask(r)
    BY <1>3, <2>1, <2>2, <2>3, <2>4 DEF D!Ask, D!Bytes, Bytes
  <2> QED BY <2>5 DEF D!DNext
<1>5. CASE OpenTemp(r)
  <2>1. UNCHANGED <<rpos, rlast, gone>> /\ rpc[r] = "open"
    BY <1>5 DEF OpenTemp
  <2>2. view[r].state = "asked"
    BY <2>1 DEF ReaderView, DState
  <2>3. CASE tmp = "tmp"
    <3>1. rpc' = [rpc EXCEPT ![r] = "request"]
      BY <1>5, <2>3 DEF OpenTemp, RGoto
    <3>2. view' = [view EXCEPT ![r].state = "reading"]
      BY <1>1, <2>1, <3>1 DEF ReaderView, DState
    <3>3. D!Begin(r)
      BY <1>3, <2>1, <2>2, <3>2 DEF D!Begin, D!Become
    <3> QED BY <3>3 DEF D!DNext
  <2>4. CASE tmp # "tmp"
    <3>1. rpc' = [rpc EXCEPT ![r] = "late"]
      BY <1>5, <2>4 DEF OpenTemp, RGoto
    <3>2. view' = [view EXCEPT ![r].state = "late"]
      BY <1>1, <2>1, <3>1 DEF ReaderView, DState
    <3>3. Outcome # "running"
      BY <2>4 DEF Outcome, PhaseInv, TypeInv, TypeOK, FileTypeOK
    <3>4. D!MissIt(r)
      BY <1>3, <2>1, <2>2, <3>2, <3>3 DEF D!MissIt, D!Become
    <3> QED BY <3>4 DEF D!DNext
  <2> QED BY <2>3, <2>4
<1>6. CASE RequestFill(r) \/ FindLimit(r)
  <2>1. /\ UNCHANGED <<rpos, rlast, gone>> /\ rpc[r] \in {"request", "limit"}
        /\ \E pc \in {"await", "send"} : rpc' = [rpc EXCEPT ![r] = pc]
    BY <1>6 DEF RequestFill, FindLimit, RGoto
  <2>2. \A q \in Readers : DState(q)' = DState(q)
    BY <1>1, <2>1 DEF DState
  <2> QED BY <1>2, <2>1, <2>2, Stutter
<1>7. ASSUME rpc[r] \in {"await", "send"}, rpc' = [rpc EXCEPT ![r] = "cut"],
             UNCHANGED <<rpos, rlast, gone>>, r \in gone \/ Outcome = "failed"
      PROVE  D!DNext
  <2>1. view[r].state = "reading" /\ view' = [view EXCEPT ![r].state = "cut"]
    BY <1>1, <1>7 DEF ReaderView, DState
  <2>2. D!CutShort(r)
    BY <1>3, <1>7, <2>1 DEF D!CutShort, D!Become
  <2> QED BY <2>2 DEF D!DNext
<1>8. CASE AwaitByte(r)
  <2>1. UNCHANGED <<rpos, rlast, gone>> /\ rpc[r] = "await"
    BY <1>8 DEF AwaitByte
  <2>2. CASE rpc' = rpc \/ rpc' = [rpc EXCEPT ![r] = "limit"]
    <3>1. \A q \in Readers : DState(q)' = DState(q)
      BY <1>1, <2>1, <2>2 DEF DState
    <3> QED BY <1>2, <2>1, <3>1, Stutter
  <2>3. CASE rpos[r] \notin present /\ (r \in gone \/ done) /\ rpc' = [rpc EXCEPT ![r] = "cut"]
    <3>1. rpos[r] \in Bytes
      BY <1>1, <2>1, SparseAssumption DEF TypeInv, ReaderShape, Bytes
    <3>2. r \in gone \/ Outcome = "failed"
      BY <2>3, <3>1 DEF PhaseInv, Outcome
    <3> QED BY <1>7, <2>1, <2>3, <3>2
  <2> QED BY <1>8, <2>2, <2>3 DEF AwaitByte, ByteReady, RGoto
<1>9. CASE SendBlock(r)
  <2>1. /\ UNCHANGED <<rlast, gone>> /\ rpc[r] = "send" /\ rpos' = [rpos EXCEPT ![r] = rpos[r] + 1]
        /\ rpc' = [rpc EXCEPT ![r] = IF rpos[r] + 1 < rlim[r] THEN "send"
                                    ELSE IF rpos[r] + 1 <= rlast[r] THEN "request" ELSE "whole"]
    BY <1>9 DEF SendBlock, RGoto
  <2>2. /\ rpos[r] \in Int /\ rlast[r] \in Int /\ rlim[r] \in Int
        /\ rpos[r] < rlim[r] /\ rlim[r] <= rlast[r] + 1 /\ rpos[r] .. rlim[r] - 1 \subseteq present
    BY <2>1, SparseAssumption DEF TypeInv, TypeOK, ReaderTypeOK, ReaderShape, Bytes
  <2>3. rpos[r] \in present /\ (rpos[r] = rlast[r] <=> ~(rpos[r] + 1 <= rlast[r]))
    BY <2>2
  <2>4. /\ view[r].state = "reading" /\ view[r].next = rpos[r] /\ view[r].last = rlast[r]
    BY <2>1 DEF ReaderView, DState
  <2>5. DState(r)' = IF rpos[r] = rlast[r] THEN "whole" ELSE "reading"
    BY <1>1, <2>1, <2>2, <2>3 DEF DState
  <2>6. \A q \in Readers \ {r} : ReaderView(q)' = ReaderView(q)
    BY <1>1, <2>1 DEF ReaderView, DState
  <2>7. ReaderView(r)' = [state |-> IF rpos[r] = rlast[r] THEN "whole" ELSE "reading",
                          next |-> rpos[r] + 1, last |-> rlast[r]]
    BY <1>1, <2>1, <2>5 DEF ReaderView
  <2>8. view' = [view EXCEPT ![r].next = @ + 1,
                             ![r].state = IF view[r].next = view[r].last
                                          THEN "whole" ELSE "reading"]
    <3>1. view[r] \in [state : {"whole", "reading"}, next : Int, last : Int]
      BY <2>2, <2>4 DEF ReaderView
    <3> DEFINE to == IF rpos[r] = rlast[r] THEN "whole" ELSE "reading"
               after == [state |-> to, next |-> rpos[r] + 1, last |-> rlast[r]]
    <3>2. to \in {"whole", "reading"} /\ rpos[r] + 1 \in Int
      BY <2>2
    <3>3. view' = [q \in Readers |-> IF q = r THEN after ELSE view[q]]
      BY <2>6, <2>7
    <3>4. view' = [view EXCEPT ![r] = after]
      BY <3>3
    <3>5. to = IF view[r].next = view[r].last THEN "whole" ELSE "reading"
      BY <2>4
    <3>6. after = [state |-> to, next |-> rpos[r] + 1, last |-> view[r].last]
      BY <2>4
    <3> HIDE DEF view, to, after
    <3>7. [view[r] EXCEPT !.next = rpos[r] + 1, !.state = to]
            = [state |-> to, next |-> rpos[r] + 1, last |-> view[r].last]
      BY <3>1, <3>2, SentView
    <3>8. view[r].next + 1 = rpos[r] + 1
      BY <2>4
    <3> QED BY <3>4, <3>5, <3>6, <3>7, <3>8
  <2>9. D!Send(r)
    BY <1>3, <2>1, <2>3, <2>4, <2>8 DEF D!Send
  <2> QED BY <2>9 DEF D!DNext
<1>10. CASE SendFails(r)
  <2>1. /\ UNCHANGED <<rpos, rlast, gone>> /\ rpc[r] = "send"
        /\ \/ rpc' = [rpc EXCEPT ![r] = "request"]
           \/ rpc' = [rpc EXCEPT ![r] = "cut"] /\ r \in gone
    BY <1>10 DEF SendFails, RGoto
  <2>2. CASE rpc' = [rpc EXCEPT ![r] = "request"]
    <3>1. \A q \in Readers : DState(q)' = DState(q)
      BY <1>1, <2>1, <2>2 DEF DState
    <3> QED BY <1>2, <2>1, <3>1, Stutter
  <2> QED BY <1>7, <2>1, <2>2
<1>11. CASE Disconnect(r)
  <2>1. UNCHANGED <<rpc, rpos, rlast>> /\ gone' = gone \cup {r}
    BY <1>11 DEF Disconnect
  <2>2. view' = view
    BY <2>1 DEF ReaderView, DState
  <2>3. D!Disconnect(r)
    BY <1>3, <2>1, <2>2 DEF D!Disconnect
  <2> QED BY <2>3 DEF D!DNext
<1> QED BY <1>4, <1>5, <1>6, <1>8, <1>9, <1>10, <1>11 DEF ReaderStep

(* So are the steps of the job: a mark arrives, the rename publishes, the  *)
(* verdict fails.                                                          *)
LEMMA JobRefines ==
  ASSUME TypeInv, PhaseInv, TypeInv', [Next]_vars, UNCHANGED readerVars
  PROVE  D!DNext \/ UNCHANGED D!dvars
<1>1. UNCHANGED <<gone, [q \in Readers |-> ReaderView(q)]>>
  BY DEF readerVars, ReaderView, DState
<1>2. CASE UNCHANGED <<tmp, verdict>> /\ present' # present
  <2>1. tmp # "cached"
    BY <1>2, PresentGrows DEF PhaseInv, TypeInv, TypeOK, FileTypeOK
  <2>2. Outcome # "cached" /\ UNCHANGED Outcome
    BY <1>2, <2>1 DEF Outcome
  <2>3. present' = present \cup present' /\ present' \in SUBSET D!Bytes
    BY PresentGrows DEF TypeInv, TypeOK, FileTypeOK, D!Bytes, Bytes
  <2>4. D!Arrive
    BY <1>1, <2>2, <2>3 DEF D!Arrive
  <2> QED BY <2>4 DEF D!DNext
<1>3. CASE Verdict \/ Publish \/ RemoveTemp
  <2>1. UNCHANGED present
    BY <1>3 DEF Verdict, Publish, RemoveTemp, setVars
  <2>2. CASE UNCHANGED Outcome
    BY <1>1, <2>1, <2>2 DEF D!dvars
  <2>3. CASE Outcome' # Outcome
    <3>1. Outcome = "running" /\ Outcome' \in {"cached", "failed"}
      BY <1>3, <2>3 DEF Verdict, Publish, RemoveTemp, Outcome, PhaseInv, Ending, fileVars
    <3>2. Outcome' = "cached" => present = Bytes
      BY <1>3, <3>1 DEF Verdict, Publish, RemoveTemp, Outcome, PhaseInv, Ending, fileVars
    <3>3. D!Publish \/ D!Fail
      BY <1>1, <2>1, <3>1, <3>2 DEF D!Publish, D!Fail, D!Bytes, Bytes
    <3> QED BY <3>3 DEF D!DNext
  <2> QED BY <2>2, <2>3
<1>4. CASE ~(Verdict \/ Publish \/ RemoveTemp)
  <2>1. UNCHANGED <<tmp, verdict>>
    BY <1>4, DriverFrame, FileFrame
       DEF DriverStep, LoopTest, ReserveLowest, WaitProgress, WaitReturns, FillReturned, CloseWriter,
           CloseDescriptor, MarkDone, Return, Timeout, WriteDisk, MarkPresent, ReleaseInflight,
           RequestFill, fileVars, driverVars
  <2> QED BY <1>2, <2>1, QuietReaders
<1> QED BY <1>3, <1>4

(* Together: every step is one of Download or a stutter.                   *)
LEMMA StepRefines ==
  TypeInv /\ TypeInv' /\ PhaseInv /\ [Next]_vars => [D!DNext]_(D!dvars)
BY ReaderRefines, JobRefines, ReaderFrame

(* Every behaviour of sparse mode is one of the Download it promises.      *)
THEOREM Refinement == Spec => IsDownload
<1> QED
  BY InitRefines, StepRefines, TypeInvInit, ResInvInit, PhaseInit, TypeInvStep, ResInvStep,
     PhaseStep, PTL DEF Spec, IsDownload, D!DSpec
=============================================================================
