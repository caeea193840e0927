----------------------- MODULE SequentialDownloadProofs -----------------------
(***************************************************************************)
(* Proofs about SequentialDownload, for every size, read, pipe and set of  *)
(* readers, in both modes.                                                 *)
(***************************************************************************)
EXTENDS SequentialDownload, TLAPS

-----------------------------------------------------------------------------
(* The inductive invariant                                                 *)

Starting == {"open", "announce", "create"}
Copying  == {"check", "read", "write", "progress"}
Closing  == {"close", "wait"}
Over     == {"cleanup", "return", "returned"}

(* The upstream has nothing more to give, and all of it was taken.         *)
Drained == IF remux THEN piped = 0 /\ ffmpeg # "running" ELSE written + got = Size

(* Where the driver is, what it holds and what is in the file.             *)
CopyInv ==
  /\ written <= onDisk
  /\ dpc \in Starting => tmp = "absent" /\ onDisk = 0 /\ got = 0
  /\ dpc \in Copying => tmp = "tmp"
  /\ dpc \in Starting \cup Copying => ~failed
  /\ dpc \in {"check", "read"} => got = 0 /\ onDisk = written
  /\ dpc = "write" => onDisk = written /\ written + got <= Size
  /\ dpc = "progress" => onDisk = written + got
  /\ dpc \in {"write", "progress"} /\ status = "eof" => Drained
  /\ dpc \in Closing => tmp = "tmp" /\ (~failed => got = 0 /\ onDisk = written /\ Drained)
  /\ dpc \in Starting \cup {"check", "read"} => status = "none"

(* What ffmpeg wrote is in the file, in the driver's buffer or in the pipe.*)
PipeInv ==
  /\ ffmpeg = "ok" => output = Size
  /\ dpc \in Starting \cup Copying \/ (dpc \in Closing /\ ~failed) =>
       (remux => written + got + piped = output)

(* How the job ends.                                                       *)
EndInv ==
  /\ dpc = "publish" => tmp = "tmp" /\ ~failed /\ onDisk = Size /\ written = Size
  /\ dpc = "finish" => (failed <=> tmp # "cached")
  /\ tmp = "cached" => onDisk = Size /\ written = Size /\ dpc \in {"finish", "return", "returned"}
  /\ done <=> dpc \in Over
  /\ err => done
  /\ done => (err <=> tmp # "cached")
  /\ tmp = "removed" => err

(* The readers, and what they have been told.                              *)
ReaderInv ==
  /\ remux => ~sized
  /\ lengthKnown => sized
  /\ dpc = "announce" => ~remux
  /\ sized /\ (dpc = "create" \/ tmp # "absent") => lengthKnown
  /\ \A r \in Readers :
       /\ rpos[r] <= onDisk
       /\ rpc[r] \in {"idle", "open", "header", "early", "late"} => rpos[r] = 0
       /\ rpc[r] = "header" => lengthKnown = sized
       /\ rpc[r] \in {"read", "tail", "whole", "cut", "broken"} => rlength[r] = sized
       /\ rpc[r] = "whole" => rpos[r] = Size
       /\ r \in sleeping => rpc[r] = "tail" /\ rpos[r] >= written /\ ~done

IInv == TypeOK /\ CopyInv /\ PipeInv /\ EndInv /\ ReaderInv

-----------------------------------------------------------------------------
(* The invariant holds                                                     *)

(* It holds when the job starts.                                           *)
LEMMA InitInv == Init => IInv
<1> SUFFICES ASSUME Init
             PROVE  IInv
  OBVIOUS
<1> USE SequentialAssumption DEF Init
<1>1. TypeOK
  <2>1. remux \in BOOLEAN /\ sized \in BOOLEAN
    BY Zenon
  <2>2. rpc \in [Readers -> ReaderPcs] /\ rpos \in [Readers -> 0 .. Size] /\ rlength \in [Readers -> BOOLEAN]
    BY DEF ReaderPcs
  <2>3. dpc \in DriverPcs /\ got \in 0 .. MaxRead /\ status \in {"none", "eof", "error"}
    BY DEF DriverPcs
  <2>4. failed \in BOOLEAN /\ ctxDone \in BOOLEAN /\ lengthKnown \in BOOLEAN /\ done \in BOOLEAN /\ err \in BOOLEAN
    OBVIOUS
  <2>5. /\ ffmpeg \in {"running", "ok", "bad"} /\ output \in 0 .. Size /\ piped \in 0 .. Pipe
        /\ tmp \in {"absent", "tmp", "cached", "removed"} /\ onDisk \in 0 .. Size /\ written \in 0 .. Size
        /\ sleeping \subseteq Readers /\ gone \subseteq Readers
    OBVIOUS
  <2> QED BY <2>1, <2>2, <2>3, <2>4, <2>5, Zenon DEF TypeOK
<1>2. CopyInv
  BY DEF CopyInv, Starting, Copying, Closing
<1>3. PipeInv
  BY DEF PipeInv, Starting, Copying, Closing
<1>4. EndInv
  BY DEF EndInv, Over
<1>5. ReaderInv
  BY DEF ReaderInv
<1> QED BY <1>1, <1>2, <1>3, <1>4, <1>5 DEF IInv

(* A step of the driver keeps every part of it.                            *)
LEMMA DriverKeeps ==
  ASSUME IInv, DriverStep
  PROVE  TypeOK' /\ CopyInv' /\ PipeInv' /\ EndInv' /\ ReaderInv'
<1> USE SequentialAssumption
<1> USE DEF IInv, TypeOK, CopyInv, PipeInv, EndInv, ReaderInv, Drained, DriverPcs, Starting, Copying,
            Closing, Over, Goto, Broadcast, copyVars, ffmpegVars, fileVars, jobVars, readerVars
<1>1. CASE OpenUpstream
  <2>1. TypeOK'
    BY <1>1 DEF OpenUpstream, AfterOpen
  <2>2. CopyInv'
    BY <1>1 DEF OpenUpstream, AfterOpen
  <2>3. PipeInv'
    BY <1>1 DEF OpenUpstream, AfterOpen
  <2>4. EndInv'
    BY <1>1 DEF OpenUpstream, AfterOpen
  <2>5. ReaderInv'
    BY <1>1 DEF OpenUpstream, AfterOpen
  <2> QED BY <2>1, <2>2, <2>3, <2>4, <2>5
<1>2. CASE Announce
  BY <1>2 DEF Announce
<1>3. CASE CreateFile
  <2>1. TypeOK'
    BY <1>3 DEF CreateFile
  <2>2. CopyInv'
    BY <1>3 DEF CreateFile
  <2>3. PipeInv'
    BY <1>3 DEF CreateFile
  <2>4. EndInv'
    BY <1>3 DEF CreateFile
  <2>5. ReaderInv'
    BY <1>3 DEF CreateFile
  <2> QED BY <2>1, <2>2, <2>3, <2>4, <2>5
<1>4. CASE CheckContext
  BY <1>4 DEF CheckContext
<1>5. CASE ReadBody
  BY <1>5 DEF ReadBody
<1>6. CASE ReadPipe
  BY <1>6 DEF ReadPipe
<1>7. CASE WriteFile
  <2>1. TypeOK'
    <3>1. onDisk' \in 0 .. Size
      BY <1>7 DEF WriteFile
    <3>2. dpc' \in DriverPcs /\ failed' \in BOOLEAN
      BY <1>7 DEF WriteFile
    <3> QED BY <1>7, <3>1, <3>2 DEF WriteFile
  <2>2. CopyInv'
    BY <1>7 DEF WriteFile
  <2>3. PipeInv'
    BY <1>7 DEF WriteFile
  <2>4. EndInv'
    BY <1>7 DEF WriteFile
  <2>5. ReaderInv'
    BY <1>7 DEF WriteFile
  <2> QED BY <2>1, <2>2, <2>3, <2>4, <2>5
<1>8. CASE PublishProgress
  <2>1. TypeOK'
    BY <1>8 DEF PublishProgress, Advanced, ReadFailed
  <2>2. CopyInv'
    <3>1. onDisk' = onDisk /\ onDisk = written + got /\ written' = onDisk /\ got' = 0 /\ status' = "none"
      BY <1>8 DEF PublishProgress, Advanced, ReadFailed
    <3>2. dpc' = IF status = "none" THEN "check" ELSE "close"
      BY <1>8 DEF PublishProgress, Advanced, ReadFailed
    <3>3. failed' = (status = "error") /\ tmp' = tmp /\ tmp = "tmp"
      BY <1>8 DEF PublishProgress, Advanced, ReadFailed
    <3>4. status = "eof" => Drained'
      <4>1. UNCHANGED <<remux, piped, ffmpeg>>
        BY <1>8 DEF PublishProgress
      <4> QED BY <1>8, <3>1, <4>1 DEF PublishProgress
    <3>5. CASE status = "none"
      BY <3>1, <3>2, <3>3, <3>5
    <3>6. CASE status = "eof"
      BY <3>1, <3>2, <3>3, <3>4, <3>6
    <3>7. CASE status = "error"
      <4>1. failed' /\ dpc' = "close" /\ tmp' = "tmp"
        BY <3>2, <3>3, <3>7
      <4>2. written' <= onDisk'
        BY <3>1
      <4> QED BY <4>1, <4>2
    <3> QED BY <3>5, <3>6, <3>7
  <2>3. PipeInv'
    BY <1>8 DEF PublishProgress, Advanced, ReadFailed
  <2>4. EndInv'
    BY <1>8 DEF PublishProgress, Advanced, ReadFailed
  <2>5. ReaderInv'
    BY <1>8 DEF PublishProgress, Advanced, ReadFailed
  <2> QED BY <2>1, <2>2, <2>3, <2>4, <2>5
<1>9. CASE CloseFile
  <2>1. failed' \in BOOLEAN /\ (failed => failed')
    BY <1>9, Zenon DEF CloseFile
  <2>2. dpc' = IF remux THEN "wait" ELSE IF failed' THEN "finish" ELSE "publish"
    BY <1>9 DEF CloseFile
  <2>3. CASE failed'
    BY <1>9, <2>1, <2>2, <2>3 DEF CloseFile
  <2>4. CASE ~failed'
    BY <1>9, <2>1, <2>2, <2>4 DEF CloseFile
  <2> QED BY <2>1, <2>3, <2>4
<1>10. CASE WaitFfmpeg
  BY <1>10 DEF WaitFfmpeg, WaitFails
<1>11. CASE Publish
  <2>1. TypeOK'
    BY <1>11 DEF Publish
  <2>2. CopyInv'
    BY <1>11 DEF Publish
  <2>3. PipeInv'
    BY <1>11 DEF Publish
  <2>4. EndInv'
    BY <1>11 DEF Publish
  <2>5. ReaderInv'
    BY <1>11 DEF Publish
  <2> QED BY <2>1, <2>2, <2>3, <2>4, <2>5
<1>12. CASE MarkDone
  BY <1>12 DEF MarkDone
<1>13. CASE RemoveTemp
  BY <1>13 DEF RemoveTemp
<1>14. CASE Return
  BY <1>14 DEF Return
<1> QED BY <1>1, <1>2, <1>3, <1>4, <1>5, <1>6, <1>7, <1>8, <1>9, <1>10, <1>11, <1>12, <1>13, <1>14
        DEF DriverStep

(* So does the end of the context, and a step of ffmpeg.                   *)
LEMMA EnvKeeps ==
  ASSUME IInv, Timeout \/ FfmpegWrites \/ FfmpegEnds \/ FfmpegFails \/ FfmpegKilled
  PROVE  IInv'
<1> USE SequentialAssumption
<1> USE DEF IInv, TypeOK, CopyInv, PipeInv, EndInv, ReaderInv, Drained, DriverPcs, Starting, Copying,
            Closing, Over, copyVars, ffmpegVars, fileVars, jobVars, readerVars
<1>1. CASE Timeout
  BY <1>1 DEF Timeout
<1>2. CASE FfmpegWrites
  BY <1>2 DEF FfmpegWrites, Started
<1>3. CASE FfmpegEnds
  BY <1>3 DEF FfmpegEnds, Started, Exits
<1>4. CASE FfmpegFails \/ FfmpegKilled
  BY <1>4 DEF FfmpegFails, FfmpegKilled, Started, Exits
<1> QED BY <1>1, <1>2, <1>3, <1>4

(* A step of a reader leaves the job alone and keeps the reader's part.    *)
LEMMA ReaderKeeps ==
  ASSUME IInv, NEW r \in Readers, StartReader(r) \/ ReaderStep(r) \/ Disconnect(r)
  PROVE  IInv'
<1> USE SequentialAssumption
<1> USE DEF copyVars, ffmpegVars, fileVars, jobVars, readerVars
<1>1. /\ UNCHANGED <<dpc, got, status, failed, ctxDone, remux, sized, ffmpeg, output, piped, tmp, onDisk>>
      /\ UNCHANGED <<lengthKnown, written, done, err>>
  BY DEF StartReader, ReaderStep, OpenTemp, SendHeader, ReadFile, TailWait, Disconnect
<1>2. CopyInv' /\ PipeInv' /\ EndInv'
  BY <1>1 DEF IInv, CopyInv, PipeInv, EndInv, Drained, Starting, Copying, Closing, Over
<1>3. TypeOK' /\ ReaderInv'
  <2> USE <1>1 DEF IInv, TypeOK, ReaderInv, ReaderPcs, RGoto
  <2>1. CASE StartReader(r)
    BY <2>1 DEF StartReader
  <2>2. CASE OpenTemp(r)
    <3>1. rpc' \in [Readers -> ReaderPcs]
      BY <2>2 DEF OpenTemp
    <3>2. tmp = "tmp" => lengthKnown = sized
      OBVIOUS
    <3> QED BY <2>2, <3>1, <3>2 DEF OpenTemp
  <2>3. CASE SendHeader(r)
    BY <2>3 DEF SendHeader
  <2>4. CASE ReadFile(r)
    BY <2>4 DEF ReadFile
  <2>5. CASE TailWait(r)
    BY <2>5 DEF TailWait, MoreToRead, EndOfFailed, EndInv
  <2>6. CASE Disconnect(r)
    BY <2>6 DEF Disconnect
  <2> QED BY <2>1, <2>2, <2>3, <2>4, <2>5, <2>6 DEF ReaderStep
<1> QED BY <1>2, <1>3 DEF IInv

(* The invariant is inductive.                                             *)
LEMMA NextKeeps == IInv /\ [Next]_vars => IInv'
<1> SUFFICES ASSUME IInv, [Next]_vars
             PROVE  IInv'
  OBVIOUS
<1>1. CASE DriverStep
  BY <1>1, DriverKeeps DEF IInv
<1>2. CASE Timeout \/ FfmpegWrites \/ FfmpegEnds \/ FfmpegFails \/ FfmpegKilled
  BY <1>2, EnvKeeps
<1>3. ASSUME NEW r \in Readers, StartReader(r) \/ ReaderStep(r) \/ Disconnect(r)
      PROVE  IInv'
  BY <1>3, ReaderKeeps
<1>4. CASE AllOver \/ UNCHANGED vars
  <2>1. UNCHANGED vars
    BY <1>4 DEF AllOver
  <2> USE <2>1 DEF vars, copyVars, ffmpegVars, fileVars, jobVars, readerVars
  <2>2. TypeOK'
    BY DEF IInv, TypeOK
  <2>3. CopyInv' /\ PipeInv'
    BY DEF IInv, CopyInv, PipeInv, Drained, Starting, Copying, Closing
  <2>4. EndInv'
    BY DEF IInv, EndInv, Drained, Starting, Copying, Closing, Over
  <2>5. ReaderInv'
    BY DEF IInv, ReaderInv
  <2> QED BY <2>2, <2>3, <2>4, <2>5 DEF IInv
<1> QED BY <1>1, <1>2, <1>3, <1>4 DEF Next

(* So it holds in every state of a job.                                    *)
LEMMA Invariance == Spec => []IInv
<1> QED BY InitInv, NextKeeps, PTL DEF Spec

-----------------------------------------------------------------------------
(* Every variable keeps its shape: the file holds a prefix of the video, a *)
(* reader is in it, the pipe never overflows.                              *)
THEOREM TypeCorrect == Spec => []TypeOK
<1>1. IInv => TypeOK
  BY DEF IInv
<1> QED BY <1>1, Invariance, PTL

(* The file that runSequential or runRemux renames into the cache holds    *)
(* the whole video, however the upstream, ffmpeg, the disk and the timeout *)
(* behave.                                                                 *)
THEOREM CacheContent == Spec => []CachedIsWhole
<1>1. IInv => CachedIsWhole
  BY DEF IInv, EndInv, CachedIsWhole
<1> QED BY <1>1, Invariance, PTL

(* A tailReader that ends with EOF has delivered the whole video.          *)
THEOREM WholeStreams == Spec => []WholeIsWhole
<1>1. IInv => WholeIsWhole
  BY DEF IInv, ReaderInv, WholeIsWhole
<1> QED BY <1>1, Invariance, PTL

(* No wakeup of a tailReader is lost: what it waits for has not happened.  *)
THEOREM NoLostWakeup == Spec => []SleepersHaveReason
<1>1. IInv => SleepersHaveReason
  BY DEF IInv, TypeOK, ReaderInv, SleepersHaveReason
<1> QED BY <1>1, Invariance, PTL

(* serveLive sends a Content-Length exactly if the probe of a sequential   *)
(* job found one (runSequential, serveLive).                               *)
THEOREM LengthIsSent == Spec => []LengthSent
<1>1. IInv => LengthSent
  BY DEF IInv, ReaderInv, LengthSent
<1> QED BY <1>1, Invariance, PTL

-----------------------------------------------------------------------------
(* Both modes implement Download                                           *)

(* A prefix of the video is part of every longer one.                      *)
LEMMA PrefixGrows ==
  ASSUME NEW m \in Nat, NEW n \in Nat, m <= n
  PROVE  0 .. m - 1 \subseteq 0 .. n - 1
OBVIOUS

(* At the start nothing has arrived and nobody has asked.                  *)
LEMMA InitRefines == Init => D!DInit
BY SequentialAssumption DEF Init, D!DInit, Outcome, ReaderView, DState

(* The steps of the job: what a write adds arrives, the rename publishes,  *)
(* and a failure is one when finishJob says so.                            *)
LEMMA JobRefines ==
  ASSUME IInv, IInv', [Next]_vars, UNCHANGED readerVars
  PROVE  D!DNext \/ UNCHANGED D!dvars
<1>1. UNCHANGED <<gone, [q \in Readers |-> ReaderView(q)]>>
  BY DEF readerVars, ReaderView, DState
<1>2. CASE WriteFile
  <2>1. tmp = "tmp" /\ UNCHANGED <<tmp, err>>
    BY <1>2 DEF WriteFile, IInv, CopyInv, Copying
  <2>2. Outcome # "cached" /\ UNCHANGED Outcome
    BY <2>1 DEF Outcome
  <2>3. onDisk \in 0 .. Size /\ onDisk' \in 0 .. Size /\ onDisk <= onDisk'
    BY <1>2, SequentialAssumption DEF WriteFile, IInv, TypeOK
  <2>4. 0 .. onDisk' - 1 = (0 .. onDisk - 1) \cup (0 .. onDisk' - 1)
    BY <2>3
  <2>5. 0 .. onDisk' - 1 \subseteq D!Bytes
    <3>1. Size \in Nat /\ onDisk' \in Nat /\ onDisk' <= Size
      BY <2>3, SequentialAssumption
    <3>2. 0 .. onDisk' - 1 \subseteq 0 .. Size - 1
      BY <3>1, PrefixGrows
    <3> QED BY <3>2 DEF D!Bytes
  <2>6. D!Arrive
    BY <1>1, <2>2, <2>4, <2>5 DEF D!Arrive
  <2> QED BY <2>6 DEF D!DNext
<1>3. CASE Publish
  <2>1. UNCHANGED <<onDisk, err>>
    BY <1>3 DEF Publish, jobVars
  <2>2. CASE tmp' = "cached"
    <3>1. Outcome = "running" /\ Outcome' = "cached" /\ onDisk = Size
      BY <1>3, <2>2 DEF Publish, IInv, EndInv, Over, Outcome
    <3>2. D!Publish
      BY <1>1, <2>1, <3>1 DEF D!Publish, D!Bytes
    <3> QED BY <3>2 DEF D!DNext
  <2>3. CASE UNCHANGED tmp
    BY <1>1, <2>1, <2>3 DEF D!dvars, Outcome
  <2> QED BY <1>3, <2>2, <2>3 DEF Publish
<1>4. CASE MarkDone
  <2>1. UNCHANGED <<onDisk, tmp>> /\ err' = failed
    BY <1>4 DEF MarkDone, fileVars
  <2>2. ~err /\ (failed <=> tmp # "cached")
    BY <1>4 DEF MarkDone, IInv, EndInv, Over
  <2>3. CASE failed
    <3>1. Outcome = "running" /\ Outcome' = "failed"
      BY <2>1, <2>2, <2>3 DEF Outcome
    <3>2. D!Fail
      BY <1>1, <2>1, <3>1 DEF D!Fail
    <3> QED BY <3>2 DEF D!DNext
  <2>4. CASE ~failed
    BY <1>1, <2>1, <2>2, <2>4 DEF D!dvars, Outcome
  <2> QED BY <2>3, <2>4
<1>5. CASE CreateFile \/ RemoveTemp
  <2>1. UNCHANGED <<onDisk, err>> /\ (tmp = "cached" <=> tmp' = "cached")
    BY <1>5 DEF CreateFile, RemoveTemp, IInv, CopyInv, Starting, jobVars
  <2> QED BY <1>1, <2>1 DEF D!dvars, Outcome
<1>6. CASE ~(WriteFile \/ Publish \/ MarkDone \/ CreateFile \/ RemoveTemp)
  <2>1. UNCHANGED <<onDisk, tmp, err>>
    BY <1>6 DEF Next, DriverStep, OpenUpstream, Announce, CheckContext, ReadBody, ReadPipe, PublishProgress,
         CloseFile, WaitFfmpeg, Return, Timeout, AllOver, FfmpegWrites, FfmpegEnds, FfmpegFails, FfmpegKilled,
         Exits, StartReader, ReaderStep, OpenTemp, SendHeader, ReadFile, TailWait, Disconnect, fileVars,
         jobVars, vars
  <2> QED BY <1>1, <2>1 DEF D!dvars, Outcome
<1> QED BY <1>2, <1>3, <1>4, <1>5, <1>6

(* The steps of a request.  A request for the last byte of a finished job  *)
(* is whole for Download as soon as that byte is sent.                     *)
LEMMA ReaderRefines ==
  ASSUME IInv, IInv', NEW r \in Readers, StartReader(r) \/ ReaderStep(r) \/ Disconnect(r)
  PROVE  D!DNext \/ UNCHANGED D!dvars
<1> USE SequentialAssumption
<1> DEFINE view == [q \in Readers |-> ReaderView(q)]
<1>1. /\ rpc \in [Readers -> ReaderPcs] /\ rpos \in [Readers -> 0 .. Size] /\ onDisk \in 0 .. Size
      /\ rpos[r] <= onDisk
  BY DEF IInv, TypeOK, ReaderInv
<1>2. UNCHANGED <<onDisk, tmp, err, Outcome>>
  BY DEF StartReader, ReaderStep, OpenTemp, SendHeader, ReadFile, TailWait, Disconnect, fileVars, jobVars, Outcome
<1>3. ASSUME UNCHANGED gone, view' = view
      PROVE  UNCHANGED D!dvars
  BY <1>2, <1>3 DEF D!dvars
<1>4. ASSUME NEW pc, rpc' = [rpc EXCEPT ![r] = pc], UNCHANGED <<rpos, gone>>,
             rpc[r] # "idle", pc # "idle", DState(r)' = DState(r)
      PROVE  UNCHANGED D!dvars
  <2>1. \A q \in Readers : ReaderView(q)' = ReaderView(q)
    BY <1>1, <1>4 DEF ReaderView, DState
  <2> QED BY <1>3, <1>4, <2>1
<1>5. ASSUME rpc[r] \in {"read", "tail"}, rpc' = [rpc EXCEPT ![r] = "cut"], UNCHANGED <<rpos, gone>>,
             r \in gone \/ Outcome = "failed"
      PROVE  D!DNext \/ UNCHANGED D!dvars
  <2>1. CASE rpos[r] = Size
    <3>1. DState(r)' = DState(r)
      BY <1>1, <1>5, <2>1 DEF DState
    <3> QED BY <1>4, <1>5, <3>1
  <2>2. CASE rpos[r] # Size
    <3>1. view[r].state = "reading" /\ view' = [view EXCEPT ![r].state = "cut"]
      BY <1>1, <1>5, <2>2 DEF ReaderView, DState
    <3>2. D!CutShort(r)
      BY <1>2, <1>5, <3>1 DEF D!CutShort, D!Become
    <3> QED BY <3>2 DEF D!DNext
  <2> QED BY <2>1, <2>2
<1>6. CASE StartReader(r)
  <2>1. rpc[r] = "idle" /\ rpc' = [rpc EXCEPT ![r] = "open"] /\ UNCHANGED <<rpos, gone>> /\ rpos[r] = 0
    BY <1>6 DEF StartReader, RGoto, IInv, ReaderInv
  <2>2. view[r].state = "idle"
    BY <2>1 DEF ReaderView, DState
  <2>3. view' = [view EXCEPT ![r] = [state |-> "asked", next |-> 0, last |-> Size - 1]]
    BY <1>1, <2>1 DEF ReaderView, DState
  <2>4. 0 \in D!Bytes /\ Size - 1 \in D!Bytes /\ 0 <= Size - 1
    BY DEF D!Bytes
  <2>5. D!Ask(r)
    BY <1>2, <2>1, <2>2, <2>3, <2>4 DEF D!Ask
  <2> QED BY <2>5 DEF D!DNext
<1>7. CASE OpenTemp(r)
  <2>1. UNCHANGED <<rpos, gone>> /\ rpc[r] = "open" /\ rpos[r] = 0
    BY <1>7 DEF OpenTemp, IInv, ReaderInv
  <2>2. view[r].state = "asked"
    BY <2>1 DEF ReaderView, DState
  <2>3. CASE tmp = "tmp"
    <3>1. rpc' = [rpc EXCEPT ![r] = "header"]
      BY <1>7, <2>3 DEF OpenTemp, RGoto
    <3>2. view' = [view EXCEPT ![r].state = "reading"]
      BY <1>1, <2>1, <3>1 DEF ReaderView, DState
    <3>3. D!Begin(r)
      BY <1>2, <2>1, <2>2, <3>2 DEF D!Begin, D!Become
    <3> QED BY <3>3 DEF D!DNext
  <2>4. CASE tmp = "absent"
    <3>1. rpc' = [rpc EXCEPT ![r] = "early"]
      BY <1>7, <2>4 DEF OpenTemp, RGoto
    <3>2. DState(r)' = DState(r)
      BY <1>1, <2>1, <3>1 DEF DState
    <3> QED BY <1>4, <2>1, <3>1, <3>2
  <2>5. CASE tmp \in {"cached", "removed"}
    <3>1. rpc' = [rpc EXCEPT ![r] = "late"]
      BY <1>7, <2>5 DEF OpenTemp, RGoto
    <3>2. view' = [view EXCEPT ![r].state = "late"]
      BY <1>1, <2>1, <3>1 DEF ReaderView, DState
    <3>3. Outcome # "running"
      BY <2>5 DEF Outcome, IInv, EndInv
    <3>4. D!MissIt(r)
      BY <1>2, <2>1, <2>2, <3>2, <3>3 DEF D!MissIt, D!Become
    <3> QED BY <3>4 DEF D!DNext
  <2> QED BY <2>3, <2>4, <2>5 DEF IInv, TypeOK
<1>8. CASE SendHeader(r)
  <2>1. UNCHANGED <<rpos, gone>> /\ rpc[r] = "header" /\ rpc' = [rpc EXCEPT ![r] = "read"]
    BY <1>8 DEF SendHeader, RGoto
  <2>2. DState(r)' = DState(r)
    BY <1>1, <2>1 DEF DState
  <2> QED BY <1>4, <2>1, <2>2
<1>9. CASE ReadFile(r)
  <2>1. UNCHANGED gone /\ rpc[r] = "read"
    BY <1>9 DEF ReadFile
  <2>2. CASE rpos[r] < onDisk /\ rpos' = [rpos EXCEPT ![r] = @ + 1] /\ UNCHANGED rpc
    <3>1. /\ view[r].state = "reading" /\ view[r].next = rpos[r] /\ view[r].last = Size - 1
          /\ rpos[r] \in 0 .. onDisk - 1 /\ rpos[r] \in Int /\ Size \in Int
      BY <1>1, <2>1, <2>2 DEF ReaderView, DState
    <3>2. \A q \in Readers \ {r} : ReaderView(q)' = ReaderView(q)
      BY <1>1, <2>2 DEF ReaderView, DState
    <3>3. ReaderView(r)' = [state |-> IF rpos[r] = Size - 1 THEN "whole" ELSE "reading",
                            next |-> rpos[r] + 1, last |-> Size - 1]
      <4>1. rpos'[r] = rpos[r] + 1 /\ rpc'[r] = "read"
        BY <1>1, <2>1, <2>2
      <4>2. rpos'[r] = Size <=> rpos[r] = Size - 1
        BY <3>1, <4>1
      <4> QED BY <4>1, <4>2 DEF ReaderView, DState
    <3>4. view' = [view EXCEPT ![r].next = @ + 1,
                               ![r].state = IF view[r].next = view[r].last THEN "whole" ELSE "reading"]
      BY <3>1, <3>2, <3>3 DEF ReaderView
    <3>5. D!Send(r)
      BY <1>2, <2>1, <3>1, <3>4 DEF D!Send
    <3> QED BY <3>5 DEF D!DNext
  <2>3. CASE UNCHANGED rpos /\ rpos[r] < onDisk /\ r \in gone /\ rpc' = [rpc EXCEPT ![r] = "cut"]
    BY <1>5, <2>1, <2>3
  <2>4. ASSUME NEW pc \in {"tail", "broken"}, UNCHANGED rpos, rpc' = [rpc EXCEPT ![r] = pc]
        PROVE  UNCHANGED D!dvars
    <3>1. DState(r)' = DState(r)
      BY <1>1, <2>1, <2>4 DEF DState
    <3> QED BY <1>4, <2>1, <2>4, <3>1
  <2> QED BY <1>9, <2>2, <2>3, <2>4 DEF ReadFile, RGoto
<1>10. CASE TailWait(r)
  <2>1. UNCHANGED <<rpos, gone>> /\ rpc[r] = "tail"
    BY <1>10 DEF TailWait
  <2>2. CASE r \in gone /\ rpc' = [rpc EXCEPT ![r] = "cut"]
    BY <1>5, <2>1, <2>2
  <2>3. CASE rpc' = [rpc EXCEPT ![r] = "read"]
    <3>1. DState(r)' = DState(r)
      BY <1>1, <2>1, <2>3 DEF DState
    <3> QED BY <1>4, <2>1, <2>3, <3>1
  <2>4. CASE done /\ err /\ rpc' = [rpc EXCEPT ![r] = "cut"]
    <3>1. Outcome = "failed"
      BY <2>4 DEF Outcome, IInv, EndInv
    <3> QED BY <1>5, <2>1, <2>4, <3>1
  <2>5. CASE rpc' = [rpc EXCEPT ![r] = "whole"]
    <3>1. rpc'[r] = "whole" /\ rpos'[r] = Size
      BY <1>1, <2>5 DEF IInv, ReaderInv
    <3>2. DState(r)' = DState(r)
      BY <1>1, <2>1, <3>1 DEF DState
    <3> QED BY <1>4, <2>1, <2>5, <3>2
  <2>6. CASE UNCHANGED rpc
    <3>1. view' = view
      BY <2>1, <2>6 DEF ReaderView, DState
    <3> QED BY <1>3, <2>1, <3>1
  <2> QED BY <1>10, <2>2, <2>3, <2>4, <2>5, <2>6 DEF TailWait, RGoto, EndOfFailed
<1>11. CASE Disconnect(r)
  <2>1. UNCHANGED <<rpc, rpos>> /\ gone' = gone \cup {r}
    BY <1>11 DEF Disconnect
  <2>2. view' = view
    BY <2>1 DEF ReaderView, DState
  <2>3. D!Disconnect(r)
    BY <1>2, <2>1, <2>2 DEF D!Disconnect
  <2> QED BY <2>3 DEF D!DNext
<1> QED BY <1>6, <1>7, <1>8, <1>9, <1>10, <1>11 DEF ReaderStep

(* Together: every step is one of Download or a stutter.                   *)
LEMMA StepRefines == IInv /\ IInv' /\ [Next]_vars => [D!DNext]_(D!dvars)
<1> SUFFICES ASSUME IInv, IInv', [Next]_vars
             PROVE  D!DNext \/ UNCHANGED D!dvars
  OBVIOUS
<1>1. ASSUME NEW r \in Readers, StartReader(r) \/ ReaderStep(r) \/ Disconnect(r)
      PROVE  D!DNext \/ UNCHANGED D!dvars
  BY <1>1, ReaderRefines
<1>2. CASE DriverStep
  <2>1. UNCHANGED readerVars
    BY <1>2 DEF DriverStep, OpenUpstream, Announce, CreateFile, CheckContext, ReadBody, ReadPipe, WriteFile,
         PublishProgress, CloseFile, WaitFfmpeg, Publish, MarkDone, RemoveTemp, Return
  <2> QED BY <2>1, JobRefines
<1>3. CASE \/ Timeout \/ AllOver \/ UNCHANGED vars
           \/ FfmpegWrites \/ FfmpegEnds \/ FfmpegFails \/ FfmpegKilled
  <2>1. UNCHANGED readerVars
    BY <1>3 DEF Timeout, AllOver, FfmpegWrites, FfmpegEnds, FfmpegFails, FfmpegKilled, Exits, vars
  <2> QED BY <2>1, JobRefines
<1> QED BY <1>1, <1>2, <1>3 DEF Next

(* Every behaviour of a sequential or remux job, with any number of live   *)
(* requests, is one of Download: bytes are sent in order and only after    *)
(* they arrived, the job ends once, and nobody is cut short without cause. *)
THEOREM Refinement == Spec => IsDownload
<1> QED
  BY InitRefines, StepRefines, Invariance, PTL DEF Spec, IsDownload, D!DSpec
=============================================================================
