------------------------- MODULE SequentialDownload -------------------------
(***************************************************************************)
(* One download job that streams its video in order (jobs.go, ffmpeg.go,   *)
(* serve.go), from the close of job.ready to the return of run:            *)
(*                                                                         *)
(*   - the driver, runSequential or runRemux and the end of run: it copies *)
(*     the upstream body, or the output of ffmpeg, to the temp file and    *)
(*     publishes how much of it is written;                                *)
(*   - ffmpeg, in a remux job: it fills the pipe the driver reads;         *)
(*   - the readers, serveLive over a tailReader: one live request each,    *)
(*     from offset 0 to wherever the job ends.                             *)
(*                                                                         *)
(* Offsets are blocks, and the temp file is the prefix of the video it     *)
(* holds, onDisk blocks of it.                                             *)
(***************************************************************************)
EXTENDS Integers

CONSTANTS
  Size,        \* blocks of the video
  MaxRead,     \* the most blocks one Read of the upstream returns
  Pipe,        \* blocks the pipe from ffmpeg holds
  Readers      \* live requests (a bound)

ASSUME SequentialAssumption ==
  /\ Size \in Nat \ {0} /\ MaxRead \in Nat \ {0} /\ Pipe \in Nat \ {0}

VARIABLES
  dpc,                  \* where the driver is
  got, status,          \* what Read returned: blocks, and "none", "eof" or "error"
  failed,               \* an error is on its way to run's err
  ctxDone,              \* the job's context has ended
  remux,                \* Job.remux: ffmpeg is the upstream
  sized,                \* Job.size >= 0: the probe found a length
  ffmpeg,               \* "running", "ok" or "bad" once it has exited
  output, piped,        \* blocks ffmpeg has written; those still in the pipe
  tmp,                  \* the file: "absent", "tmp", "cached" or "removed"
  onDisk,               \* blocks of the video in it
  lengthKnown,          \* Job.contentLength >= 0
  written, done, err,   \* Job.written, Job.done, and Job.err # nil
  sleeping,             \* the readers in job.cond.Wait
  rpc, rpos, rlength,   \* per reader: where it is, its position, Content-Length sent
  gone                  \* the readers whose client disconnected

copyVars   == <<got, status>>
ffmpegVars == <<remux, sized, ffmpeg, output, piped>>
fileVars   == <<tmp, onDisk>>
jobVars    == <<lengthKnown, written, done, err>>
readerVars == <<rpc, rpos, rlength, gone>>
vars == <<dpc, copyVars, failed, ctxDone, ffmpegVars, fileVars, jobVars, sleeping, readerVars>>

DriverPcs == {"open", "announce", "create", "check", "read", "write", "progress", "close",
              "wait", "publish", "finish", "cleanup", "return", "returned"}
ReaderPcs == {"idle", "open", "header", "read", "tail", "whole", "cut", "broken", "early", "late"}

Init ==
  /\ dpc = "open" /\ got = 0 /\ status = "none" /\ failed = FALSE /\ ctxDone = FALSE
  /\ remux \in BOOLEAN /\ sized \in BOOLEAN /\ (remux => ~sized)
  /\ ffmpeg = "running" /\ output = 0 /\ piped = 0
  /\ tmp = "absent" /\ onDisk = 0
  /\ lengthKnown = FALSE /\ written = 0 /\ done = FALSE /\ err = FALSE
  /\ sleeping = {} /\ gone = {}
  /\ rpc = [r \in Readers |-> "idle"] /\ rpos = [r \in Readers |-> 0]
  /\ rlength = [r \in Readers |-> FALSE]

(* Variants of the definitions below that carry a plausible bug: each of   *)
(* the properties is violated when one of them takes its original's place. *)
BugCountsBuffer == written + MaxRead
BugWaitIgnored == FALSE
BugNothingAnnounced == "create"
BugNoBroadcast == UNCHANGED sleeping
BugErrIgnored == "whole"
BugDoneBeforeBytes(r) == rpos[r] < written /\ ~done
BugFfmpegOutlives == FALSE

Broadcast == sleeping' = {}
Goto(pc) == dpc' = pc

-----------------------------------------------------------------------------
(* runSequential, runRemux and copyTee                                     *)

AfterOpen == IF remux THEN "create" ELSE "announce"

(* The plain GET, or the start of ffmpeg.                                  *)
OpenUpstream ==
  /\ dpc = "open"
  /\ \/ Goto(AfterOpen) /\ UNCHANGED failed
     \/ Goto("finish") /\ failed' = TRUE
  /\ UNCHANGED <<copyVars, ctxDone, ffmpegVars, fileVars, jobVars, sleeping, readerVars>>

(* job.contentLength = job.size, which stays negative if the probe saw no  *)
(* length.                                                                 *)
Announce ==
  /\ dpc = "announce"
  /\ lengthKnown' = sized /\ Broadcast
  /\ Goto("create")
  /\ UNCHANGED <<copyVars, failed, ctxDone, ffmpegVars, fileVars, written, done, err, readerVars>>

CreateFile ==
  /\ dpc = "create"
  /\ \/ tmp' = "tmp" /\ Goto("check") /\ UNCHANGED failed
     \/ Goto("finish") /\ failed' = TRUE /\ UNCHANGED tmp
  /\ UNCHANGED <<copyVars, ctxDone, ffmpegVars, onDisk, jobVars, sleeping, readerVars>>

CheckContext ==
  /\ dpc = "check"
  /\ IF ctxDone THEN Goto("close") /\ failed' = TRUE ELSE Goto("read") /\ UNCHANGED failed
  /\ UNCHANGED <<copyVars, ctxDone, ffmpegVars, fileVars, jobVars, sleeping, readerVars>>

(* Read of the response body: the transport reports an end before the      *)
(* announced one as an error, with or without data.                        *)
ReadBody ==
  /\ dpc = "read" /\ ~remux
  /\ got' \in 0 .. MaxRead /\ written + got' <= Size
  /\ \/ status' = "none" /\ got' > 0
     \/ status' = "eof" /\ written + got' = Size
     \/ status' = "error"
  /\ Goto("write")
  /\ UNCHANGED <<failed, ctxDone, ffmpegVars, fileVars, jobVars, sleeping, readerVars>>

(* Read of the pipe: its end only says that ffmpeg has exited.             *)
ReadPipe ==
  /\ dpc = "read" /\ remux
  /\ \/ /\ got' \in 1 .. MaxRead /\ got' <= piped
        /\ status' = "none"
     \/ piped = 0 /\ ffmpeg # "running" /\ got' = 0 /\ status' = "eof"
  /\ piped' = piped - got'
  /\ Goto("write")
  /\ UNCHANGED <<failed, ctxDone, remux, sized, ffmpeg, output, fileVars, jobVars, sleeping, readerVars>>

(* The write, outside the mutex: it may fail, part of it done.             *)
WriteFile ==
  /\ dpc = "write"
  /\ \/ /\ onDisk' = onDisk + got /\ UNCHANGED written
        /\ Goto("progress") /\ UNCHANGED failed
     \/ /\ got > 0
        /\ onDisk' \in onDisk .. onDisk + got - 1 /\ UNCHANGED written
        /\ Goto("close") /\ failed' = TRUE
  /\ UNCHANGED <<copyVars, ctxDone, ffmpegVars, tmp, lengthKnown, done, err, sleeping, readerVars>>

(* Progress is published if there was data, and the loop goes on or ends.  *)
Advanced == written + got
ReadFailed == status = "error"

PublishProgress ==
  /\ dpc = "progress"
  /\ IF got > 0 THEN written' = Advanced /\ Broadcast ELSE UNCHANGED <<written, sleeping>>
  /\ got' = 0 /\ status' = "none"
  /\ Goto(IF status = "none" THEN "check" ELSE "close")
  /\ failed' = ReadFailed
  /\ UNCHANGED <<ctxDone, ffmpegVars, fileVars, lengthKnown, done, err, readerVars>>

CloseFile ==
  /\ dpc = "close"
  /\ got' = 0 /\ status' = "none"
  /\ failed' \in {failed, TRUE}
  /\ Goto(IF remux THEN "wait" ELSE IF failed' THEN "finish" ELSE "publish")
  /\ UNCHANGED <<ctxDone, ffmpegVars, fileVars, jobVars, sleeping, readerVars>>

(* cmd.Wait returns once ffmpeg has exited, with an error if it failed.    *)
WaitFails == ffmpeg = "bad"

WaitFfmpeg ==
  /\ dpc = "wait" /\ ffmpeg # "running"
  /\ failed' = (failed \/ WaitFails)
  /\ Goto(IF failed' THEN "finish" ELSE "publish")
  /\ UNCHANGED <<copyVars, ctxDone, ffmpegVars, fileVars, jobVars, sleeping, readerVars>>

(* cache.finalize: the rename, which may fail.                             *)
Publish ==
  /\ dpc = "publish"
  /\ \/ tmp' = "cached" /\ UNCHANGED failed
     \/ failed' = TRUE /\ UNCHANGED tmp
  /\ Goto("finish")
  /\ UNCHANGED <<copyVars, ctxDone, ffmpegVars, onDisk, jobVars, sleeping, readerVars>>

(* finishJob: the end of the job, and after a failure the removal of the   *)
(* temp file, whose own error is ignored.                                  *)
MarkDone ==
  /\ dpc = "finish"
  /\ done' = TRUE /\ err' = failed /\ Broadcast
  /\ Goto(IF failed THEN "cleanup" ELSE "return")
  /\ UNCHANGED <<copyVars, failed, ctxDone, ffmpegVars, fileVars, lengthKnown, written, readerVars>>

RemoveTemp ==
  /\ dpc = "cleanup"
  /\ tmp' \in IF tmp = "tmp" THEN {"tmp", "removed"} ELSE {tmp}
  /\ Goto("return")
  /\ UNCHANGED <<copyVars, failed, ctxDone, ffmpegVars, onDisk, jobVars, sleeping, readerVars>>

(* run's deferred cancel.                                                  *)
Return ==
  /\ dpc = "return"
  /\ ctxDone' = TRUE
  /\ Goto("returned")
  /\ UNCHANGED <<copyVars, failed, ffmpegVars, fileVars, jobVars, sleeping, readerVars>>

DriverStep ==
  \/ OpenUpstream \/ Announce \/ CreateFile \/ CheckContext \/ ReadBody \/ ReadPipe
  \/ WriteFile \/ PublishProgress \/ CloseFile \/ WaitFfmpeg \/ Publish
  \/ MarkDone \/ RemoveTemp \/ Return

(* downloadTimeout.                                                        *)
Timeout ==
  /\ ~ctxDone /\ dpc # "returned"
  /\ ctxDone' = TRUE
  /\ UNCHANGED <<dpc, copyVars, failed, ffmpegVars, fileVars, jobVars, sleeping, readerVars>>

-----------------------------------------------------------------------------
(* ffmpeg                                                                  *)

Started == remux /\ dpc # "open" /\ ffmpeg = "running"

(* It writes while the pipe has room, and exits well only after the last   *)
(* block; it can fail at any time, and dies with the job's context.        *)
FfmpegWrites ==
  /\ Started /\ output < Size /\ piped < Pipe
  /\ output' = output + 1 /\ piped' = piped + 1
  /\ UNCHANGED <<dpc, copyVars, failed, ctxDone, remux, sized, ffmpeg, fileVars, jobVars, sleeping,
                 readerVars>>

Exits(how) ==
  /\ ffmpeg' = how
  /\ UNCHANGED <<dpc, copyVars, failed, ctxDone, remux, sized, output, piped, fileVars, jobVars,
                 sleeping, readerVars>>

FfmpegEnds   == Started /\ output = Size /\ Exits("ok")
FfmpegFails  == Started /\ Exits("bad")
FfmpegKilled == Started /\ ctxDone /\ Exits("bad")

-----------------------------------------------------------------------------
(* serveLive                                                               *)

RGoto(r, pc) == rpc' = [rpc EXCEPT ![r] = pc]

(* liveHandler found this job and reaches serveLive.                       *)
StartReader(r) ==
  /\ rpc[r] = "idle"
  /\ RGoto(r, "open")
  /\ UNCHANGED <<dpc, copyVars, failed, ctxDone, ffmpegVars, fileVars, jobVars, sleeping,
                 rpos, rlength, gone>>

(* os.Open of the temp file: it may not be there yet, or not any more, and *)
(* either way the answer is 503.                                           *)
OpenTemp(r) ==
  /\ rpc[r] = "open"
  /\ RGoto(r, CASE tmp = "tmp" -> "header" [] tmp = "absent" -> "early" [] OTHER -> "late")
  /\ UNCHANGED <<dpc, copyVars, failed, ctxDone, ffmpegVars, fileVars, jobVars, sleeping,
                 rpos, rlength, gone>>

SendHeader(r) ==
  /\ rpc[r] = "header"
  /\ rlength' = [rlength EXCEPT ![r] = lengthKnown]
  /\ RGoto(r, "read")
  /\ UNCHANGED <<dpc, copyVars, failed, ctxDone, ffmpegVars, fileVars, jobVars, sleeping,
                 rpos, gone>>

(* tailReader.Read outside the mutex: a block of the file, sent on to the  *)
(* client, or the end of the file.  Either may fail.                       *)
ReadFile(r) ==
  /\ rpc[r] = "read"
  /\ \/ /\ rpos[r] < onDisk
        /\ rpos' = [rpos EXCEPT ![r] = @ + 1]
        /\ UNCHANGED rpc
     \/ rpos[r] = onDisk /\ RGoto(r, "tail") /\ UNCHANGED rpos
     \/ rpos[r] < onDisk /\ r \in gone /\ RGoto(r, "cut") /\ UNCHANGED rpos
     \/ RGoto(r, "broken") /\ UNCHANGED rpos
  /\ UNCHANGED <<dpc, copyVars, failed, ctxDone, ffmpegVars, fileVars, jobVars, sleeping,
                 rlength, gone>>

(* The end of the job, after the bytes it still holds for this reader.     *)
MoreToRead(r) == rpos[r] < written
EndOfFailed == "cut"

(* tailReader.Read under job.mu.                                           *)
TailWait(r) ==
  /\ rpc[r] = "tail" /\ r \notin sleeping
  /\ \/ r \in gone /\ RGoto(r, "cut") /\ UNCHANGED sleeping
     \/ r \notin gone /\ MoreToRead(r) /\ RGoto(r, "read") /\ UNCHANGED sleeping
     \/ /\ r \notin gone /\ ~MoreToRead(r) /\ done
        /\ RGoto(r, IF err THEN EndOfFailed ELSE "whole")
        /\ UNCHANGED sleeping
     \/ /\ r \notin gone /\ ~MoreToRead(r) /\ ~done
        /\ sleeping' = sleeping \cup {r} /\ UNCHANGED rpc
  /\ UNCHANGED <<dpc, copyVars, failed, ctxDone, ffmpegVars, fileVars, jobVars,
                 rpos, rlength, gone>>

ReaderStep(r) == OpenTemp(r) \/ SendHeader(r) \/ ReadFile(r) \/ TailWait(r)

Ended(r) == rpc[r] \in {"whole", "cut", "broken", "early", "late"}

(* Nothing wakes a sleeping reader whose client leaves.                    *)
Disconnect(r) ==
  /\ rpc[r] # "idle" /\ ~Ended(r) /\ r \notin gone
  /\ gone' = gone \cup {r}
  /\ UNCHANGED <<dpc, copyVars, failed, ctxDone, ffmpegVars, fileVars, jobVars, sleeping,
                 rpc, rpos, rlength>>

(* The only states with nothing left to do.                                *)
AllOver ==
  /\ dpc = "returned" /\ ~Started
  /\ \A r \in Readers : Ended(r)
  /\ UNCHANGED vars

Next ==
  \/ DriverStep \/ Timeout \/ AllOver
  \/ FfmpegWrites \/ FfmpegEnds \/ FfmpegFails \/ FfmpegKilled
  \/ \E r \in Readers : StartReader(r) \/ ReaderStep(r) \/ Disconnect(r)

Spec == Init /\ [][Next]_vars

(* Goroutines keep running, a context ends what waits on the upstream, the *)
(* timeout does come, and a client that stays reads what it is sent.  The  *)
(* upstream and ffmpeg may stall for ever.                                 *)
FairSpec ==
  /\ Spec
  /\ WF_vars((dpc \in {"open", "read"} => ctxDone) /\ DriverStep)
  /\ WF_vars(Timeout) /\ WF_vars(FfmpegKilled)
  /\ \A r \in Readers : WF_vars(ReaderStep(r))

-----------------------------------------------------------------------------
(* The shape of every variable.                                            *)
TypeOK ==
  /\ dpc \in DriverPcs /\ got \in 0 .. MaxRead /\ status \in {"none", "eof", "error"}
  /\ failed \in BOOLEAN /\ ctxDone \in BOOLEAN
  /\ remux \in BOOLEAN /\ sized \in BOOLEAN
  /\ ffmpeg \in {"running", "ok", "bad"} /\ output \in 0 .. Size /\ piped \in 0 .. Pipe
  /\ tmp \in {"absent", "tmp", "cached", "removed"} /\ onDisk \in 0 .. Size
  /\ lengthKnown \in BOOLEAN /\ written \in 0 .. Size /\ done \in BOOLEAN /\ err \in BOOLEAN
  /\ sleeping \subseteq Readers /\ gone \subseteq Readers
  /\ rpc \in [Readers -> ReaderPcs] /\ rpos \in [Readers -> 0 .. Size]
  /\ rlength \in [Readers -> BOOLEAN]

(* A file in the cache holds the whole video: neither a broken body nor a  *)
(* dead ffmpeg, whose pipe ends like a finished one's, gets that far       *)
(* (copyTee, runRemux).                                                    *)
CachedIsWhole == tmp = "cached" => onDisk = Size

(* A live stream that ends as if complete is complete: a tailReader ends   *)
(* it with EOF only after the last byte of a job that succeeded.           *)
WholeIsWhole == \A r \in Readers : rpc[r] = "whole" => rpos[r] = Size

(* No reader sleeps while there are bytes for it, or after the job's end.  *)
SleepersHaveReason == \A r \in sleeping : rpos[r] >= written /\ ~done

(* Whoever is served live from a sequential job is told the length if the  *)
(* probe found one, and nobody is told one that was not found, or by a     *)
(* remux job: contentLength is set before the file a reader has to open    *)
(* exists (runSequential, serveLive).                                      *)
LengthSent ==
  \A r \in Readers : rpc[r] \in {"read", "tail", "whole", "cut", "broken"} => rlength[r] = sized

(* The job ends, and every live request does.                              *)
JobEnds == <>(dpc = "returned")
ReadersEnd == \A r \in Readers : rpc[r] = "open" ~> Ended(r)

(* While the driver waits for ffmpeg to exit, ffmpeg can: a failed job is  *)
(* dropped "so a later request can retry" (jobs.go:210).  Not so: after a  *)
(* failed write nobody reads the pipe, and ffmpeg blocks on it until the   *)
(* timeout kills it.                                                       *)
WaitedFfmpegCanExit ==
  dpc = "wait" /\ ffmpeg = "running" /\ ~ctxDone => output = Size \/ piped < Pipe

(* The job as a Download.  The 503 of a request that came too early is     *)
(* not an outcome Download knows, and neither is a failing disk: the one   *)
(* is never attached and the other never sent another block.               *)
DState(r) ==
  CASE rpc[r] = "idle" -> "idle"
    [] rpc[r] \in {"open", "early"} -> "asked"
    [] rpc[r] = "late" -> "late"
    [] OTHER -> IF rpos[r] = Size THEN "whole"
                ELSE IF rpc[r] \in {"whole", "cut"} THEN rpc[r] ELSE "reading"

Outcome == IF tmp = "cached" THEN "cached" ELSE IF err THEN "failed" ELSE "running"

ReaderView(r) ==
  [state |-> DState(r), next |-> rpos[r], last |-> IF rpc[r] = "idle" THEN 0 ELSE Size - 1]

D == INSTANCE Download WITH have <- 0 .. onDisk - 1, outcome <- Outcome,
                            reader <- [r \in Readers |-> ReaderView(r)]

(* Sequential and remux mode are Downloads too, read from the front.       *)
IsDownload == D!DSpec
=============================================================================
