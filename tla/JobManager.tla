----------------------------- MODULE JobManager -----------------------------
(***************************************************************************)
(* The registry of download jobs, the disk cache they publish into and the *)
(* HTTP handlers that look at both (jobs.go, cache.go, handler.go), with   *)
(* crashes and restarts of the server:                                     *)
(*                                                                         *)
(*   - the players: each asks /api/getvideo, is told a /video or a /live   *)
(*     address and requests it, again and again if it likes;               *)
(*   - the jobs: the goroutine of run, whose download itself (the modules  *)
(*     SparseDownload and SequentialDownload) is one step here;            *)
(*   - finalize, which holds cache.mu over the rename and the evictions.   *)
(*     Which entries it evicts is DiskCache's business: here, any.         *)
(*                                                                         *)
(* A handler's step is one look at the registry or at the file system.     *)
(***************************************************************************)
EXTENDS FiniteSets

CONSTANTS
  Videos,     \* cache ids
  Jobs,       \* the jobs there can be at a time (a bound)
  Players,    \* clients, with one request at a time each (a bound)
  None        \* no job, no video

ASSUME ManagerAssumption == None \notin Jobs /\ None \notin Videos

VARIABLES
  up,              \* the server is running
  registry,        \* JobManager.jobs
  video,           \* per job: the id it downloads
  jpc,             \* per job: where run is
  mode,            \* per job: what startJob asked for, then what it turned out to be
  failed,          \* the jobs whose err is set
  cmu,             \* the job that holds cache.mu
  temp, cached,    \* the temp files, by job; the finished files, by id
  ppc, wants, job, \* per player: where it is, the id it asks for, the job it found
  finished,        \* the players that were told the /video address
  owed             \* the players told of an address that should still work

jobVars    == <<registry, video, jpc, mode, failed>>
diskVars   == <<cmu, temp, cached>>
playerVars == <<ppc, wants, job, finished>>
vars == <<up, jobVars, diskVars, playerVars, owed>>

JobPcs == {"probe", "run", "lock", "rename", "evict", "drop", "cleanup", "over"}

(* A job's mode before and after its ready is closed: "bad" has a probeErr,*)
(* "stream" is sequential or remux.                                        *)
Unready == {"progressive", "remux"}
Ready   == {"sparse", "stream", "bad"}

(* A player with no request under way (after an answer that was not the    *)
(* video it expected, or any other), and one whose request is under way.   *)
Quiet    == {"idle", "empty", "404", "502", "503"}
InFlight == {"lookup", "extract", "start", "video", "first", "getjob", "second", "wait",
             "third", "fourth", "attach", "open"}

Init ==
  /\ up = TRUE
  /\ registry = [v \in Videos |-> None]
  /\ video = [j \in Jobs |-> None] /\ mode = [j \in Jobs |-> "bad"]
  /\ jpc = [j \in Jobs |-> "over"] /\ failed = {}
  /\ cmu = None /\ temp = {} /\ cached = {}
  /\ ppc = [p \in Players |-> "idle"]
  /\ wants = [p \in Players |-> None]
  /\ job = [p \in Players |-> None]
  /\ finished = {} /\ owed = {}

(* Variants of the definitions below that carry a plausible bug: each of   *)
(* the properties is violated when one of them takes its original's place. *)
BugNeverRunning(v) == FALSE
BugNoSecondLook == "404"
BugNoCleanup(j) == "over"
BugFileAfterReady(j) == temp
BugReadyOnSuccess(j, m) == mode' = IF m = "bad" THEN mode ELSE [mode EXCEPT ![j] = m]

-----------------------------------------------------------------------------
(* run and finishJob, with finalize                                        *)

Active(j) == jpc[j] \in {"probe", "run", "lock", "rename", "evict", "drop"}
JGoto(j, pc) == jpc' = [jpc EXCEPT ![j] = pc]

(* A job that fails frees the server of what it promised, unless the video *)
(* is in the cache already.                                                *)
Fails(j) ==
  /\ failed' = failed \cup {j}
  /\ JGoto(j, "drop")
  /\ owed' = IF video[j] \in cached THEN owed ELSE {p \in owed : wants[p] # video[j]}

Becomes(j, m) == mode' = [mode EXCEPT ![j] = m]
Unlock == cmu' = None

(* The probe picks the mode, and a sparse job's file is made before ready  *)
(* is closed.  A remux job is not probed.                                  *)
SparseFiles(j) == temp \cup {j}

Probe(j) ==
  /\ jpc[j] = "probe"
  /\ \/ Becomes(j, "stream") /\ JGoto(j, "run") /\ UNCHANGED <<failed, temp, owed>>
     \/ /\ mode[j] = "progressive"
        /\ Becomes(j, "sparse") /\ temp' = SparseFiles(j)
        /\ JGoto(j, "run") /\ UNCHANGED <<failed, owed>>
     \/ /\ mode[j] = "progressive"
        /\ Becomes(j, "bad") /\ Fails(j) /\ UNCHANGED temp
  /\ UNCHANGED <<up, registry, video, cmu, cached, playerVars>>

(* runSequential and runRemux make their file once the upstream answered.  *)
CreateTemp(j) ==
  /\ jpc[j] = "run" /\ j \notin temp
  /\ temp' = temp \cup {j}
  /\ UNCHANGED <<up, jobVars, cmu, cached, playerVars, owed>>

(* The download ends.                                                      *)
Run(j) ==
  /\ jpc[j] = "run"
  /\ \/ j \in temp /\ JGoto(j, "lock") /\ UNCHANGED <<failed, owed>>
     \/ Fails(j)
  /\ UNCHANGED <<up, registry, video, mode, diskVars, playerVars>>

LockCache(j) ==
  /\ jpc[j] = "lock" /\ cmu = None
  /\ cmu' = j
  /\ JGoto(j, "rename")
  /\ UNCHANGED <<up, registry, video, mode, failed, temp, cached,
                 playerVars, owed>>

Rename(j) ==
  /\ jpc[j] = "rename"
  /\ \/ /\ temp' = temp \ {j} /\ cached' = cached \cup {video[j]}
        /\ JGoto(j, "evict") /\ UNCHANGED <<cmu, failed, owed>>
     \/ Fails(j) /\ Unlock /\ UNCHANGED <<temp, cached>>
  /\ UNCHANGED <<up, registry, video, mode, playerVars>>

(* One entry after the other, then the mutex is released.                  *)
Evict(j) ==
  /\ jpc[j] = "evict"
  /\ \/ \E v \in cached : /\ cached' = cached \ {v}
                          /\ owed' = {p \in owed : wants[p] # v}
                          /\ UNCHANGED <<jpc, cmu>>
     \/ Unlock /\ JGoto(j, "drop") /\ UNCHANGED <<cached, owed>>
  /\ UNCHANGED <<up, registry, video, mode, failed, temp, playerVars>>

AfterDrop(j) == IF j \in failed THEN "cleanup" ELSE "over"

(* delete(m.jobs, job.id).                                                 *)
Drop(j) ==
  /\ jpc[j] = "drop"
  /\ registry' = [registry EXCEPT ![video[j]] = None]
  /\ JGoto(j, AfterDrop(j))
  /\ video' = [video EXCEPT ![j] = None] /\ failed' = failed \ {j}
  /\ UNCHANGED <<up, mode, diskVars, playerVars, owed>>

Cleanup(j) ==
  /\ jpc[j] = "cleanup"
  /\ temp' = temp \ {j}
  /\ JGoto(j, "over")
  /\ UNCHANGED <<up, registry, video, mode, failed, cmu, cached, playerVars, owed>>

JobStep(j) ==
  \/ Probe(j) \/ CreateTemp(j) \/ Run(j) \/ LockCache(j) \/ Rename(j) \/ Evict(j)
  \/ Drop(j) \/ Cleanup(j)

-----------------------------------------------------------------------------
(* getVideoHandler                                                         *)

PGoto(p, pc) == ppc' = [ppc EXCEPT ![p] = pc]

AskVideo(p) ==
  /\ up /\ ppc[p] \in Quiet
  /\ \E v \in Videos : wants' = [wants EXCEPT ![p] = v]
  /\ PGoto(p, "lookup")
  /\ finished' = finished \ {p} /\ owed' = owed \ {p}
  /\ UNCHANGED <<up, jobVars, diskVars, job>>

LookUp(p) ==
  /\ ppc[p] = "lookup"
  /\ \/ /\ wants[p] \in cached
        /\ PGoto(p, "idle") /\ finished' = finished \cup {p} /\ owed' = owed \cup {p}
     \/ /\ wants[p] \notin cached
        /\ PGoto(p, "extract") /\ UNCHANGED <<finished, owed>>
  /\ UNCHANGED <<up, jobVars, diskVars, wants, job>>

(* yt-dlp finds a video to download, or the answer has no address of ours  *)
(* (an error, a kind that is not supported) or one for the HLS proxy.      *)
Extract(p) ==
  /\ ppc[p] = "extract"
  /\ PGoto(p, "start") \/ PGoto(p, "idle")
  /\ UNCHANGED <<up, jobVars, diskVars, wants, job, finished, owed>>

(* startJob, as one critical section of m.mu.  The job it returns may have *)
(* nothing more to offer: it failed, or its entry was evicted at once.     *)
Running(v) == registry[v] # None
Spent(j) == j \in failed \/ (jpc[j] \in {"evict", "drop"} /\ video[j] \notin cached)

StartJob(p) ==
  /\ ppc[p] = "start"
  /\ \/ /\ Running(wants[p])
        /\ owed' = IF Spent(registry[wants[p]]) THEN owed ELSE owed \cup {p}
        /\ UNCHANGED jobVars
     \/ /\ ~Running(wants[p])
        /\ \E j \in Jobs :
             /\ jpc[j] = "over" /\ \A q \in Players : job[q] # j
             /\ registry' = [registry EXCEPT ![wants[p]] = j]
             /\ video' = [video EXCEPT ![j] = wants[p]]
             /\ JGoto(j, "probe")
             /\ \E m \in Unready : Becomes(j, m)
        /\ UNCHANGED failed
        /\ owed' = owed \cup {p}
  /\ PGoto(p, "idle")
  /\ UNCHANGED <<up, diskVars, wants, job, finished>>

-----------------------------------------------------------------------------
(* videoFileHandler and liveHandler                                        *)

(* A player requests the address it was told, or that it remembers.        *)
RequestVideo(p) ==
  /\ up /\ ppc[p] \in Quiet /\ p \in finished
  /\ PGoto(p, "video")
  /\ UNCHANGED <<up, jobVars, diskVars, wants, job, finished, owed>>

RequestLive(p) ==
  /\ up /\ ppc[p] \in Quiet /\ p \notin finished /\ wants[p] # None
  /\ PGoto(p, "first")
  /\ UNCHANGED <<up, jobVars, diskVars, wants, job, finished, owed>>

(* A look for the finished file: open it, or go on at pc.                  *)
Look(p, from, pc) ==
  /\ ppc[p] = from
  /\ PGoto(p, IF wants[p] \in cached THEN "open" ELSE pc)
  /\ job' = IF wants[p] \in cached \/ pc \in Quiet THEN [job EXCEPT ![p] = None] ELSE job
  /\ UNCHANGED <<up, jobVars, diskVars, wants, finished, owed>>

AfterNoJob == "second"

HasVideo(p)   == Look(p, "video", "404")
FirstLook(p)  == Look(p, "first", "getjob")
SecondLook(p) == Look(p, "second", "404")
ThirdLook(p)  == Look(p, "third", "502")
FourthLook(p) == Look(p, "fourth", "attach")

GetJob(p) ==
  /\ ppc[p] = "getjob"
  /\ job' = [job EXCEPT ![p] = registry[wants[p]]]
  /\ PGoto(p, IF registry[wants[p]] = None THEN AfterNoJob ELSE "wait")
  /\ UNCHANGED <<up, jobVars, diskVars, wants, finished, owed>>

AwaitReady(p) ==
  /\ ppc[p] = "wait" /\ mode[job[p]] \in Ready
  /\ PGoto(p, IF mode[job[p]] = "bad" THEN "third" ELSE "fourth")
  /\ UNCHANGED <<up, jobVars, diskVars, wants, job, finished, owed>>

(* The client gives up while it waits.                                     *)
GiveUp(p) ==
  /\ ppc[p] = "wait"
  /\ PGoto(p, "idle")
  /\ job' = [job EXCEPT ![p] = None]
  /\ UNCHANGED <<up, jobVars, diskVars, wants, finished, owed>>

(* serveSparse and serveLive open the temp file, and stream from it.       *)
(* Without it the one's answer is empty, and the other's a 503: it does    *)
(* not fall back to the cached file, as its comment has it (serve.go:57).  *)
WithoutFile(j) == IF mode[j] = "sparse" THEN "empty" ELSE "503"

Attach(p) ==
  /\ ppc[p] = "attach"
  /\ PGoto(p, IF job[p] \in temp THEN "idle" ELSE WithoutFile(job[p]))
  /\ job' = [job EXCEPT ![p] = None]
  /\ UNCHANGED <<up, jobVars, diskVars, wants, finished, owed>>

(* serveCachedFile: the entry may have been evicted since the look.        *)
OpenCached(p) ==
  /\ ppc[p] = "open"
  /\ PGoto(p, IF wants[p] \in cached THEN "idle" ELSE "404")
  /\ UNCHANGED <<up, jobVars, diskVars, wants, job, finished, owed>>

HandlerStep(p) ==
  \/ LookUp(p) \/ Extract(p) \/ StartJob(p)
  \/ HasVideo(p) \/ FirstLook(p) \/ GetJob(p) \/ SecondLook(p) \/ AwaitReady(p)
  \/ ThirdLook(p) \/ FourthLook(p) \/ Attach(p) \/ OpenCached(p)

-----------------------------------------------------------------------------
(* A crash leaves the disk as it is; NewCache empties the temp directory.  *)
Crash ==
  /\ up
  /\ up' = FALSE
  /\ jpc' = [j \in Jobs |-> "over"] /\ video' = [j \in Jobs |-> None] /\ failed' = {}
  /\ ppc' = [p \in Players |-> IF ppc[p] \in InFlight THEN "idle" ELSE ppc[p]]
  /\ job' = [p \in Players |-> None]
  /\ cmu' = None
  /\ registry' = [v \in Videos |-> None]
  /\ owed' = {p \in owed : wants[p] \in cached}
  /\ UNCHANGED <<mode, temp, cached, wants, finished>>

Cleared == {}

Restart ==
  /\ ~up
  /\ up' = TRUE
  /\ temp' = Cleared
  /\ UNCHANGED <<jobVars, cmu, cached, playerVars, owed>>

Next ==
  \/ Crash \/ Restart
  \/ \E j \in Jobs : JobStep(j)
  \/ \E p \in Players : AskVideo(p) \/ RequestVideo(p) \/ RequestLive(p) \/ GiveUp(p) \/ HandlerStep(p)

Spec == Init /\ [][Next]_vars

(* Handlers and jobs run on, a download ends by its timeout at the latest, *)
(* and whoever waits for a mutex gets it (for StartJob this also means one *)
(* of the Jobs gets free: their number bounds the model, not the code).    *)
FairSpec ==
  /\ Spec
  /\ \A j \in Jobs : WF_vars(JobStep(j)) /\ SF_vars(LockCache(j))
  /\ \A p \in Players : WF_vars(HandlerStep(p)) /\ SF_vars(StartJob(p))

-----------------------------------------------------------------------------
(* The shape of every variable; and a request holds a job exactly while it *)
(* looks into it.                                                          *)
TypeOK ==
  /\ up \in BOOLEAN
  /\ registry \in [Videos -> Jobs \cup {None}] /\ video \in [Jobs -> Videos \cup {None}]
  /\ jpc \in [Jobs -> JobPcs] /\ cmu \in Jobs \cup {None}
  /\ mode \in [Jobs -> Unready \cup Ready] /\ failed \subseteq Jobs
  /\ temp \subseteq Jobs /\ cached \subseteq Videos
  /\ ppc \in [Players -> Quiet \cup InFlight] /\ wants \in [Players -> Videos \cup {None}]
  /\ job \in [Players -> Jobs \cup {None}]
  /\ \A p \in Players : job[p] # None <=> ppc[p] \in {"wait", "third", "fourth", "attach"}
  /\ finished \subseteq Players /\ owed \subseteq Players

(* Until the job behind it fails, the entry is evicted or the server       *)
(* crashes, the video of an address that was given out is in the cache or  *)
(* being downloaded, and no request for it is told 404 or 502, however the *)
(* handler's looks and the end of the job interleave (liveHandler, run,    *)
(* finishJob).  LateHitsCache has the requests that get nothing else.      *)
PromiseKept ==
  \A p \in owed : /\ wants[p] \in cached \/ registry[wants[p]] # None
                  /\ ppc[p] \notin {"404", "502"}

(* The registry holds exactly the jobs that are running, so a video is     *)
(* downloaded once at a time, and nobody's drop removes another's entry.   *)
RegistryExact ==
  \A v \in Videos, j \in Jobs : registry[v] = j <=> Active(j) /\ video[j] = v

(* Temp files belong to running jobs: failures and crashes leave none that *)
(* a running server would keep.                                            *)
NoOrphans == up => \A j \in temp : Active(j) \/ jpc[j] = "cleanup"

(* Every job ends and every request is answered.                           *)
JobsEnd == \A j \in Jobs : Active(j) ~> ~Active(j)
RequestsEnd == \A p \in Players : ppc[p] \in InFlight ~> ppc[p] \in Quiet
EveryoneEnds == JobsEnd /\ RequestsEnd

(* A player that is given no byte of a video it is owed has come before a  *)
(* sequential job or a remux made its file, or so late that the finished   *)
(* one is there: it "will re-request and hit cache" (serve.go:237).  A     *)
(* sparse job's file is there before ready is closed, and every temp file  *)
(* goes only when the finished one appears (run, serveSparse, serveLive).  *)
LateHitsCache ==
  [][\A p \in owed :
       ppc[p] = "attach" /\ ppc'[p] \in {"empty", "503"}
         => wants[p] \in cached \/ (ppc'[p] = "503" /\ jpc[job[p]] = "run")]_vars
=============================================================================
