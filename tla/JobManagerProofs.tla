-------------------------- MODULE JobManagerProofs --------------------------
(***************************************************************************)
(* What holds of the registry, the temp files and the handlers for any     *)
(* number of videos, jobs and players.                                     *)
(***************************************************************************)
EXTENDS JobManager, TLAPS

(* What a job's place in run says of it: which video it has, what its mode *)
(* can be, and whether its temp file is there.                             *)
JobInv ==
  \A j \in Jobs :
    /\ Active(j) => video[j] \in Videos
    /\ j \in failed => jpc[j] = "drop"
    /\ jpc[j] = "probe" => mode[j] \in Unready
    /\ Active(j) /\ mode[j] = "bad" => j \in failed
    /\ jpc[j] \in {"run", "lock", "rename"} /\ mode[j] = "sparse" => j \in temp
    /\ jpc[j] \in {"lock", "rename"} => j \in temp
    /\ jpc[j] \in {"evict", "drop"} /\ j \notin failed => j \notin temp

(* A request is for a video, a job it holds is the video's, and one that   *)
(* asks for a video has not been told that it is finished.  What it        *)
(* attaches to is a job with a mode.                                       *)
WantInv ==
  \A p \in Players :
    /\ ppc[p] \in InFlight \/ p \in finished \/ p \in owed => wants[p] \in Videos
    /\ ppc[p] = "video" => p \in finished
    /\ ppc[p] \in {"lookup", "extract", "start"} => p \notin finished
    /\ job[p] # None /\ Active(job[p]) => video[job[p]] = wants[p]
    /\ ppc[p] \in {"fourth", "attach"} => mode[job[p]] \in {"sparse", "stream"}

(* A player that is owed its video has it in the cache; or its job is in   *)
(* the registry and has something to offer, and the handler has not gone   *)
(* past it.  A ready job that a handler holds has its file, or will have.  *)
Early(j)  == jpc[j] = "run" /\ mode[j] = "stream"
Coming(j) == jpc[j] \in {"run", "lock", "rename"} /\ j \in temp

Pending(p) ==
  /\ registry[wants[p]] # None /\ ~Spent(registry[wants[p]])
  /\ p \notin finished /\ ppc[p] \notin {"second", "third", "open", "404", "502"}
  /\ job[p] # None => /\ mode[job[p]] # "bad"
                      /\ mode[job[p]] \in Ready => Coming(job[p]) \/ Early(job[p])

PromiseInv == \A p \in owed : wants[p] \in cached \/ Pending(p)

(* Nothing runs between a crash and the restart.                           *)
DownInv ==
  ~up => /\ \A j \in Jobs : jpc[j] = "over"
         /\ \A p \in Players : ppc[p] \in Quiet

RegInv  == TypeOK /\ RegistryExact /\ JobInv /\ NoOrphans /\ DownInv
KeepInv == WantInv /\ PromiseInv /\ PromiseKept

(* All of it holds of a server that has just started.                      *)
LEMMA InitInv == Init => RegInv /\ KeepInv
BY ManagerAssumption
DEF Init, RegInv, KeepInv, TypeOK, RegistryExact, JobInv, NoOrphans, DownInv, WantInv, PromiseInv, PromiseKept,
    JobPcs, Unready, Ready, Quiet, InFlight, Active

-----------------------------------------------------------------------------
(* The steps of a player that look at jobs and files and change neither.   *)
PlayerOnly(p) ==
  \/ AskVideo(p) \/ RequestVideo(p) \/ RequestLive(p) \/ GiveUp(p) \/ LookUp(p) \/ Extract(p)
  \/ HasVideo(p) \/ FirstLook(p) \/ GetJob(p) \/ SecondLook(p) \/ AwaitReady(p)
  \/ ThirdLook(p) \/ FourthLook(p) \/ Attach(p) \/ OpenCached(p)

(* They leave the registry, the jobs and the disk as they are.             *)
LEMMA PlayerFrame ==
  ASSUME NEW p \in Players, PlayerOnly(p)
  PROVE  UNCHANGED <<up, registry, video, jpc, mode, failed, cmu, temp, cached>>
BY DEF PlayerOnly, AskVideo, RequestVideo, RequestLive, GiveUp, LookUp, Extract, HasVideo, FirstLook,
       GetJob, SecondLook, AwaitReady, ThirdLook, FourthLook, Attach, OpenCached, Look, jobVars, diskVars

(* The steps of run leave the handlers where they are.                     *)
LEMMA JobFrame ==
  ASSUME NEW j \in Jobs, JobStep(j)
  PROVE  UNCHANGED <<up, ppc, wants, job, finished>>
BY DEF JobStep, Probe, CreateTemp, Run, LockCache, Rename, Evict, Drop, Cleanup, jobVars, diskVars, playerVars

(* Every step keeps the shape of the variables.                            *)
LEMMA TypeStep == RegInv /\ KeepInv /\ [Next]_vars => TypeOK'
<1> SUFFICES ASSUME RegInv, KeepInv, [Next]_vars PROVE TypeOK'
  OBVIOUS
<1> USE ManagerAssumption DEF RegInv, KeepInv, TypeOK
<1>1. CASE UNCHANGED vars
  BY <1>1 DEF vars, jobVars, diskVars, playerVars
<1>2. CASE Crash
  BY <1>2 DEF Crash, JobPcs, Quiet, InFlight
<1>3. CASE Restart
  BY <1>3 DEF Restart, Cleared, jobVars, playerVars
<1>4. ASSUME NEW j \in Jobs, JobStep(j) PROVE TypeOK'
  <2> USE DEF JGoto, JobPcs, Fails, Becomes, Unready, Ready, jobVars, diskVars, playerVars, WantInv
  <2>0. UNCHANGED <<up, ppc, wants, job, finished>>
    BY <1>4, JobFrame
  <2>1. CASE Probe(j)
    BY <2>0, <2>1 DEF Probe, SparseFiles
  <2>2. CASE CreateTemp(j)
    BY <2>0, <2>2 DEF CreateTemp
  <2>3. CASE Run(j)
    BY <2>0, <2>3 DEF Run
  <2>4. CASE LockCache(j)
    BY <2>0, <2>4 DEF LockCache
  <2>5. CASE Rename(j)
    BY <2>0, <2>5 DEF Rename, Unlock, JobInv, Active
  <2>6. CASE Evict(j)
    BY <2>0, <2>6 DEF Evict, Unlock
  <2>7. CASE Drop(j)
    BY <2>0, <2>7 DEF Drop, AfterDrop
  <2>8. CASE Cleanup(j)
    BY <2>0, <2>8 DEF Cleanup
  <2> QED BY <1>4, <2>1, <2>2, <2>3, <2>4, <2>5, <2>6, <2>7, <2>8 DEF JobStep
<1>5. ASSUME NEW p \in Players, StartJob(p) PROVE TypeOK'
  BY <1>5 DEF StartJob, Running, JGoto, PGoto, Becomes, JobPcs, Unready, Ready, Quiet, InFlight,
              WantInv, jobVars, diskVars
<1>6. ASSUME NEW p \in Players, PlayerOnly(p) PROVE TypeOK'
  <2> USE DEF PGoto, Quiet, InFlight, WantInv
  <2>0. UNCHANGED <<up, registry, video, jpc, mode, failed, cmu, temp, cached>>
    BY <1>6, PlayerFrame
  <2>1. CASE AskVideo(p)
    BY <2>0, <2>1 DEF AskVideo
  <2>2. CASE RequestVideo(p) \/ RequestLive(p)
    BY <2>0, <2>2 DEF RequestVideo, RequestLive
  <2>3. CASE GiveUp(p)
    BY <2>0, <2>3 DEF GiveUp
  <2>4. CASE LookUp(p)
    BY <2>0, <2>4 DEF LookUp
  <2>5. CASE Extract(p)
    BY <2>0, <2>5 DEF Extract
  <2>6. CASE HasVideo(p) \/ FirstLook(p)
    BY <2>0, <2>6 DEF HasVideo, FirstLook, Look
  <2>7. CASE SecondLook(p) \/ ThirdLook(p)
    BY <2>0, <2>7 DEF SecondLook, ThirdLook, Look
  <2>8. CASE FourthLook(p)
    BY <2>0, <2>8 DEF FourthLook, Look
  <2>9. CASE GetJob(p)
    BY <2>0, <2>9 DEF GetJob, AfterNoJob
  <2>10. CASE AwaitReady(p)
    BY <2>0, <2>10 DEF AwaitReady
  <2>11. CASE Attach(p)
    BY <2>0, <2>11 DEF Attach, WithoutFile
  <2>12. CASE OpenCached(p)
    BY <2>0, <2>12 DEF OpenCached
  <2> QED BY <1>6, <2>1, <2>2, <2>3, <2>4, <2>5, <2>6, <2>7, <2>8, <2>9, <2>10, <2>11, <2>12
          DEF PlayerOnly
<1> QED BY <1>1, <1>2, <1>3, <1>4, <1>5, <1>6 DEF Next, HandlerStep, PlayerOnly

(* The registry, the jobs and the temp files change by steps of run, by    *)
(* startJob and by crashes.                                                *)
LEMMA RegStep == RegInv /\ KeepInv /\ [Next]_vars => RegistryExact' /\ JobInv' /\ NoOrphans' /\ DownInv'
<1> SUFFICES ASSUME RegInv, KeepInv, [Next]_vars PROVE RegistryExact' /\ JobInv' /\ NoOrphans' /\ DownInv'
  OBVIOUS
<1> USE ManagerAssumption DEF RegInv, TypeOK, RegistryExact, JobInv, NoOrphans, DownInv, Active
<1>1. CASE UNCHANGED vars
  BY <1>1 DEF vars, jobVars, diskVars, playerVars
<1>2. CASE Crash
  BY <1>2 DEF Crash, Quiet, InFlight
<1>3. CASE Restart
  BY <1>3 DEF Restart, Cleared, jobVars, playerVars
<1>4. ASSUME NEW j \in Jobs, JobStep(j) PROVE RegistryExact' /\ JobInv' /\ NoOrphans' /\ DownInv'
  <2> USE DEF JGoto, Fails, Becomes, Unready, Ready, jobVars, diskVars, playerVars
  <2>1. CASE Probe(j)
    BY <2>1 DEF Probe, SparseFiles
  <2>2. CASE CreateTemp(j)
    BY <2>2 DEF CreateTemp
  <2>3. CASE Run(j)
    BY <2>3 DEF Run
  <2>4. CASE LockCache(j)
    BY <2>4 DEF LockCache
  <2>5. CASE Rename(j)
    BY <2>5 DEF Rename, Unlock
  <2>6. CASE Evict(j)
    BY <2>6 DEF Evict, Unlock
  <2>7. CASE Drop(j)
    BY <2>7 DEF Drop, AfterDrop
  <2>8. CASE Cleanup(j)
    BY <2>8 DEF Cleanup
  <2> QED BY <1>4, <2>1, <2>2, <2>3, <2>4, <2>5, <2>6, <2>7, <2>8 DEF JobStep
<1>5. ASSUME NEW p \in Players, StartJob(p) PROVE RegistryExact' /\ JobInv' /\ NoOrphans' /\ DownInv'
  <2>1. up /\ up'
    BY <1>5 DEF StartJob, Quiet
  <2>2. wants[p] \in Videos /\ UNCHANGED <<cmu, temp, cached>>
    BY <1>5 DEF StartJob, InFlight, KeepInv, WantInv, diskVars
  <2>3. CASE Running(wants[p])
    <3>1. UNCHANGED jobVars
      BY <1>5, <2>3 DEF StartJob
    <3> QED BY <2>1, <2>2, <3>1 DEF jobVars
  <2>4. CASE ~Running(wants[p])
    <3>1. PICK j \in Jobs : /\ jpc[j] = "over"
                            /\ registry' = [registry EXCEPT ![wants[p]] = j]
                            /\ video' = [video EXCEPT ![j] = wants[p]]
                            /\ jpc' = [jpc EXCEPT ![j] = "probe"]
                            /\ \E m \in Unready : mode' = [mode EXCEPT ![j] = m]
      BY <1>5, <2>4 DEF StartJob, JGoto, Becomes
    <3>2. registry[wants[p]] = None /\ failed' = failed
      BY <1>5, <2>4 DEF StartJob, Running
    <3>3. RegistryExact' /\ NoOrphans'
      BY <2>1, <2>2, <3>1, <3>2
    <3>4. JobInv' /\ DownInv'
      BY <2>1, <2>2, <3>1, <3>2 DEF Unready
    <3> QED BY <3>3, <3>4
  <2> QED BY <2>3, <2>4
<1>6. ASSUME NEW p \in Players, PlayerOnly(p) PROVE RegistryExact' /\ JobInv' /\ NoOrphans' /\ DownInv'
  <2>1. up
    BY <1>6 DEF PlayerOnly, AskVideo, RequestVideo, RequestLive, GiveUp, LookUp, Extract, HasVideo,
                FirstLook, GetJob, SecondLook, AwaitReady, ThirdLook, FourthLook, Attach, OpenCached,
                Look, Quiet
  <2>2. UNCHANGED <<up, registry, video, jpc, mode, failed, cmu, temp, cached>>
    BY <1>6, PlayerFrame
  <2>3. \A j \in Jobs : Active(j)' <=> Active(j)
    BY <2>2
  <2>4. RegistryExact' /\ NoOrphans'
    BY <2>2, <2>3
  <2>5. JobInv' /\ DownInv'
    BY <2>1, <2>2
  <2> QED BY <2>4, <2>5
<1> QED BY <1>1, <1>2, <1>3, <1>4, <1>5, <1>6 DEF Next, HandlerStep, PlayerOnly

(* A step of a job is one of its video's, and takes a player off the list  *)
(* of the owed when it takes from it what PromiseInv says it has.          *)
LEMMA KeepJobStep ==
  ASSUME RegInv, KeepInv, NEW j \in Jobs, JobStep(j)
  PROVE  KeepInv'
<1> USE ManagerAssumption
    DEF RegInv, KeepInv, TypeOK, RegistryExact, JobInv, WantInv, PromiseInv, PromiseKept, Pending,
        Coming, Early, Spent, Active, JGoto, Fails, Becomes, jobVars, diskVars, playerVars
<1>0. UNCHANGED <<up, ppc, wants, job, finished>> /\ owed' \subseteq owed
  BY JobFrame DEF JobStep, Probe, CreateTemp, Run, LockCache, Rename, Evict, Drop, Cleanup
<1>1. CASE Probe(j)
  BY <1>0, <1>1 DEF Probe, SparseFiles, Unready
<1>2. CASE CreateTemp(j)
  BY <1>0, <1>2 DEF CreateTemp
<1>3. CASE Run(j)
  BY <1>0, <1>3 DEF Run
<1>4. CASE LockCache(j)
  BY <1>0, <1>4 DEF LockCache
<1>5. CASE Rename(j)
  BY <1>0, <1>5 DEF Rename, Unlock
<1>6. CASE Evict(j)
  BY <1>0, <1>6 DEF Evict, Unlock
<1>7. CASE Drop(j)
  BY <1>0, <1>7 DEF Drop, AfterDrop
<1>8. CASE Cleanup(j)
  BY <1>0, <1>8 DEF Cleanup
<1> QED BY <1>1, <1>2, <1>3, <1>4, <1>5, <1>6, <1>7, <1>8 DEF JobStep

(* A handler that has gone past the registry finds the video in the cache: *)
(* getJob found no job only because it had published, and a job whose      *)
(* probe failed is no longer owed to anyone.                               *)
LEMMA KeepPlayerStep ==
  ASSUME RegInv, KeepInv, NEW p \in Players, PlayerOnly(p)
  PROVE  KeepInv'
<1> USE ManagerAssumption
    DEF RegInv, KeepInv, TypeOK, RegistryExact, WantInv, PromiseInv, PromiseKept, Pending,
        Coming, Early, Spent, Active, PGoto, Quiet, InFlight
<1>0. UNCHANGED <<up, registry, video, jpc, mode, failed, cmu, temp, cached>>
  BY PlayerFrame
<1>1. CASE AskVideo(p)
  BY <1>0, <1>1 DEF AskVideo
<1>2. CASE RequestVideo(p) \/ RequestLive(p)
  BY <1>0, <1>2 DEF RequestVideo, RequestLive
<1>3. CASE GiveUp(p)
  BY <1>0, <1>3 DEF GiveUp
<1>4. CASE LookUp(p)
  BY <1>0, <1>4 DEF LookUp
<1>5. CASE Extract(p)
  BY <1>0, <1>5 DEF Extract
<1>6. CASE HasVideo(p) \/ FirstLook(p)
  BY <1>0, <1>6 DEF HasVideo, FirstLook, Look
<1>7. CASE SecondLook(p) \/ ThirdLook(p)
  BY <1>0, <1>7 DEF SecondLook, ThirdLook, Look
<1>8. CASE FourthLook(p)
  BY <1>0, <1>8 DEF FourthLook, Look
<1>9. CASE GetJob(p)
  <2> DEFINE j == registry[wants[p]]
  <2>1. /\ ppc[p] = "getjob" /\ wants[p] \in Videos /\ job[p] = None
        /\ job' = [job EXCEPT ![p] = j] /\ ppc' = [ppc EXCEPT ![p] = IF j = None THEN "second" ELSE "wait"]
        /\ UNCHANGED <<wants, finished, owed>>
    BY <1>9 DEF GetJob, AfterNoJob, playerVars
  <2>2. j # None => Active(j) /\ video[j] = wants[p]
    BY <2>1
  <2>3. WantInv'
    BY <1>0, <2>1, <2>2
  <2>4. ASSUME p \in owed, wants[p] \notin cached PROVE Pending(p)'
    <3>1. j \in Jobs /\ ~Spent(j) /\ p \notin finished
      BY <2>1, <2>4
    <3>2. mode[j] # "bad" /\ (mode[j] \in Ready => Coming(j) \/ Early(j))
      BY <2>2, <2>4, <3>1 DEF JobInv, Unready, Ready
    <3> QED BY <1>0, <2>1, <3>1, <3>2
  <2>5. PromiseInv'
    BY <1>0, <2>1, <2>4
  <2>6. PromiseKept'
    BY <1>0, <2>1
  <2> QED BY <2>3, <2>5, <2>6
<1>10. CASE AwaitReady(p)
  BY <1>0, <1>10 DEF AwaitReady, Ready
<1>11. CASE Attach(p)
  BY <1>0, <1>11 DEF Attach, WithoutFile
<1>12. CASE OpenCached(p)
  BY <1>0, <1>12 DEF OpenCached
<1> QED BY <1>1, <1>2, <1>3, <1>4, <1>5, <1>6, <1>7, <1>8, <1>9, <1>10, <1>11, <1>12 DEF PlayerOnly

(* A restart finds nothing running, so what is owed then is in the cache;  *)
(* a new job, which no handler holds, is a pending one.                    *)
LEMMA KeepStep == RegInv /\ KeepInv /\ [Next]_vars => KeepInv'
<1> SUFFICES ASSUME RegInv, KeepInv, [Next]_vars PROVE KeepInv'
  OBVIOUS
<1> USE ManagerAssumption
    DEF RegInv, KeepInv, TypeOK, RegistryExact, WantInv, PromiseInv, PromiseKept, Pending, Coming, Early,
        Spent, Active, Quiet, InFlight, jobVars, diskVars, playerVars
<1>1. CASE UNCHANGED vars
  BY <1>1 DEF vars
<1>2. CASE Crash
  BY <1>2 DEF Crash
<1>3. CASE Restart
  <2>1. \A p \in owed : wants[p] \in cached
    BY <1>3 DEF Restart, DownInv
  <2> QED BY <1>3, <2>1 DEF Restart, Cleared
<1>4. ASSUME NEW j \in Jobs, JobStep(j) PROVE KeepInv'
  BY <1>4, KeepJobStep
<1>5. ASSUME NEW p \in Players, StartJob(p) PROVE KeepInv'
  <2>1. /\ ppc[p] = "start" /\ wants[p] \in Videos /\ job[p] = None /\ p \notin finished
        /\ ppc' = [ppc EXCEPT ![p] = "idle"]
        /\ UNCHANGED <<cached, temp, wants, job, finished>>
    BY <1>5 DEF StartJob, PGoto
  <2>2. CASE Running(wants[p])
    <3>1. /\ UNCHANGED <<registry, video, jpc, mode, failed>>
          /\ owed' = owed \/ (owed' = owed \cup {p} /\ ~Spent(registry[wants[p]]))
      BY <1>5, <2>2 DEF StartJob
    <3>2. WantInv' /\ PromiseKept'
      BY <2>1, <2>2, <3>1 DEF Running
    <3>3. PromiseInv'
      BY <2>1, <2>2, <3>1 DEF Running
    <3> QED BY <3>2, <3>3
  <2>3. CASE ~Running(wants[p])
    <3>1. PICK j \in Jobs : /\ jpc[j] = "over" /\ \A q \in Players : job[q] # j
                            /\ registry' = [registry EXCEPT ![wants[p]] = j]
                            /\ video' = [video EXCEPT ![j] = wants[p]]
                            /\ jpc' = [jpc EXCEPT ![j] = "probe"]
                            /\ \E m \in Unready : mode' = [mode EXCEPT ![j] = m]
      BY <1>5, <2>3 DEF StartJob, JGoto, Becomes
    <3>2. registry[wants[p]] = None /\ failed' = failed /\ owed' = owed \cup {p}
      BY <1>5, <2>3 DEF StartJob, Running
    <3>3. WantInv' /\ PromiseKept'
      BY <2>1, <3>1, <3>2
    <3>4. j \notin failed /\ Pending(p)'
      BY <2>1, <3>1, <3>2 DEF JobInv
    <3>5. ASSUME NEW q \in owed, q # p, wants[q] \notin cached PROVE Pending(q)'
      <4>1. Pending(q) /\ wants[q] # wants[p] /\ q \in Players
        BY <3>2, <3>5
      <4>2. registry[wants[q]] # j
        BY <3>1, <4>1
      <4> QED BY <2>1, <3>1, <3>2, <4>1, <4>2
    <3>6. PromiseInv'
      BY <2>1, <3>2, <3>4, <3>5
    <3> QED BY <3>3, <3>6
  <2> QED BY <2>2, <2>3
<1>6. ASSUME NEW p \in Players, PlayerOnly(p) PROVE KeepInv'
  BY <1>6, KeepPlayerStep
<1> QED BY <1>1, <1>2, <1>3, <1>4, <1>5, <1>6 DEF Next, HandlerStep, PlayerOnly

(* Jobs and handlers keep all of the above (run, startJob, liveHandler).   *)
THEOREM Invariant == Spec => [](RegInv /\ KeepInv)
<1>1. RegInv /\ KeepInv /\ [Next]_vars => (RegInv /\ KeepInv)'
  BY TypeStep, RegStep, KeepStep DEF RegInv
<1> QED BY InitInv, <1>1, PTL DEF Spec

(* A request holds a job exactly while it looks into it, and no step of a  *)
(* handler or of run leaves its variables' shapes (liveHandler, run).      *)
THEOREM TypeCorrect == Spec => []TypeOK
<1>1. RegInv => TypeOK
  BY DEF RegInv
<1> QED BY Invariant, <1>1, PTL

(* The registry holds exactly the running jobs, whatever number of them    *)
(* there is (startJob, run, finishJob).                                    *)
THEOREM Registry == Spec => []RegistryExact
<1>1. RegInv => RegistryExact
  BY DEF RegInv
<1> QED BY Invariant, <1>1, PTL

(* No temp file outlives its job and the next restart (run, NewCache).     *)
THEOREM Orphans == Spec => []NoOrphans
<1>1. RegInv => NoOrphans
  BY DEF RegInv
<1> QED BY Invariant, <1>1, PTL

(* However a handler's looks at cache and registry interleave with the end *)
(* of the job, and with other jobs and handlers, a video that was promised *)
(* is cached or on its way and no request is told that it is not           *)
(* (liveHandler, videoFileHandler, startJob, run, finishJob).              *)
THEOREM Promise == Spec => []PromiseKept
<1>1. KeepInv => PromiseKept
  BY DEF KeepInv
<1> QED BY Invariant, <1>1, PTL

(* A handler that finds no file of a job has the finished one waiting in   *)
(* the cache, or a stream's is not made yet (serveSparse, serveLive).      *)
THEOREM Late == Spec => LateHitsCache
<1>1. RegInv /\ KeepInv /\ [Next]_vars =>
        [\A p \in owed :
           ppc[p] = "attach" /\ ppc'[p] \in {"empty", "503"}
             => wants[p] \in cached \/ (ppc'[p] = "503" /\ jpc[job[p]] = "run")]_vars
  <2> SUFFICES ASSUME RegInv, KeepInv, [Next]_vars, NEW p \in owed, ppc[p] = "attach",
                      ppc'[p] \in {"empty", "503"}
               PROVE  wants[p] \in cached \/ (ppc'[p] = "503" /\ jpc[job[p]] = "run")
    OBVIOUS
  <2>1. p \in Players
    BY DEF RegInv, TypeOK
  <2>2. Attach(p)
    <3>1. CASE UNCHANGED vars \/ Crash \/ Restart
      BY <2>1, <3>1 DEF vars, playerVars, Crash, Restart, InFlight, RegInv, TypeOK
    <3>2. ASSUME NEW j \in Jobs, JobStep(j) PROVE FALSE
      BY <3>2, JobFrame
    <3>3. ASSUME NEW q \in Players, PlayerOnly(q) \/ StartJob(q) PROVE Attach(p)
      <4>1. q = p
        BY <2>1, <3>3 DEF PlayerOnly, AskVideo, RequestVideo, RequestLive, GiveUp, LookUp, Extract,
                    StartJob, HasVideo, FirstLook, GetJob, SecondLook, AwaitReady, ThirdLook,
                    FourthLook, Attach, OpenCached, Look, PGoto, RegInv, TypeOK
      <4> QED BY <3>3, <4>1 DEF PlayerOnly, AskVideo, RequestVideo, RequestLive, GiveUp, LookUp, Extract,
                                StartJob, HasVideo, FirstLook, GetJob, SecondLook, AwaitReady, ThirdLook,
                                FourthLook, OpenCached, Look, Quiet
    <3> QED BY <3>1, <3>2, <3>3 DEF Next, HandlerStep, PlayerOnly
  <2>3. job[p] # None /\ mode[job[p]] \in {"sparse", "stream"}
    BY <2>1 DEF KeepInv, WantInv, RegInv, TypeOK
  <2>4. job[p] \notin temp /\ ppc'[p] = WithoutFile(job[p])
    BY <2>1, <2>2 DEF Attach, PGoto, RegInv, TypeOK
  <2>5. wants[p] \in cached \/ Pending(p)
    BY DEF KeepInv, PromiseInv
  <2> QED BY <2>3, <2>4, <2>5 DEF Pending, Coming, Early, WithoutFile, Ready
<1> QED BY Invariant, <1>1, PTL DEF Spec, LateHitsCache
=============================================================================
