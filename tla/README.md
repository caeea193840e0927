# vrc-video-proxy: models, checks and proofs

The server in `src/server` stands between a game's video player and the sites
the videos come from. It resolves an address with yt-dlp, downloads the video
into a disk cache and plays it *while* it downloads, with seeking where the
upstream allows it. This directory models that in TLA+, checks the models with
TLC and proves the core theorems with TLAPS.

## The system

| component | state | operations | modules |
|---|---|---|---|
| sparse file (`sparse.go`) | two slices of intervals: what is present, what is in flight | `writeAt`, `reserve`, `reserveLowest`, `releaseInflight`, queries | `IntervalSet`, `SparseFile`, `SmallParts` |
| sparse download (`jobs.go`, `sparse.go`, `serve.go`) | the shared file, its mutex and condition variable, fill slots, the job's context | driver `runSparse`, seek fills `requestFillAt`, `fillRange`, wakers, `finishJob`, readers `serveSparse` | `SparseDownload` |
| sequential and remux download (`jobs.go`, `ffmpeg.go`, `serve.go`) | `Job.written`, `done`, `err`, the temp file, ffmpeg and its pipe | `runSequential`, `runRemux`, `copyTee`, `tailReader`, `serveLive` | `SequentialDownload` |
| job registry and handlers (`jobs.go`, `handler.go`) | `JobManager.jobs`, temp files, cache entries | `startJob`, `getJob`, `run`, `finishJob`, `getVideoHandler`, `videoFileHandler`, `liveHandler`, restart | `JobManager`, `Routing` |
| disk cache (`cache.go`) | files and modification times, `cache.mu` | `finalize`, scan, eviction, `Touch` | `DiskCache` |
| live HLS proxy (`hls.go`, `memcache.go`) | memory cache, singleflight calls, fetch slots | `ServeManifest`, `ServeSegment`, `fetch`, `rewriteHLSPlaylist` | `SegmentProxy`, `LivePlayback` |
| DASH conversion (`dash.go`) | none | `dashToHLS` | `DashToHls` |
| tokens, cache keys (`token.go`, `cachekeys.go`) | the key | sign, verify, hash | `LivePlayback` |
| range header (`serve.go`) | none | `parseSingleRange` | `RangeHeader` |
| extraction (`yt-dlp.go`, `extractor.go`, `ffprobe.go`) | none | run yt-dlp, find the stream, choose a route | `Routing`, `Wrapper` |
| ffmpeg arguments (`ffmpeg.go`) | none | `openRemux`, `transcodeArgs` | `FfmpegArguments` |
| configuration (`config.go`) | none | `LoadConfig` | `Settings` |
| launcher (`main.go`, `process_*.go`) | server, child process, signals | `runServer`, `runStandalone`, `runWithGameCommand`, `stopProcess`, `shutdownServer` | `Launcher` |
| wrapper (`src/wrapper`) | none | `run`: forward one request | `Wrapper` |
| plumbing (HTTP client, lookup of executables, logs) | none | | none |

How they interact. `getVideoHandler` looks in the disk cache and, on a miss,
asks yt-dlp and starts a job (`startJob`, one per cache id). The job runs in a
goroutine: it probes the upstream, closes `ready` and downloads in sparse,
sequential or remux mode into a temp file, which `finalize` renames into the
cache. `liveHandler` looks in the cache, then in the registry, and attaches the
request to the job's temp file; it shares the job's mutex and condition variable
with the downloader. The HLS proxy is separate from all this and shares nothing
with it but the HTTP client; a live stream's player comes to it by signed links, the
first from `getVideoHandler`, the others from the playlists it rewrites. The game
itself talks to `src/wrapper`, which stands where it expects yt-dlp and asks
`getVideoHandler` for it.

What is hard here, and the properties meant for it:

* **Sleeping and waking.** Readers and the driver sleep on one condition variable
  and are woken by writers, by the end of the job and by goroutines that watch
  contexts: `SleepersHaveReason`, `ReadersEnd`, `JobEnds`, `DriverSleepsOnFetch`.
* **Unlocked windows.** `writeAt` writes the disk without the mutex, handlers look
  at cache and registry one after the other, `Touch` takes no mutex:
  `PresentIsOnDisk`, `PromiseKept`, `LateHitsCache`, `EvictsLeastRecent`, `NoNeedlessEviction`.
* **Concurrent fetches.** Driver and seeks share a file: `FetchedOnce`; requests share a fetch: `OneFetchPerSegment`,
  `RequestsEnd`, `FailsForCause`.
* **Failure at any point.** Short, broken, stalled and misdirected upstreams, full
  disks, a dying ffmpeg, the timeout, disconnects, crashes: `CachedIsWhole`,
  `WholeIsWhole`, `CutOnlyForCause`, `BudgetKept`, `NoOrphans`.
* **What a client is told before it is known.** The length of a video that is still to come: `LengthSent`.
* **Whatever ends first.** Signal, game and server may end in any order while the launcher waits for
  one of them: `ExitTellsAll`, `LeavesNothing`, `LauncherEnds`.

* **Two answers to one question.** A seek must get the same bytes during the download and
  after it (`LiveAnswersAsCached`); a link must open until its last second and not after, and a
  refetched playlist must renew it (`LinksGood`); a window that slides must not renumber segments (`PlaylistExact`).
* **Combinations nobody tries.** Sources, units and widths of settings (`AcceptedAsWritten`), backends
  and options of ffmpeg (`CommandWhole`), shapes of yt-dlp's answer (`RouteFits`), arguments,
  timeouts and formats between game, wrapper and server (`CallerUnderstands`).

`PROJECT.json` lists every hazard at its line, with the properties that cover it.

## The models

Offsets are **blocks** everywhere: a block is what one successful `Read` returns
at least, so `MaxRead`, `Chunk` and `Size` are small numbers of blocks. A file is
the set of blocks it holds, or the prefix's length. Names, headers, logging and
response wording are left out. Every action is what one goroutine does between
two points where another could notice: a critical section, a system call, a
channel operation.

**`Download`** is the abstract specification: a file that is being filled, an
outcome (running, cached or failed), and readers that are sent the blocks of the
range they asked for, in order and only blocks that are there, and end whole,
cut short after a failure or their own departure, or too late to attach.
`SparseDownload` and `SequentialDownload` are both shown to implement it
(`IsDownload`, by `INSTANCE Download WITH`).

**`IntervalSet`** translates `intervalSet` slice by slice (a loop
is a function of the number of its turns) and **`SparseFile`** runs every sequence of
operations on it beside the plain sets of offsets it should stand for. That is
what entitles `SparseDownload` to use sets: `SlicesExact`, `QueriesAgree` and
`ReservesFreeOffsets` say that the slices answer as the sets do.

**`SparseDownload`** has the driver (`dpc`), one fill per thread (`fpc`: the driver's own
and a bounded number of seek fills), the readers (`rpc`), and the goroutines that
turn the end of a context into a broadcast. `present` and `inflight` are the file's two
interval sets, `sleeping` the condition variable's wait set.
Sparse mode's order of events is kept: `reserveLowest` and
`waitProgress` are separate critical sections, `fillRange` holds a slot of the
manager-wide semaphore while it runs, `writeAt` checks the descriptor, writes, and marks,
in three steps; `closeWriter` takes the descriptor away first.

**`SequentialDownload`** has the driver (`dpc`, from the open of the upstream to
`finishJob`), ffmpeg on a pipe of `Pipe` blocks if the job is a remux job (`remux`, chosen at the start), and the tail readers.
The probe of a sequential job may have found a length or not (`sized`); a remux job has none.
`written` is what is published, `onDisk` what is in the file: readers read the file
first, so they may be ahead of `written`.

**`JobManager`** puts the handlers, the registry, the temp files and the cache
together; the download itself is one step (`Run`), since the two modules above say what
it does. A player is one client with one request at a time; `owed` is a history variable:
the players that were given an address that ought to work, until the job fails,
the entry is evicted or the server crashes. A request that is given a job without a temp file ends with an `empty`
answer (`serveSparse`) or a `503` (`serveLive`), before the file is made or after it was renamed: `PromiseKept` is about the
video and about 404 and 502, and `LateHitsCache` says when the other two can happen to a player that is owed the video. Eviction takes any entry here;
**`DiskCache`** models which: `older` orders the files by modification time, `queue` and `order` are what `evictLocked` has left
to try and the order its scan found, and totals count the bytes of a set of entries. A scan may miss entries
(`scanLocked` skips one whose `Info` fails) or all of them (the directory cannot be read): `unseen`, a history variable, has those, and the
budget is one of the others; `touched` is a history variable, the entries whose time changed after the scan.

**`SegmentProxy`** has the requests for segments and manifests, the call that singleflight keeps per
segment, the slots and the memory cache, whose entries expire at any time. singleflight and the
LRU are external: they are modelled from their use, LRU's choice of the victim being any.

**`Launcher`** has the main goroutine (`pc`), the goroutine in `ListenAndServe`, the game's process
and the channels between them, with and without a game (`withGame`) and for both builds of
`stopProcess` (`unix`), which end a game with different statuses (`Killed`). The port may be free, taken by another program or unusable. `serverErr` is a
history variable: `ListenAndServe` failed.

The functions that only compute an answer are operators: **`Texts`** has what they tell texts apart
by (absent, empty, blank, garbage; anything else is a number or a word).

* **`RangeHeader`**: `parseSingleRange` as `serveSparse` uses it, beside what `http.ServeContent` answers
  (external) and the set of offsets that a range stands for.
* **`Settings`**: `LoadConfig`. A setting's text comes from a variable, a flag or neither; a number is an
  amount in halves with a unit, which may be one of the other kind ("5m" is a size of 5 MiB, "5s" is none, "5K" is no duration), and is converted with int64's width as amd64 and arm64 do it.
  `Decided` and `AsWritten` are the reference: which source decides, and what it wrote, without a width.
* **`FfmpegArguments`**: the argument lists, from an accepted configuration of `Settings`; the reference is
  how ffmpeg reads a command (options with a value each, input options first).
* **`Routing`**: `findStreamURL`, `classifyEndpoint`, `decideTranscode` and the switch of
  `getVideoHandler`. An address also has a `kind`, what is really behind it, which the code cannot see and the
  property is about, as far as yt-dlp tells the truth of it (`Told`). `RouteFits` says nothing of a download's headers and re-encoding, which the
  code drops, and lets a live stream that is one file be downloaded, as the code does.
* **`Wrapper`**: one call of the stand-in from the arguments to stdout, through `Routing`'s server, with the
  time that yt-dlp and ffprobe take.
* **`DashToHls`**: the conversion. Its reference is a *stream* (start times and durations): a manifest shows a window of it,
  divided into *runs* of equal segments that follow each other, one entry of the timeline each. The loops are recursive functions
  of the number of turns.

**`LivePlayback`** is a state machine: the clock, the upstream's window, the signer's key, and a player that
holds a manifest link and the links of its last playlist, follows renditions and refetches. `refused` is a
history variable, the links that were answered 403.

**`SmallParts`** puts these together with `SparseFile`, for one run: they share no state, so a behaviour is of
one `part` (the slices, the live player, or calls), and a call of a function is a step that chooses its
arguments. The invariants are evaluated at every such state.

Definitions whose names begin with `Bug` are variants that carry a plausible
bug. They are not used by the specifications; they show that each property can tell.

## What is checked

| run | bounds | what it shows |
|---|---|---|
| `small_parts` | slices: 5 blocks, chunks of 2; links: lifetime of 1.5 s, clock to 3 s, 1 restart; calls: below | the slices are canonical and exact under every sequence of operations; links live as long as they should; every bounded call is answered as its reference says |
| `sparse_job` | 3 blocks in one window, reads of up to 2, 2 slots, driver + 2 seek fills, 1 reader, 1 foreign fill | safety of a whole job, and that it is a `Download` |
| `sparse_live` | 2 blocks, 1 slot, a foreign fill competing, ranges ignored at will | the job and its readers end |
| `sequential_download` | both modes, with and without a length, 3 blocks, 2 readers, reads of up to 2, pipe of 1 | safety, `Download`, the length announced, and that job and readers end although ffmpeg may block |
| `job_manager` | 1 video, 3 jobs, 2 players (symmetric) | handlers, registry, temp files, cache |
| `manager_live` | 2 videos, 2 jobs, 1 player | jobs and requests end (`EveryoneEnds`) |
| `disk_cache` | files of 1, 2 and 3, budget 3, scans that miss any entries | the budget, no needless eviction, oldest first |
| `segment_proxy` | 2 segments (1 too long), 1 manifest (too long), 2 slots, 3 requests, cache of 1 | one fetch at a time, only a stalled upstream keeps anyone waiting |
| `launcher` | no bound but the game's failing statuses, 1 and 3 | exit status, nothing left running, the launcher ends |

Why these bounds are enough to be interesting: three blocks give a gap between two
present ranges and a read that crosses the end of a range; a window over all of them is cut in two by the
driver's range, and two slots with a foreign fill are both free and contended. The properties
of several readers of one sparse job relate each reader to the job and not to another reader, and
are proved for any number. Two tail readers sleep and wake on one condition variable; three jobs of one id
can overlap at their ends (one failing, one dropped, one new); three entries
of which one fills the budget make an eviction need one or several removals;
three requests are a leader, a sharer and a latecomer.

The calls of `small_parts`: every header over numbers from -1 to 5, absent or unreadable, for files of 1 to 4
bytes, so before, at and after each end; every setting alone, from either source or both, with amounts around zero, a
half, and either end of int64 (11 bits here, with a KB of 4 and a second of 2), in units of its own kind and of the other, and the two settings that
depend on each other; every backend with every option left out, blank or given; every answer of yt-dlp with the address at
the top, in a download or in one of two formats, and every protocol and codec; every window of every stream of four segments
with two durations and a gap, divided into runs in every way, with implied or spelled start times and the last run closed or open, and manifests of two adaptation sets with templates and bases at
every level; up to three wrapper arguments in any order, with times in thirds of its timeout. A lifetime of one and a half
seconds has a token made and ended at either half of a second; the upstream's window slides once, the server restarts once.

Every property of these runs has a mutant in `PROJECT.json`: a plausible bug in one definition
under which TLC finds the property violated, within the same bounds.

### Disagreements with the comments

Each of these runs checks one property that a comment states and TLC refutes; the quotes are in
`PROJECT.json`.

* `sparse_lost_wakeup`: the driver's sleep can begin after the last event that would
  end it. With a failed seek fill this leaves a gap nobody fetches until a later seek's
  broadcast, or else the timeout, wakes the driver, with readers waiting for it.
* `remux_stuck`: after a failed write the driver waits for an ffmpeg that waits for the driver.
* `proxy_cancelled`: everyone who shares a fetch fails when the first client leaves.

Smaller ones are in the models without a run of their own. The semaphore of fills, called a per-video
cap, is shared by all videos (`others` in `SparseDownload`). A 200 answer to a ranged request is
written at the range's offset (`RangeHonoured = FALSE`; the properties about content are checked and
proved for `RangeHonoured`). A live request that comes before the upstream of a sequential job has
answered is refused with 503 (`WithoutFile`): the file is made after `ready` is closed, although `Job.seqFile`, which nothing sets, is
"created before ready" (`jobs.go:63`). So is one that misses the cache just before the rename and reaches the job just after it, with the video
in the cache: "let the caller fall back to the cached file" (`serve.go:58`) has no such caller, and "transparently serves the cached file"
(`src/README.md:63`) holds only for the request after it. `startJob` can return a job that has failed but is not dropped
yet (`Spent`). The server that `waitForServer` finds reachable may be another program's
(`Reachable` in `Launcher`). The limit on manifests cuts segments off too (`Fetched`).

So are these, of the parts in `SmallParts`:

* "A single progressive file is ... cached as-is when its codecs are MP4/AVPro-friendly" (`src/README.md:48`), and re-encoded if not: `serveProgressiveMiss`
  (`handler.go:253`) hands on the address alone, whatever the codecs and whatever "the server may run `ffprobe` once to decide" (`src/README.md:50`), so neither the decision nor yt-dlp's headers reach the job (`Route`). ffprobe
  runs only for files, whose decision is dropped, and can push the answer past the wrapper's timeout (`Elapsed`).
* "the player re-fetches the manifest" (`token.go:31`, `hls.go:22`): the link it refetches is itself a token, which nothing
  renews; after six hours, or a restart with a random key, it is answered 403 (`refused` in `LivePlayback`).
* An address found in a download or a format is classified by the top level's protocol, so a playlist can be stored as a video
  (`Told`), which no property rules out. "Live (an unbounded stream)", which "cannot be cached" (`src/README.md:81`), means HLS and DASH there: a live stream
  served as one file is treated as a download (`Route`).
* An open repeat is "treated as no repeat" (`dash.go:75`): only its first segment is shown. A manifest without `startNumber` is numbered from 1
  at each refetch, whatever its window (`ConvertsWindow`). A `SegmentTemplate` is inherited as a whole and not attribute by attribute.
* The same bad `Range` header is ignored by `/live` and refused with 416 by `/video`, and "the last 0 bytes" the other way round (`ServeContent`).
* A blank flag overrides a variable except for the two flags that `LoadConfig` parses itself; a number too large for int64 is refused
  on amd64 and becomes the largest one on arm64 (`Int64`); a blank setting of ffmpeg is passed on as it is (`Optional`).

### Fairness

Goroutines that can run do run: weak fairness of every driver, reader, handler,
waker and proxy step. Stronger or weaker where the code is:

* The upstream and ffmpeg may stall for ever: a step that waits for them is only fair once its context has
  ended. The job's context does end (`Timeout`, weakly fair: a timer), and kills ffmpeg
  (`exec.CommandContext`). In `SegmentProxy` there is no timeout on a body, and so
  `RequestsEnd` of that module says only that whoever is never answered has a stalled upstream with a patient client to blame.
* A mutex or a channel send that is possible again and again is not passed over for
  ever (strong fairness of `LockCache`, `AcquireSlot`, `StartJob`): Go's mutex has a
  starvation mode, its channels queue senders in order.
* In `SparseDownload` a client that stays eventually takes a block and a disk read eventually works (strong
  fairness of `SendBlock`).
* In `Launcher`, nothing makes a game, a request or the web server end; timers fire and killed processes end.
* Nothing is assumed of clients (asking, leaving), of other jobs' fills, of crashes, and nothing makes a reader attach.

## What is proved

`SparseDownloadProofs` proves, for every number of blocks, fills, readers, slots and
every chunk size, from `SparseAssumption` (the shape of the constants):

* `TypeCorrect`: `Spec => []TypeOK`.
* `Reservations`: no block is reserved by two fills, and none is fetched again once present.
* `Content`, `CacheContent`: if `RangeHonoured`, what is marked present is on disk, and
  a cached file is the whole video.
* `CutForCause`: a response is cut short only for a failure or a disconnect.
* `Sleepers`: no reader sleeps through the arrival of its block, the end of the job or its client's departure.
* `Refinement`: `Spec` implements `Download`'s `DSpec`.

None of the invariants is inductive alone. `TypeInv` adds to `TypeOK` that a fill's position stays in its
range, that what it writes does, and that what a reader is about to send is present. `ResInv` adds to the
two properties of reservations that the driver's fill lives exactly while the driver is in `fillRange`:
otherwise a reservation of the driver could overwrite a fill still at work. `ContentInv` ties a fill to
what is on disk between the write and the mark. `PhaseInv` orders the end of a job: a verdict of "ok"
only for a complete file, a rename only after it, `done` only after both. `SleepInv` adds that a sleeper
is in `waitByte` and that an attached client that has not left has its waker armed. Frame lemmas say which steps
can touch which variables, so each step lemma looks at a few actions only.

`SequentialDownloadProofs` proves the same for the other two modes, for every size, read and pipe and any
set of readers, from `SequentialAssumption`: `TypeCorrect`, `CacheContent`, `WholeStreams` (a stream that
ends with EOF is whole), `NoLostWakeup`, `LengthIsSent` (`LengthSent`: a Content-Length exactly if the probe found one), and `Refinement`. One inductive
invariant carries them all, in five parts: `CopyInv` relates what is published, what is in the buffer and what is on
disk at each point of `copyTee`; `PipeInv` says that what ffmpeg has written is in the file, the buffer
or the pipe, so that an empty pipe of an ffmpeg that exited well means a complete file; `EndInv` relates
`done`, `err` and the fate of the temp file; `ReaderInv` says what each reader has been told.

`LauncherProofs` proves `ExitStatus` (`ExitTellsAll`) and `NothingLeft` (`LeavesNothing`) for every set of
statuses a game may fail with, from `LauncherAssumption`. Their invariant has to know what the status
is worth before the end: 1 in `stopProcess` means that the server's error has been read, and a server that
ended before `Shutdown` was called has failed.

`JobManagerProofs` proves, for any number of videos, jobs and players, from `ManagerAssumption`: `TypeCorrect`,
`Registry` (`RegistryExact`), `Orphans` (`NoOrphans`), `Promise` (`PromiseKept`) and `Late` (`LateHitsCache`). `RegInv` is about
jobs: where a job is in `run` tells which video, mode and temp file it has. `KeepInv` is about handlers. Its core is `PromiseInv`:
a player that is owed its video finds it in the cache, or else its job is in the registry with something to offer and the handler has
not yet gone past the registry; a job that a handler holds still has its file, unless it has none yet or the video is cached. Each step takes both away
only together with the debt, or puts the first in place before it removes the second.

`SegmentProxyProofs` proves `TypeCorrect` and `OneFetch` (`OneFetchPerSegment`) for any
segments, requests, slots and capacity, from `ProxyAssumption`. `CallInv` says that calls and the requests that run them are each other's.

`SparseFileProofs` proves, for every size and chunk, from `SparseFileAssumption`, that the interval slices are what the rest of
the models takes them for: `FileSlicesExact` (`SlicesExact`), `FileReservesFreeOffsets` (`ReservesFreeOffsets`) and
`FileQueriesAgree` (`QueriesAgree`). Each loop over a slice has an invariant: `AddInv` says what `add` has passed, merged and still holds,
`MissingInv` what of the gaps has been found up to the cursor. They are carried through all turns by induction
(`NatSetInduction`, with the set of good numbers where a predicate would be), and give one lemma per operation: `AddExact`,
`RemoveExact`, `MissingExact`, `ReserveExact`, `LowestExact`, `TotalExact`. `SlicesInv` needs no more than that slices are spaced and hold the
offsets of their sets, and that these lie in the file.

`DiskCacheProofs` proves `CacheTypeOK` (`TypeOK`), `CacheBudgetKept` (`BudgetKept`), `CacheNoNeedlessEviction` (`NoNeedlessEviction`)
and `CacheEvictsLeastRecent` (`EvictsLeastRecent`), for every finite set of videos with any sizes, and any budget, from `CacheAssumption`. The first
knows who holds the mutex and that the modification times stay an order through every rename. `BudgetInv` adds that the budget is kept whenever
nobody is between the rename and the end of the loop; `EvictInv`, that in the loop the total is that of the entries there are, that those no longer in the
queue could not be removed, and that the scan's order still holds of all but the touched: a temp file that grows changes no
entry's place.

`SmallPartsProofs` is about the functions. Each theorem has two parts: the property of the run, whose calls are the bounded ones listed
above, for any values of the constants; and the same of every call of a kind named in the theorem, without a bound. The second rests on a lemma about all
the function's inputs, the first on it and on `CallInv`, which says that the calls of `SmallSpec` are of that kind.

* `RangesAnswered` (`LiveAnswersAsCached`): every header over the integers and every size.
* `RoutesFit` (`RouteFits`): answers with any number of downloads and formats, any codecs; where the video goes only if `Told`. `StreamFound` is about the two searches,
  `EveryRouteFits` about what is done with what they find.
* `CallersServed` (`CallerUnderstands`): any list of arguments, any time that yt-dlp and ffprobe take. `RequestParsed` says
  which argument decides, `EveryCallerIsServed` goes through the causes a failure may have.
* `ConfigAsWritten` (`AcceptedAsWritten`): every setting written at once, by both sources, with numbers of any size, for any `MaxInt` above 1.
  The conversions come first (`Converted`, `NumberAsWritten`, `NumberAccepted`), the limits last (`EveryReadableIsAccepted`).
* `CommandsWhole` (`CommandWhole`): any accepted flags (`IsCommandFlags`) whose words are not themselves options of ffmpeg. A command is
  built up as the code builds it: a list of names and values (`Pairs`) is made of shorter ones with different names (`MorePairs`), `Command` is
  what is known of it once the input is there (`CommandStarts`), options of the output keep it so (`CommandGoesOn`), and one that
  ends with the output can be read, and has just the options that went in (`CommandReads`).
* `PlaylistsExact` (`PlaylistExact`): streams of any length, with any durations and gaps, any window, any division into runs, any adaptation
  sets and BaseURLs. `TimelineExact` is an induction over the turns of the loop: after each the list is that of the segments up to
  the end of the run (`State`), which the next entry extends by one run (`RunNamed`), whose start times are multiples of its duration apart (`RunTimes`).
  `BestChosen`, `LongestCovers` and `BaseExact` are about the other choices, and `EveryWindowIsConverted` puts them together.
* `LinksHold` (`LinksGood`) is about steps, not calls: every link the player holds was signed for one lifetime at a past time, and
  was refused only with another key or later.
* `FileInside`: a behaviour of `SmallSpec` is one of `SparseFile`, so what is proved there holds of the run.

They rest on `TextAssumption`, `SettingsAssumption`, `RoutingAssumption`, `CommandAssumption`, `DashAssumption` and `LiveAssumption`, which say that
the model values for an absent, blank or unreadable text are none of the words, that no template is absent, and that a link lives for more than half a second and an integer has more than one bit.

Both refinements send each step to one of `Download` or to a stutter: a mark or a write *arrives*, the rename
*publishes*, a verdict or `finishJob` *fails*, a reader's block is *sent*.

Only model-checked: liveness and everything about fairness (`ENABLED` is out of the prover's reach). Every
safety property of a passing run is proved. The type invariants of `JobManager`, `SegmentProxy` and `DiskCache` are proved
and not in a run.

## What is left out

* HEAD requests, 416 and the wording of responses; `os.Open` failing for reasons other than a missing file; the disk failing to *remove* a
  file in `JobManager` (the error is ignored by the code, and the file stays until a restart).
* Upstreams that end a body of unknown length early without saying so (HTTP/1.0): the transport reports a
  clean end, and the truncated file is cached. No check in the code could tell.
* In `Launcher`: other processes of the game's group, and a launcher that a signal ends between
  `cmd.Start` and `signal.Notify`, which does leave a game behind (`dead`): the properties are about one that leaves of itself.
* Equal modification times in `DiskCache`.
* In `RouteFits`: an address whose kind yt-dlp does not tell or tells wrongly, and what a download needs of headers and codecs.
* The six hours of a manifest's link and a random key are in `LivePlayback` as they are: `LinksGood` permits the 403 that follows.
* A slow yt-dlp that a probe follows, which together outlast the wrapper: `CallerUnderstands` excuses it.
* Sparse jobs of size 0: `run` never makes one (`size > 0`), though `runSparse` has a branch for it.
* The numbers of readers, seek fills, foreign fills, jobs, players and requests are bounds of the models, not
  of the code; jobs and fills that are over are reused.
* An ffmpeg that nobody waits for when its job cannot create a temp file (`jobs.go:258`), and the second fetch of a segment by a request
  that missed the cache just before the first was stored (`hls.go:236`): processes and traffic that no modelled state shows.
* Headers with several ranges (`ServeContent` answers them, `/live` sends the whole file); the precision of floating-point numbers,
  "nan" and "inf", and integers written in other bases; times of a manifest past 2^64, where the code's would wrap; the syntax of JSON, URLs and playlists.
* `expandDASHTemplate` (identifiers and padding), periods after the first, relative addresses, and the check of addresses the proxy may
  fetch; `EXT-X-RENDITION-REPORT`, whose address goes to the segment endpoint.
* Cache keys and cryptography: an id is a name, a token opens under its key. yt-dlp's arguments, and starting and
  stopping it and ffprobe but for their timeouts.
* Plumbing (`httpclient.go`, `dependencies.go`, logging): no state that a property could relate.

## Plan

Done: the three modes of a download, the registry and handlers, the live HLS proxy and the launcher, and the disk cache, with proofs; the functions that compute ranges, settings, commands, routes and playlists, and the life of signed links,
checked in one run, with proofs for all of them. What would come next, in this order:

1. Runs for what the text above only tells: a restart that strands a live player, a progressive file that is not re-encoded.
2. A composition of `LivePlayback` and `SegmentProxy`: what a cached segment is worth to a player whose link has ended.
3. `expandDASHTemplate` and inheritance of templates against the standard.
