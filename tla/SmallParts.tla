----------------------------- MODULE SmallParts ------------------------------
(***************************************************************************)
(* The parts of the system that share nothing with each other and are      *)
(* small enough to be checked together: the interval slices, the player of *)
(* a live stream, and the functions that only compute an answer.  A        *)
(* behaviour is of one part; a call of a function is a step that names its *)
(* arguments, and the invariants look at what the function makes of them.  *)
(***************************************************************************)
EXTENDS SparseFile, RangeHeader, FfmpegArguments, Wrapper, DashToHls, LivePlayback

VARIABLES part,    \* which of the parts this behaviour is of
          asked,   \* the function that is called,
          call     \* and its arguments

small == <<part, asked, call>>

NoCall == [none |-> TRUE]

SmallInit ==
  /\ Init /\ LiveInit /\ asked = "nothing" /\ call = NoCall
  /\ part \in {"file", "live", "calls"}
  /\ part # "live" => secret /\ source = Address("mpd", 0)

-----------------------------------------------------------------------------
(* Ranges of a file of up to four bytes.                                   *)
AskRange ==
  /\ asked' = "range"
  /\ \E h \in HeadersOver(-1 .. 5), n \in 1 .. 4 :
      call' = [header |-> h, size |-> n]

(* Each setting from the environment, a flag or both, with numbers at      *)
(* int64's limits, and the pair of settings that depend on each other.     *)
EdgeAmounts(s) ==
  [amount : {-2 * MaxInt - 4, -2 * MaxInt - 2, -1, 0, 1, 2, 3, 2 * MaxInt, 2 * MaxInt + 2},
   unit : IF s \in Durations THEN {"none", "s", "m", "K"} ELSE {"none", "B", "KB", "m", "s"}]

WrittenTexts(s) ==
  {Absent, Empty, Spaces} \cup
  CASE s \in Numbers -> EdgeAmounts(s) \cup {Garbage}
    [] s = "FfmpegHWAccel" -> Backends \cup {"libx264", Garbage}
    [] s \in {"LogLevel", "Proxy", "YtdlpExtraArgs"} -> {"word", Garbage}
    [] OTHER -> {"word"}

Fill(written) == [s \in Setting |-> IF s \in DOMAIN written THEN written[s] ELSE Absent]

AskConfig ==
  /\ asked' = "config"
  /\ \E build \in {"amd64", "arm64"} :
      \/ \E s \in Setting : \E e, f \in WrittenTexts(s) :
           call' = [build |-> build, env |-> [x \in {s} |-> e], flag |-> [x \in {s} |-> f]]
      \/ \E b \in {Absent, Empty, "vaapi", "qsv"}, c \in {Absent, "vaapi"}, d, e \in WrittenTexts("FfmpegHWDevice") :
           call' = [build |-> build,
                    env  |-> [FfmpegHWAccel |-> b, FfmpegHWDevice |-> d],
                    flag |-> [FfmpegHWAccel |-> c, FfmpegHWDevice |-> e]]

(* Every backend, and every option left out, blank or given by a flag.     *)
AskCommand ==
  /\ asked' = "command"
  /\ \E b \in Backends, preset, crf, video, audio \in {Empty, "word"}, rate, buf \in {Empty, Spaces},
       agent \in {Absent, Empty, "agent"}, others \in BOOLEAN :
      call' = [headers |-> [agent |-> agent, others |-> others],
               flag |-> [FfmpegHWAccel |-> b, FfmpegHWDevice |-> "device", TranscodePreset |-> preset,
                         TranscodeCRF |-> crf, TranscodeVideoBitrate |-> video, TranscodeMaxrate |-> rate,
                         TranscodeBufsize |-> buf, TranscodeAudioBitrate |-> audio]]

(* yt-dlp's answers: the address at the top, in a download or in one of    *)
(* two formats.                                                            *)
SomeAddresses == {a \in Addresses : a.http \/ (a.kind = "file" /\ a.suffix = "other")}
Formats == [address : {a \in SomeAddresses : a.suffix = "other"}, muxed : BOOLEAN]
Protocols == {Absent, {}, {"m3u8"}, {"dash"}, {"http", "dash"}, {"http"}}
Codecs == {Absent, "none", "mp4", "foreign"}

Info(url, downloads, formats, protocol, isLive, vcodec, acodec) ==
  [url |-> url, downloads |-> downloads, formats |-> formats, protocol |-> protocol, live |-> isLive,
   vcodec |-> vcodec, acodec |-> acodec, headers |-> "headers"]

AskRoute ==
  /\ asked' = "route"
  /\ \E protocol \in Protocols, isLive \in BOOLEAN :
      \/ \E a \in SomeAddresses, v, c, pv, pc \in Codecs :
           call' = [info |-> Info(a, <<>>, <<>>, protocol, isLive, v, c),
                    probe |-> [vcodec |-> pv, acodec |-> pc]]
      \/ \E a \in {Absent} \cup {b \in SomeAddresses : ~b.http}, d \in {Absent} \cup SomeAddresses,
            formats \in {<<>>} \cup [1 .. 1 -> Formats] \cup [1 .. 2 -> Formats] :
           call' = [info |-> Info(a, IF d = Absent THEN <<>> ELSE <<d>>, formats, protocol,
                                                  isLive, "mp4", "mp4"),
                    probe |-> [vcodec |-> Absent, acodec |-> Absent]]

(* Windows of a stream of four segments with or without a gap before the   *)
(* third, however they are written.                                        *)
AskPlaylist ==
  /\ asked' = "playlist"
  /\ \E d \in [1 .. 4 -> {2, 3}], gap \in 0 .. 1, numbered, spelled, open \in BOOLEAN,
       runs \in UNION {[1 .. n -> 1 .. 4] : n \in 1 .. 4}, last \in 1 .. 4 :
        LET stream == [d |-> d, at |-> <<0, d[1], d[1] + d[2] + gap, d[1] + d[2] + gap + d[3]>>,
                       numbered |-> numbered, timescale |-> 2]
        IN  /\ DividesWindow(runs, last, stream)
            /\ call' = [stream |-> stream, runs |-> runs, last |-> last, spelled |-> spelled,
                        open |-> open, sets |-> <<>>, bases |-> <<>>]

(* Manifests of up to two adaptation sets, templates at any level, bases.  *)
AskManifest ==
  /\ asked' = "playlist"
  /\ \E r1, r2 \in {<<>>, <<1>>, <<1, 2>>, <<2, 2>>}, v1, v2 \in BOOLEAN,
       bases \in [1 .. 2 -> {Absent, Garbage, [absolute |-> TRUE], [absolute |-> FALSE]}] :
        /\ r1 # <<>> \/ r2 # <<>>
        /\ call' = [stream |-> [d |-> <<2, 2, 1>>, at |-> <<0, 2, 4>>, numbered |-> TRUE, timescale |-> 0],
                    runs |-> <<2, 3>>, last |-> 3, spelled |-> FALSE, open |-> FALSE,
                    sets |-> <<[video |-> v1, rates |-> r1], [video |-> v2, rates |-> r2]>>, bases |-> bases]

(* Calls of the wrapper with up to three arguments in any order, and slow  *)
(* or failing servers.                                                     *)
AskWrapper ==
  /\ asked' = "wrapper"
  /\ \E args \in UNION {[1 .. n -> Arguments] : n \in 0 .. 3},
       server \in [address : {Empty, "address", Garbage}, answers : BOOLEAN], cached \in BOOLEAN,
       a \in {Absent, [kind |-> "file", suffix |-> "other", http |-> TRUE]}, codec \in {Absent, "mp4"},
       ytdlp \in 0 .. 3, probe \in 0 .. 2 :
      /\ Len(args) = 3 => ytdlp = 0 /\ probe = 0
      /\ call' = [args |-> args, server |-> server, cached |-> cached,
                  info |-> Info(a, <<>>, <<>>, Absent, FALSE, codec, "mp4"),
                  took |-> [ytdlp |-> ytdlp, probe |-> probe]]

Return == asked # "nothing" /\ asked' = "nothing" /\ call' = NoCall

SmallNext ==
  \/ part = "file" /\ Next /\ UNCHANGED <<live, small>>
  \/ part = "live" /\ LiveNext /\ UNCHANGED <<vars, small>>
  \/ /\ part = "calls" /\ UNCHANGED <<vars, live, part>>
     /\ \/ asked = "nothing" /\ (AskRange \/ AskConfig \/ AskCommand \/ AskRoute
                             \/ AskPlaylist \/ AskManifest \/ AskWrapper)
        \/ Return

SmallSpec == SmallInit /\ [][SmallNext]_<<vars, live, small>>

-----------------------------------------------------------------------------
(* A player that seeks while the video downloads gets what it would get    *)
(* once the video is cached (serve.go:143).                                *)
LiveAnswersAsCached ==
  asked = "range" => AnsweredAsAsked(call.header, call.size)

(* An accepted configuration is the one that was written, and a readable   *)
(* one is accepted (config.go:91).                                         *)
AcceptedAsWritten ==
  asked = "config" =>
    /\ AcceptedIsWritten(Fill(call.env), Fill(call.flag), call.build)
    /\ ReadableIsAccepted(Fill(call.env), Fill(call.flag), call.build)

(* ffmpeg can read every command that an accepted configuration leads to   *)
(* (ffmpeg.go:146).                                                        *)
CommandWhole ==
  asked = "command" =>
    /\ Accepted(Fill(<<>>), Fill(call.flag), "amd64")
    /\ EncodesAsConfigured(LoadConfig(Fill(<<>>), Fill(call.flag), "amd64"), call.headers)

(* What yt-dlp says of a video, if it is true of the address found,        *)
(* decides whether it is downloaded, proxied or remuxed, and how a         *)
(* playlist is fetched (handler.go:193).                                   *)
RouteFits ==
  asked = "route" => RouteIsFit(call.info, call.probe)

(* The document of a call: the stream's timeline in the template of the    *)
(* innermost level of the representation that a call asks for.             *)
Template(c) == TemplateOf(c.stream, c.runs, c.last, c.spelled, c.open)

Other == [media |-> FALSE, start |-> 7, timescale |-> 7, timeline |-> <<>>]

Document(c) ==
  IF c.sets = <<>>
  THEN [sets |-> <<[video |-> TRUE, template |-> Template(c),
                    reps |-> <<[bandwidth |-> 1, template |-> Absent]>>]>>,
        template |-> Other, bases |-> c.bases]
  ELSE [sets |-> [i \in DOMAIN c.sets |->
                   [video |-> c.sets[i].video, template |-> IF i = 1 THEN Other ELSE Absent,
                    reps |-> [j \in DOMAIN c.sets[i].rates |->
                      [bandwidth |-> c.sets[i].rates[j], template |-> IF i = 1 THEN Template(c) ELSE Absent]]]],
        template |-> Template(c), bases |-> c.bases]

(* The playlist a live DASH manifest is converted to is the stream's       *)
(* window (dash.go:103).                                                   *)
PlaylistExact ==
  asked = "playlist" =>
    ConvertsWindow(Document(call), "manifest", call.stream, call.runs[1],
                   LastShown(call.runs, call.last, call.open))

(* The links a player of a live stream lives on (hls.go:174, token.go:81). *)
LinksGood == LinksFit /\ LinksLast

(* The game that calls the wrapper finds what it can read, or a failure    *)
(* (wrapper/main.go:33).                                                   *)
CallerUnderstands ==
  asked = "wrapper" =>
    CallerIsServed(call.args, call.server, call.cached, call.info, call.took)
=============================================================================
