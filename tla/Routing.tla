------------------------------ MODULE Routing -------------------------------
(***************************************************************************)
(* From yt-dlp's answer about a video to what the server does with it      *)
(* (yt-dlp.go, extractor.go, ffprobe.go, handler.go).                      *)
(*                                                                         *)
(* An address has the suffix of its path, whether the proxy can fetch it   *)
(* (http), and what is really behind it (kind), which the code cannot see. *)
(* A protocol is the set of the words looked for in its name: yt-dlp's     *)
(* "http_dash_segments" is {"http", "dash"}.  A codec fits MP4 ("mp4",     *)
(* "none") or does not ("foreign").                                        *)
(***************************************************************************)
EXTENDS Texts, Sequences

(* What is not there is neither a kind nor a set of words.                 *)
ASSUME RoutingAssumption ==
  /\ Absent \notin {"file", "hls", "dash"}
  /\ \A p \in SUBSET {"m3u8", "dash", "http"} : p # Absent

Kinds == {"file", "hls", "dash"}
Addresses == [kind : Kinds, suffix : {"m3u8", "mpd", "other"}, http : BOOLEAN]

Http(a) == a # Absent /\ a.http

(* The first and the last of some places in a list.                        *)
First(S) == CHOOSE i \in S : \A j \in S : i <= j
Last(S)  == CHOOSE i \in S : \A j \in S : j <= i

(* findStreamURL: the answer's own address, then a download's, then the    *)
(* last format that has both picture and sound, then the last format.      *)
FindStreamURL(info) ==
  LET own    == <<info.url>> \o info.downloads
      listed == {i \in DOMAIN own : Http(own[i])}
      usable == {i \in DOMAIN info.formats : Http(info.formats[i].address)}
      muxed  == {i \in usable : info.formats[i].muxed}
  IN  IF listed # {} THEN own[First(listed)]
      ELSE IF muxed # {} THEN info.formats[Last(muxed)].address
      ELSE IF usable # {} THEN info.formats[Last(usable)].address ELSE Absent

(* A variant with a plausible bug: the prefix is tested first.             *)
BugEndpointFromProtocol(p) ==
  IF p = Absent THEN Absent
  ELSE IF "http" \in p THEN "file" ELSE IF "m3u8" \in p THEN "hls"
  ELSE IF "dash" \in p THEN "dash" ELSE Absent

EndpointFromProtocol(p) ==
  IF p = Absent THEN Absent
  ELSE IF "m3u8" \in p THEN "hls" ELSE IF "dash" \in p THEN "dash"
  ELSE IF "http" \in p THEN "file" ELSE Absent

EndpointFromURL(a) ==
  CASE a.suffix = "m3u8" -> "hls" [] a.suffix = "mpd" -> "dash" [] OTHER -> "file"

ClassifyEndpoint(info, a) ==
  IF EndpointFromProtocol(info.protocol) # Absent
  THEN EndpointFromProtocol(info.protocol) ELSE EndpointFromURL(a)

(* "foreign" is a codec of neither of the two naming conventions.          *)
TranscodeFromCodecs(vcodec, acodec) == "foreign" \in {vcodec, acodec}

(* decideTranscode: ffprobe is asked for codecs that yt-dlp leaves open,   *)
(* for files only; probe is its answer, with Absent where it has none.     *)
DecideTranscode(info, endpoint, probe) ==
  LET Known(told, probed) ==
        IF told = Absent /\ endpoint = "file" /\ ~info.live THEN probed ELSE told
  IN  TranscodeFromCodecs(Known(info.vcodec, probe.vcodec), Known(info.acodec, probe.acodec))

(* Extract fails if no stream is found.                                    *)
Extract(info, probe) ==
  LET a == FindStreamURL(info)
      endpoint == ClassifyEndpoint(info, a)
  IN  [address |-> a, endpoint |-> endpoint, live |-> info.live, headers |-> info.headers,
       transcode |-> DecideTranscode(info, endpoint, probe)]

(* getVideoHandler's switch on a miss, and what each of its branches hands *)
(* on: a download gets the address alone.                                  *)
Route(info, probe) ==
  LET ext == Extract(info, probe)
      To(way, transcode, headers) ==
        [way |-> way, address |-> ext.address, transcode |-> transcode, headers |-> headers]
  IN  IF FindStreamURL(info) = Absent THEN [way |-> "error"]
      ELSE IF ext.endpoint = "file" THEN To("download", FALSE, Absent)
      ELSE IF ext.live THEN To("proxy", FALSE, ext.headers)
      ELSE To("remux", ext.transcode, ext.headers)

-----------------------------------------------------------------------------
(* What yt-dlp says of a's kind is true, and enough to tell it.            *)
Told(info, a) ==
  \/ info.protocol \in CASE a.kind = "file" -> {{"http"}}
                         [] a.kind = "hls"  -> {{"m3u8"}}
                         [] a.kind = "dash" -> {{"dash"}, {"http", "dash"}}
  \/ info.protocol \in {Absent, {}}
     /\ a.suffix = CASE a.kind = "file" -> "other" [] a.kind = "hls" -> "m3u8"
                     [] a.kind = "dash" -> "mpd"

(* A stream is found if there is one, and a format without sound is not    *)
(* chosen while there is one with.                                         *)
FindsStream(info) ==
  LET a == FindStreamURL(info)
      all == {info.url} \cup {info.downloads[i] : i \in DOMAIN info.downloads}
  IN  /\ a # Absent <=> \/ \E b \in all : Http(b)
                        \/ \E i \in DOMAIN info.formats : Http(info.formats[i].address)
      /\ a # Absent /\ (\A b \in all : ~Http(b))
         /\ (\E i \in DOMAIN info.formats : Http(info.formats[i].address) /\ info.formats[i].muxed)
           => \E i \in DOMAIN info.formats : info.formats[i].muxed /\ info.formats[i].address = a
      /\ a # Absent => a.http

(* A stream is found if there is one.  If what yt-dlp says of its kind is  *)
(* true, no playlist is stored as if it were the video, and a live one is  *)
(* proxied; a live stream that is a file is downloaded like any other.     *)
(* Whatever is said of it, what is remuxed or proxied is asked for with    *)
(* yt-dlp's headers, and what is remuxed is re-encoded exactly if yt-dlp   *)
(* names a codec that MP4 has no use for.  A download has neither headers  *)
(* nor re-encoding (serveProgressiveMiss), so the probe never has a say.   *)
RouteIsFit(info, probe) ==
  LET to == Route(info, probe)
  IN  /\ FindsStream(info)
      /\ to.way # "error" /\ Told(info, to.address) =>
           /\ to.way = "download" <=> to.address.kind = "file"
           /\ to.way = "proxy" <=> to.address.kind # "file" /\ info.live
      /\ to.way \in {"proxy", "remux"} => to.headers = info.headers
      /\ to.way = "remux" =>
           (to.transcode <=> "foreign" \in {info.vcodec, info.acodec})
=============================================================================
