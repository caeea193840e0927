------------------------------ MODULE Wrapper -------------------------------
(***************************************************************************)
(* One call of the yt-dlp stand-in (src/wrapper/main.go): its arguments,   *)
(* the request it makes of getVideoHandler, and what the game reads on     *)
(* stdout.  An argument is the set of what the wrapper looks for in it.    *)
(* Time is in units of a third of the wrapper's timeout.                   *)
(***************************************************************************)
EXTENDS Routing

Arguments == (SUBSET {"[protocol^=http]", "--flat-playlist"}) \cup {{"http"}}

WrapperTimeout == 3
YtdlpTimeout   == 3
ProbeTimeout   == 1

(* parseWrapperRequest; a URL is named by its place.                       *)
ParseWrapperRequest(args) ==
  LET urls == {i \in DOMAIN args : args[i] = {"http"}}
      In(what, but) == \E i \in DOMAIN args : what \in args[i] /\ but \notin args[i]
  IN  [url    |-> IF urls = {} THEN Absent ELSE First(urls),
       avpro  |-> ~In("[protocol^=http]", "never"),
       source |-> IF In("--flat-playlist", "[protocol^=http]") THEN "resonite" ELSE "vrchat"]

(* What yt-dlp and the probe take; each is stopped at its own timeout, and *)
(* decideTranscode probes a file whose codecs yt-dlp does not name.        *)
Probes(info) ==
  LET a == FindStreamURL(info)
  IN  /\ a # Absent /\ ClassifyEndpoint(info, a) = "file" /\ ~info.live
      /\ Absent \in {info.vcodec, info.acodec}
Elapsed(info, took) ==
  took.ytdlp + IF Probes(info) THEN (IF took.probe > ProbeTimeout THEN ProbeTimeout ELSE took.probe)
               ELSE 0

(* getVideoHandler and writeVideoResponse: a JSON document ends with a     *)
(* newline, an address does not.                                           *)
Body(source) == IF source = "resonite" THEN <<"json", "newline">> ELSE <<"url">>
GetVideo(request, cached, info, took) ==
  IF cached \/ (took.ytdlp < YtdlpTimeout /\ FindStreamURL(info) # Absent)
  THEN [status |-> 200, body |-> Body(request.source),
        after |-> IF cached THEN 0 ELSE Elapsed(info, took)]
  ELSE [status |-> 500, body |-> <<"error", "newline">>,
        after |-> IF took.ytdlp < YtdlpTimeout THEN took.ytdlp ELSE YtdlpTimeout]

(* A variant with a plausible bug: every answer is taken for a line that   *)
(* lacks its end.                                                          *)
BugLine(body) == Append(body, "newline")

Line(body) == IF body = <<>> \/ body[Len(body)] # "newline" THEN Append(body, "newline") ELSE body

(* getVideoEndpoint and fetchVideo: whether the call of the server fails.  *)
FetchFails(server, answer) ==
  \/ server.address = Garbage \/ ~server.answers
  \/ answer.after >= WrapperTimeout \/ answer.status # 200

(* run: server is the address from the environment (blank: the default),   *)
(* and whether something answers there; nothing is written but an answer.  *)
Run(args, server, cached, info, took) ==
  LET request == ParseWrapperRequest(args)
      answer  == GetVideo(request, cached, info, took)
  IN  IF request.url = Absent \/ FetchFails(server, answer)
      THEN [exit |-> 1, stdout |-> <<>>] ELSE [exit |-> 0, stdout |-> Line(answer.body)]

-----------------------------------------------------------------------------
(* The game that calls finds one line on stdout, in its own format: the    *)
(* document if it asked for the whole (Resonite), the address if not; or   *)
(* nothing and a failing status.  It goes without an answer only for want  *)
(* of an address, a server or a stream, or because yt-dlp was slow, or the *)
(* probe after it: the probe alone is never too slow.                      *)
CallerIsServed(args, server, cached, info, took) ==
  LET result == Run(args, server, cached, info, took)
      flat   == \E i \in DOMAIN args : args[i] = {"--flat-playlist"}
      mixed  == \E i \in DOMAIN args : args[i] = {"--flat-playlist", "[protocol^=http]"}
      able   == /\ \E i \in DOMAIN args : args[i] = {"http"}
                /\ server.address # Garbage /\ server.answers
  IN  /\ result.exit = 1 <=> result.stdout = <<>>
      /\ result.exit = 0 /\ flat => result.stdout = <<"json", "newline">>
      /\ result.exit = 0 /\ ~flat /\ ~mixed => result.stdout = <<"url", "newline">>
      /\ result.exit = 0 => able
      /\ able /\ (cached \/ (FindStreamURL(info) # Absent /\ took.ytdlp + ProbeTimeout < YtdlpTimeout))
           => result.exit = 0
=============================================================================
