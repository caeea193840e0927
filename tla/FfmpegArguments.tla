--------------------------- MODULE FfmpegArguments ---------------------------
(***************************************************************************)
(* The command lines ffmpeg.go builds from an accepted configuration c and *)
(* the request headers yt-dlp names (the agent's, and whether there are    *)
(* others), as flat argument lists.                                        *)
(***************************************************************************)
EXTENDS Settings, Sequences, FiniteSets

(* h264Backends: encoder, and how its pixel format is set.                 *)
PixFmt == [software |-> "yuv420p", nvenc |-> "yuv420p", qsv |-> "nv12",
           videotoolbox |-> "yuv420p", amf |-> "yuv420p"]
Encoder(b) == IF b = "software" THEN "libx264" ELSE b

(* A variant with a plausible bug: an option without its value.            *)
BugOptional(option, value) == IF value = Empty THEN <<option>> ELSE <<option, value>>

Optional(option, value) == IF value \in {Absent, Empty} THEN <<>> ELSE <<option, value>>

InputArgs(headers) ==
  Optional("-user_agent", headers.agent)
  \o (IF headers.others THEN <<"-headers", "lines">> ELSE <<>>) \o <<"-i", "url">>

RateArgs(c) ==
  IF Backend(c) = "software"
  THEN Optional("-preset", c.TranscodePreset)
       \o (IF c.TranscodeVideoBitrate # Empty THEN <<"-b:v", c.TranscodeVideoBitrate>>
           ELSE Optional("-crf", c.TranscodeCRF))
  ELSE <<"-b:v", IF c.TranscodeVideoBitrate = Empty THEN "8M" ELSE c.TranscodeVideoBitrate>>

VideoEncodeArgs(c) ==
  <<"-c:v", Encoder(Backend(c))>> \o RateArgs(c)
  \o Optional("-maxrate", c.TranscodeMaxrate) \o Optional("-bufsize", c.TranscodeBufsize)
  \o (IF Backend(c) = "vaapi" THEN <<"-vf", "hwupload">> ELSE <<"-pix_fmt", PixFmt[Backend(c)]>>)

Quiet == <<"-hide_banner", "-loglevel", "error", "-nostdin">>
Output == <<"-movflags", "fragmented", "-f", "mp4", "pipe:1">>

OpenRemux(headers) == Quiet \o InputArgs(headers) \o <<"-c", "copy">> \o Output

TranscodeArgs(c, headers) ==
  Quiet \o (IF Backend(c) = "vaapi" THEN <<"-vaapi_device", c.FfmpegHWDevice>> ELSE <<>>)
  \o InputArgs(headers) \o VideoEncodeArgs(c)
  \o <<"-c:a", "aac">> \o Optional("-b:a", c.TranscodeAudioBitrate) \o Output

-----------------------------------------------------------------------------
(* How ffmpeg reads a command: its options take a value each, but for two. *)
Options == {"-loglevel", "-user_agent", "-headers", "-i", "-vaapi_device", "-c", "-c:v", "-c:a",
            "-preset", "-b:v", "-crf", "-maxrate", "-bufsize", "-vf", "-pix_fmt", "-b:a",
            "-movflags", "-f"}
Switches == {"-hide_banner", "-nostdin"}

(* A text that is not there or is blank is none of a command's words.      *)
ASSUME CommandAssumption ==
  \A t \in {Absent, Empty, Spaces, Garbage, Rejected} : t \notin
    {"error", "url", "lines", "copy", "aac", "fragmented", "mp4", "8M", "hwupload", "yuv420p",
     "nv12", "libx264", "device"} \cup Backends \cup Options \cup Switches

At(args, option) == {i \in DOMAIN args : args[i] = option}

(* The place of an argument among those that are not switches: a name is   *)
(* read at an odd one and its value after it.                              *)
Place(args, i) == i - Cardinality({j \in 1 .. i - 1 : args[j] \in Switches})
ReadsName(args, i) == Place(args, i) % 2 = 1

(* Options and values alternate up to the output, none is empty and none   *)
(* is given twice; what concerns the input comes before it, what concerns  *)
(* the output after it.                                                    *)
WellFormedCommand(args) ==
  LET last == Len(args)
  IN  /\ args[last] = "pipe:1" /\ ReadsName(args, last)
      /\ \A i \in 1 .. last - 1 : args[i] \notin Switches =>
           IF ReadsName(args, i) THEN args[i] \in Options ELSE args[i] \notin Options \cup {Empty, Absent}
      /\ \A option \in Options : \A i, j \in At(args, option) : i = j
      /\ \A option \in Options \ {"-i"} : \A i \in At(args, option), j \in At(args, "-i") :
           i < j <=> option \in {"-loglevel", "-user_agent", "-headers", "-vaapi_device"}

(* Every command ffmpeg is started with is one it can read, whatever the   *)
(* accepted configuration leaves out; the encoder has one rate control of  *)
(* its own kind, and frames it can take: uploaded for VAAPI, of a pixel    *)
(* format for the others.                                                  *)
EncodesAsConfigured(c, headers) ==
  LET a == TranscodeArgs(c, headers)
      Has(option) == At(a, option) # {}
  IN  /\ WellFormedCommand(a) /\ WellFormedCommand(OpenRemux(headers))
      /\ IF Backend(c) = "software" THEN ~(Has("-crf") /\ Has("-b:v"))
         ELSE Has("-b:v") /\ ~Has("-crf") /\ ~Has("-preset")
      /\ Has("-vf") = (Backend(c) = "vaapi") /\ Has("-vaapi_device") = Has("-vf")
      /\ Has("-pix_fmt") = ~Has("-vf")
=============================================================================
