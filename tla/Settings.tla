------------------------------ MODULE Settings ------------------------------
(***************************************************************************)
(* How config.go makes a Config of the environment and the command line:   *)
(* which source decides a setting, what its text is taken for, and what is *)
(* refused at startup.                                                     *)
(*                                                                         *)
(* A text is a word, or for a number [amount, unit], with the amount in    *)
(* halves ("1.5G") and the unit as its suffix.  Floating-point numbers are *)
(* exact here; int64, KB and a second are small.                           *)
(***************************************************************************)
EXTENDS Texts

CONSTANTS MaxInt,    \* int64's largest number
          Second     \* of time.Duration

(* A number as it is written.                                              *)
Units   == {"none", "s", "m", "B", "K", "KB", "KIB", "M", "MB", "MIB"}
Amounts == [amount : Int, unit : Units]

(* A blank or unreadable text is no number and none of the words below,    *)
(* and neither is a refusal, which is no text at all.                      *)
ASSUME SettingsAssumption ==
  /\ MaxInt \in Nat \ {0, 1} /\ Second \in Nat \ {0}
  /\ Rejected \notin Int \cup {Absent, Empty, Spaces, Garbage} /\ Garbage \notin {Empty, Spaces}
  /\ \A t \in {Absent, Empty, Spaces, Garbage, Rejected} :
       t \notin Amounts \cup {"default", "info", "libx264", "word"}
                 \cup {"software", "nvenc", "vaapi", "qsv", "videotoolbox", "amf"}

MinInt == -MaxInt - 1

Durations == {"ShutdownTimeout", "SegmentCacheTTL"}
Numbers   == Durations \cup {"CacheMaxSize", "SegmentCacheSize"}
ReadLater == {"CacheMaxSize", "YtdlpExtraArgs"}   \* flags parsed by LoadConfig itself
Words     == {"Listen", "CacheDir", "LogLevel", "Proxy", "FfmpegHWAccel", "FfmpegHWDevice",
              "YtdlpPath", "FfmpegPath", "FfprobePath", "CookiesFile", "Secret", "YtdlpFormat",
              "YtdlpExtraArgs", "TranscodePreset", "TranscodeCRF", "TranscodeVideoBitrate",
              "TranscodeMaxrate", "TranscodeBufsize", "TranscodeAudioBitrate"}
Setting   == Numbers \cup Words

Backends == {"software", "nvenc", "vaapi", "qsv", "videotoolbox", "amf"}

Default(s) ==
  CASE s = "ShutdownTimeout"  -> 5 * Second
    [] s = "SegmentCacheTTL"  -> 300 * Second
    [] s = "SegmentCacheSize" -> 512
    [] s = "CacheMaxSize"     -> MaxInt \div 2
    [] s \in {"CookiesFile", "Secret", "Proxy", "YtdlpExtraArgs", "FfmpegHWDevice",
              "TranscodeVideoBitrate"} -> Empty
    [] s = "FfmpegHWAccel"    -> "software"
    [] s = "LogLevel"         -> "info"
    [] OTHER                  -> "default"

(* The conversion of a float to int64 that does not fit: the architectures *)
(* differ.                                                                 *)
Trunc(halves) == IF halves >= 0 THEN halves \div 2 ELSE -((-halves) \div 2)

Int64(halves, build) ==
  IF Trunc(halves) \in MinInt .. MaxInt THEN Trunc(halves)
  ELSE IF build = "arm64" /\ halves > 0 THEN MaxInt ELSE MinInt

(* The units of a size, whose letters' case is ignored ("5m" is 5 MiB),    *)
(* and those of a duration.                                                *)
SizeUnits == Units \ {"none", "s"}
TimeUnits == {"s", "m"}

SizeUnit(unit) ==
  CASE unit \in {"K", "KB", "KIB"} -> 4 [] unit \in {"m", "M", "MB", "MIB"} -> 16 [] OTHER -> 1

ParseInt(t) ==
  IF t.unit = "none" /\ t.amount % 2 = 0 /\ t.amount \div 2 \in MinInt .. MaxInt
  THEN t.amount \div 2 ELSE Rejected

ParseSize(t, build) ==
  IF t.amount < 0 THEN Rejected
  ELSE IF t.unit \in SizeUnits THEN Int64(t.amount * SizeUnit(t.unit), build)
  ELSE ParseInt(t)

TimeUnit(unit) == IF unit = "m" THEN 60 * Second ELSE Second

(* time.ParseDuration: a unit is needed, and what does not fit is refused. *)
WithUnit(t) ==
  IF /\ t.unit \in TimeUnits \/ (t.unit = "none" /\ t.amount = 0)
     /\ Trunc(t.amount * TimeUnit(t.unit)) \in MinInt .. MaxInt
  THEN Trunc(t.amount * TimeUnit(t.unit)) ELSE Rejected

ParseDuration(t, build) ==
  IF WithUnit(t) # Rejected THEN WithUnit(t)
  ELSE IF t.unit = "none" THEN Int64(t.amount * Second, build) ELSE Rejected

(* The words that are checked: a JSON array of flags, a proxy's URL, a     *)
(* level's name, a backend's.                                              *)
ParseExtraArgsJSON(t) == IF t = Garbage THEN Rejected ELSE t
ParseProxyURL(t)      == IF t = Garbage THEN Rejected ELSE t
ParseLogLevel(t)      == IF t = Garbage THEN Rejected ELSE t

NormalizeHWBackend(t) ==
  IF t \in Blank \cup {"libx264"} THEN "software" ELSE IF t \in Backends THEN t ELSE Rejected

(* What a setting's text from the environment, or from a flag, is read as. *)
FromEnv(s, t, build) ==
  CASE s \in Words -> IF s = "YtdlpExtraArgs" THEN ParseExtraArgsJSON(t) ELSE t
    [] s \in Numbers /\ t = Garbage -> Rejected
    [] s \in Durations /\ t # Garbage -> ParseDuration(t, build)
    [] s = "CacheMaxSize" /\ t # Garbage -> ParseSize(t, build)
    [] s = "SegmentCacheSize" /\ t # Garbage -> ParseInt(t)

FromFlag(s, t, build) ==
  CASE s \in Numbers /\ t \in Blank -> Rejected
    [] s \in Durations /\ t \notin Blank -> IF t = Garbage THEN Rejected ELSE WithUnit(t)
    [] OTHER -> FromEnv(s, t, build)

(* One setting: a blank variable counts as unset, a bad one is fatal even  *)
(* if the flag would override it; a blank flag overrides, unless the flag  *)
(* is one that LoadConfig parses itself.                                   *)
Load(s, env, flag, build) ==
  LET base == IF env \in Blank \cup {Absent} THEN Default(s) ELSE FromEnv(s, env, build)
  IN  IF base = Rejected \/ flag = Absent \/ (s \in ReadLater /\ flag \in Blank)
      THEN base ELSE FromFlag(s, flag, build)

Backend(c) == NormalizeHWBackend(c.FfmpegHWAccel)

(* A variant with a plausible bug: only zero is refused.                   *)
BugLimits(c) ==
  /\ c.ShutdownTimeout # 0 /\ c.CacheMaxSize # 0
  /\ c.SegmentCacheSize >= 0 /\ c.SegmentCacheTTL >= 0

Limits(c) ==
  /\ c.ShutdownTimeout > 0 /\ c.CacheMaxSize > 0
  /\ c.SegmentCacheSize >= 0 /\ c.SegmentCacheTTL >= 0

Valid(c) ==
  /\ c.Listen \notin Blank /\ c.CacheDir \notin Blank /\ Limits(c)
  /\ Rejected \notin {ParseLogLevel(c.LogLevel), ParseProxyURL(c.Proxy), Backend(c)}
  /\ Backend(c) = "vaapi" => c.FfmpegHWDevice \notin Blank

Loaded(env, flag, build) == [s \in Setting |-> Load(s, env[s], flag[s], build)]
Accepted(env, flag, build) ==
  LET c == Loaded(env, flag, build)
  IN  (\A s \in Setting : c[s] # Rejected) /\ Valid(c)

LoadConfig(env, flag, build) ==
  IF Accepted(env, flag, build) THEN Loaded(env, flag, build) ELSE Rejected

-----------------------------------------------------------------------------
(* The source that decides a setting, by README's order: flag, variable,   *)
(* default.                                                                *)
Decided(s, env, flag) ==
  IF flag # Absent /\ ~(s \in ReadLater /\ flag \in Blank) THEN "flag"
  ELSE IF env \notin Blank \cup {Absent} THEN "env" ELSE "default"

(* The number a text writes, without any bound on numbers.                 *)
Exactly(s, t) ==
  CASE s = "CacheMaxSize" -> Trunc(t.amount * SizeUnit(t.unit))
    [] s = "SegmentCacheSize" -> Trunc(t.amount)
    [] s \in Durations -> Trunc(t.amount * TimeUnit(t.unit))

AsWritten(s, t, value, build) ==
  IF s \in Numbers
  THEN \/ value = Exactly(s, t)
       \/ build = "arm64" /\ value = MaxInt /\ Exactly(s, t) > MaxInt
  ELSE value = t

(* A configuration that is accepted has, in every setting, what the source *)
(* that decides it wrote: no number that wrapped around, no blank variable *)
(* or overridden one in its place, and limits that are limits.  A large    *)
(* number may become the largest there is where conversion saturates.      *)
AcceptedIsWritten(env, flag, build) ==
  LET c == LoadConfig(env, flag, build)
  IN  c # Rejected =>
        /\ \A s \in Setting :
             CASE Decided(s, env[s], flag[s]) = "flag" -> AsWritten(s, flag[s], c[s], build)
               [] Decided(s, env[s], flag[s]) = "env"  -> AsWritten(s, env[s], c[s], build)
               [] OTHER -> c[s] = Default(s)
        /\ c.ShutdownTimeout > 0 /\ c.CacheMaxSize > 0

(* A text that its source can read, and that is within int64 and within    *)
(* the limit of its setting.                                               *)
Readable(s, t, source) ==
  CASE s \in Words -> t # Garbage /\ (s \in {"Listen", "CacheDir"} => t \notin Blank)
    [] s \in Numbers /\ t \in Blank \cup {Garbage} -> FALSE
    [] s \in Numbers /\ t \notin Blank \cup {Garbage} ->
         /\ Exactly(s, t) <= MaxInt
         /\ Exactly(s, t) >= (IF s \in {"ShutdownTimeout", "CacheMaxSize"} THEN 1 ELSE 0)
         /\ s = "SegmentCacheSize" => t.unit = "none"
         /\ t.unit = "none" /\ s \notin Durations => t.amount % 2 = 0
         /\ s = "CacheMaxSize" => t.amount >= 0 /\ t.unit \in SizeUnits \cup {"none"}
         /\ s \in Durations => t.unit \in TimeUnits \cup {"none"}
         /\ source = "flag" /\ s \in Durations => (t.unit # "none" \/ t.amount = 0)

(* Nothing else is refused, but a VAAPI backend without a device.          *)
ReadableIsAccepted(env, flag, build) ==
  \/ Accepted(env, flag, build)
  \/ \E s \in Setting :
       \/ env[s] \notin Blank \cup {Absent} /\ ~Readable(s, env[s], "env")
       \/ /\ flag[s] # Absent /\ ~(s \in ReadLater /\ flag[s] \in Blank)
          /\ ~Readable(s, flag[s], "flag")
  \/ /\ "vaapi" \in {env["FfmpegHWAccel"], flag["FfmpegHWAccel"]}
     /\ \/ flag["FfmpegHWDevice"] \in Blank
        \/ flag["FfmpegHWDevice"] = Absent /\ env["FfmpegHWDevice"] \in Blank \cup {Absent}
=============================================================================
