-------------------------- MODULE SmallPartsProofs --------------------------
(***************************************************************************)
(* What holds of the small parts for inputs of any size: files, lists,     *)
(* texts, streams, and lifetimes of links.                                 *)
(***************************************************************************)
EXTENDS SmallParts, SparseFileProofs, TLAPS

(***************************************************************************)
(* Ranges                                                                  *)
(***************************************************************************)

(* The parts of a header with a range are numbers, absent or garbage.      *)
LEMMA HeaderShape ==
  ASSUME NEW h \in HeadersOver(Int)
  PROVE  /\ h.form \in OtherForms \cup {"range"}
         /\ h.form = "range" =>
              /\ h.first \in Int \cup {Absent, Garbage}
              /\ h.last \in Int \cup {Absent, Garbage}
BY DEF HeadersOver, OtherForms

(* A header that is a well-formed range is answered with the offsets it    *)
(* asks for, and http.ServeContent answers it alike.                       *)
LEMMA WellFormedAnswered ==
  ASSUME NEW h \in HeadersOver(Int), NEW size \in Nat \ {0}, WellFormed(h)
  PROVE  LET answer == ParseSingleRange(h, size)
         IN  /\ answer = ServeContent(h, size)
             /\ answer.first .. answer.last = Asked(h, size)
<1> DEFINE answer == ParseSingleRange(h, size)
<1>1. CASE h.first = Absent
  <2>1. h.form = "range" /\ h.last \in Nat \ {0} /\ h.last # Absent /\ h.last # Garbage
    BY <1>1, TextAssumption DEF WellFormed
  <2>2. answer = Suffix(h.last, size) /\ ServeContent(h, size) = Suffix(h.last, size)
    BY <1>1, <2>1 DEF ParseSingleRange, ServeContent
  <2>3. Asked(h, size) = {o \in 0 .. size - 1 : o >= size - h.last}
    BY <1>1 DEF Asked
  <2>4. Suffix(h.last, size).first .. Suffix(h.last, size).last
          = {o \in 0 .. size - 1 : o >= size - h.last}
    BY <2>1 DEF Suffix, Partial
  <2> QED BY <2>2, <2>3, <2>4
<1>2. CASE h.first # Absent
  <2> DEFINE last == IF h.last = Absent THEN size - 1 ELSE h.last
  <2>1. /\ h.form = "range" /\ h.first \in Nat /\ h.first # Garbage /\ h.last # Garbage
        /\ h.last # Absent => h.last \in Nat /\ h.last >= h.first
    BY <1>2, TextAssumption DEF WellFormed
  <2>2. answer = FromFirst(h.first, last, size) /\ ServeContent(h, size) = FromFirst(h.first, last, size)
    BY <1>2, <2>1 DEF ParseSingleRange, ServeContent
  <2>3. Asked(h, size) = {o \in 0 .. size - 1 : o >= h.first /\ (h.last = Absent \/ o <= h.last)}
    BY <1>2 DEF Asked
  <2>4. FromFirst(h.first, last, size).first .. FromFirst(h.first, last, size).last
          = {o \in 0 .. size - 1 : o >= h.first /\ (h.last = Absent \/ o <= h.last)}
    <3>1. CASE h.first >= size
      BY <2>1, <3>1 DEF FromFirst, Refused
    <3>2. CASE h.first < size
      BY <2>1, <3>2 DEF FromFirst, Partial
    <3> QED BY <2>1, <3>1, <3>2
  <2> QED BY <2>2, <2>3, <2>4
<1> QED BY <1>1, <1>2

(* Whatever the header: an answer that is not a refusal lies in the file   *)
(* and is not empty, and a part goes only to who asked for one.            *)
LEMMA AnswerInFile ==
  ASSUME NEW h \in HeadersOver(Int), NEW size \in Nat \ {0}
  PROVE  LET answer == ParseSingleRange(h, size)
         IN  /\ answer # Refused => answer.first >= 0 /\ answer.first <= answer.last
             /\ answer.status = 206 => WellFormed(h)
<1> DEFINE answer == ParseSingleRange(h, size)
<1>1. CASE h.form # "range" \/ (h.first = Absent /\ h.last = Absent)
  <2>1. answer = Whole(size)
    BY <1>1 DEF ParseSingleRange
  <2> QED BY <2>1 DEF Whole
<1>2. CASE h.form = "range" /\ h.first = Absent /\ h.last # Absent
  <2>1. answer = IF h.last = Garbage \/ h.last <= 0 THEN Refused ELSE Suffix(h.last, size)
    BY <1>2 DEF ParseSingleRange
  <2>2. CASE h.last = Garbage \/ h.last <= 0
    BY <2>1, <2>2 DEF Refused
  <2>3. CASE ~(h.last = Garbage \/ h.last <= 0)
    <3>1. h.last \in Nat \ {0}
      BY <1>2, <2>3, HeaderShape
    <3> QED BY <1>2, <2>1, <2>3, <3>1 DEF Suffix, Partial, WellFormed
  <2> QED BY <2>2, <2>3
<1>3. CASE h.form = "range" /\ h.first # Absent
  <2> DEFINE bad == \/ h.first = Garbage \/ h.first < 0
                    \/ h.last = Garbage \/ (h.last # Absent /\ h.last < h.first)
             last == IF h.last = Absent THEN size - 1 ELSE h.last
  <2>1. answer = IF bad THEN Refused ELSE FromFirst(h.first, last, size)
    BY <1>3 DEF ParseSingleRange
  <2>2. CASE bad
    BY <2>1, <2>2 DEF Refused
  <2>3. CASE ~bad
    <3>1. h.first \in Nat /\ (h.last = Absent \/ (h.last \in Nat /\ h.last >= h.first))
      BY <1>3, <2>3, HeaderShape
    <3>2. WellFormed(h)
      BY <1>3, <3>1 DEF WellFormed
    <3> HIDE DEF bad
    <3>3. CASE h.first >= size
      BY <2>1, <2>3, <3>3 DEF FromFirst, Refused
    <3>4. CASE h.first < size
      BY <2>1, <2>3, <3>1, <3>2, <3>4 DEF FromFirst, Partial
    <3> QED BY <3>1, <3>3, <3>4
  <2> QED BY <2>2, <2>3
<1> QED BY <1>1, <1>2, <1>3, HeaderShape DEF OtherForms

(***************************************************************************)
(* Routes                                                                  *)
(***************************************************************************)

(* The least of some numbers is one of them.                               *)
LEMMA LeastNumber ==
  ASSUME NEW S, S \subseteq Nat, S # {}
  PROVE  \E i \in S : \A j \in S : i <= j
<1> SUFFICES ASSUME \A i \in S : \E j \in S : j < i PROVE FALSE
  OBVIOUS
<1> DEFINE T == {k \in Nat : \A i \in S : k <= i}
<1>1. 0 \in T
  OBVIOUS
<1>2. ASSUME NEW k \in Nat, k \in T PROVE k + 1 \in T
  BY <1>2
<1>3. Nat \subseteq T
  <2> HIDE DEF T
  <2> QED BY <1>1, <1>2, NatSetInduction
<1>4. PICK i \in S : i \in Nat
  OBVIOUS
<1>5. i + 1 \in T
  BY <1>3
<1>6. i + 1 <= i
  BY <1>5
<1> QED BY <1>4, <1>6

(* The first and the last of some places in a list are among them.         *)
LEMMA FirstAndLast ==
  ASSUME NEW n \in Nat, NEW S, S \subseteq 1 .. n, S # {}
  PROVE  First(S) \in S /\ Last(S) \in S
<1>1. \E i \in S : \A j \in S : i <= j
  <2>1. S \subseteq Nat
    OBVIOUS
  <2> QED BY <2>1, LeastNumber
<1>2. \E i \in S : \A j \in S : j <= i
  <2> SUFFICES ASSUME \A i \in S : \E j \in S : j > i PROVE FALSE
    OBVIOUS
  <2> DEFINE T == {k \in Nat : \A i \in S : i + k <= n}
  <2>1. 0 \in T
    OBVIOUS
  <2>2. ASSUME NEW k \in Nat, k \in T PROVE k + 1 \in T
    BY <2>2
  <2>3. Nat \subseteq T
    <3> HIDE DEF T
    <3> QED BY <2>1, <2>2, NatSetInduction
  <2>4. n + 1 \in Nat /\ n + 1 \in T
    BY <2>3
  <2>5. PICK i \in S : TRUE
    OBVIOUS
  <2> QED BY <2>4, <2>5
<1> QED BY <1>1, <1>2 DEF First, Last

(* An answer of yt-dlp, with any number of downloads and formats, and an   *)
(* answer of ffprobe.                                                      *)
IsInfo(info) ==
  /\ info.url \in Addresses \cup {Absent}
  /\ info.downloads \in Seq(Addresses \cup {Absent})
  /\ info.formats \in Seq([address : Addresses \cup {Absent}, muxed : BOOLEAN])
  /\ info.protocol \in {Absent} \cup SUBSET {"m3u8", "dash", "http"}
  /\ info.live \in BOOLEAN

(* The address that is found is one the proxy can fetch, and the search    *)
(* fails only if there is none (findStreamURL).                            *)
LEMMA StreamFound ==
  ASSUME NEW info, IsInfo(info)
  PROVE  /\ FindsStream(info)
         /\ FindStreamURL(info) # Absent => FindStreamURL(info) \in Addresses
<1> DEFINE own == <<info.url>> \o info.downloads
           listed == {i \in DOMAIN own : Http(own[i])}
           usable == {i \in DOMAIN info.formats : Http(info.formats[i].address)}
           muxed == {i \in usable : info.formats[i].muxed}
           a == FindStreamURL(info)
           all == {info.url} \cup {info.downloads[i] : i \in DOMAIN info.downloads}
<1>1. /\ Len(own) \in Nat /\ DOMAIN own = 1 .. Len(own) /\ Len(own) = Len(info.downloads) + 1
      /\ own[1] = info.url
      /\ \A i \in DOMAIN info.downloads : own[i + 1] = info.downloads[i]
      /\ \A i \in 2 .. Len(own) : i - 1 \in DOMAIN info.downloads /\ own[i] = info.downloads[i - 1]
  <2> DEFINE one == <<info.url>>
             rest == info.downloads
  <2>1. one \in Seq(Addresses \cup {Absent}) /\ Len(one) = 1 /\ one[1] = info.url
    BY DEF IsInfo
  <2>2. rest \in Seq(Addresses \cup {Absent}) /\ Len(rest) \in Nat /\ DOMAIN rest = 1 .. Len(rest)
    BY DEF IsInfo
  <2>3. own = one \o rest
    OBVIOUS
  <2> HIDE DEF own, one, rest
  <2>4. /\ Len(own) = Len(rest) + 1 /\ own \in Seq(Addresses \cup {Absent})
        /\ \A i \in 1 .. Len(own) : own[i] = IF i <= 1 THEN one[i] ELSE rest[i - 1]
    <3>1. one \in Seq(Addresses \cup {Absent}) /\ rest \in Seq(Addresses \cup {Absent})
      BY <2>1, <2>2
    <3>2. /\ one \o rest \in Seq(Addresses \cup {Absent}) /\ Len(one \o rest) = Len(one) + Len(rest)
          /\ \A i \in 1 .. Len(one) + Len(rest) :
               (one \o rest)[i] = IF i <= Len(one) THEN one[i] ELSE rest[i - Len(one)]
      BY <3>1, ConcatProperties
    <3> QED BY <2>1, <2>2, <2>3, <3>2
  <2>5. \A i \in 1 .. Len(rest) : own[i + 1] = rest[i]
    BY <2>2, <2>4
  <2> QED BY <2>1, <2>2, <2>4, <2>5 DEF rest
<1>2. /\ Len(info.formats) \in Nat /\ DOMAIN info.formats = 1 .. Len(info.formats)
      /\ \A i \in DOMAIN info.formats : info.formats[i].address \in Addresses \cup {Absent}
  <2> DEFINE formats == info.formats
             Entries == [address : Addresses \cup {Absent}, muxed : BOOLEAN]
  <2>1. formats \in Seq(Entries)
    BY DEF IsInfo
  <2>2. \A e \in Entries : e.address \in Addresses \cup {Absent}
    OBVIOUS
  <2> HIDE DEF formats, Entries
  <2>3. Len(formats) \in Nat /\ DOMAIN formats = 1 .. Len(formats)
        /\ \A i \in DOMAIN formats : formats[i] \in Entries
    BY <2>1
  <2> QED BY <2>2, <2>3 DEF formats
<1>3. all = {own[i] : i \in DOMAIN own} /\ all \subseteq Addresses \cup {Absent}
  <2>1. \A i \in DOMAIN own : own[i] \in all
    BY <1>1
  <2>2. \A b \in all : \E i \in DOMAIN own : own[i] = b
    <3> TAKE b \in all
    <3>1. CASE b = info.url
      BY <1>1, <3>1
    <3>2. ASSUME NEW i \in DOMAIN info.downloads, b = info.downloads[i] PROVE \E k \in DOMAIN own : own[k] = b
      <4>1. i + 1 \in DOMAIN own /\ own[i + 1] = b
        BY <1>1, <3>2 DEF IsInfo
      <4> QED BY <4>1
    <3> QED BY <3>1, <3>2
  <2>3. all \subseteq Addresses \cup {Absent}
    BY DEF IsInfo
  <2> HIDE DEF own, all
  <2> QED BY <2>1, <2>2, <2>3
<1>4. a = IF listed # {} THEN own[First(listed)]
          ELSE IF muxed # {} THEN info.formats[Last(muxed)].address
          ELSE IF usable # {} THEN info.formats[Last(usable)].address ELSE Absent
  BY DEF FindStreamURL
<1> HIDE DEF own, all, a
<1>5. /\ listed # {} => First(listed) \in listed
      /\ muxed # {} => Last(muxed) \in muxed
      /\ usable # {} => Last(usable) \in usable
  <2>1. listed \subseteq 1 .. Len(own) /\ usable \subseteq 1 .. Len(info.formats)
        /\ muxed \subseteq 1 .. Len(info.formats)
    BY <1>1, <1>2
  <2> HIDE DEF listed, usable, muxed
  <2> QED BY <1>1, <1>2, <2>1, FirstAndLast
<1>6. listed # {} <=> \E b \in all : Http(b)
  BY <1>3
<1>7. CASE listed # {}
  <2>1. a = own[First(listed)] /\ First(listed) \in DOMAIN own /\ Http(a)
    BY <1>4, <1>5, <1>7
  <2>2. a \in all
    BY <1>3, <2>1
  <2>3. FindsStream(info) <=>
          /\ a # Absent <=> (\E b \in all : Http(b)) \/ \E i \in DOMAIN info.formats : Http(info.formats[i].address)
          /\ a # Absent /\ (\A b \in all : ~Http(b))
             /\ (\E i \in DOMAIN info.formats : Http(info.formats[i].address) /\ info.formats[i].muxed)
               => \E i \in DOMAIN info.formats : info.formats[i].muxed /\ info.formats[i].address = a
          /\ a # Absent => a.http
    BY Zenon DEF FindsStream, a, all
  <2> QED BY <1>3, <1>6, <1>7, <2>1, <2>2, <2>3 DEF Http, a
<1>8. CASE listed = {}
  <2>1. \A b \in all : ~Http(b)
    BY <1>6, <1>8
  <2>2. muxed # {} => a = info.formats[Last(muxed)].address /\ Last(muxed) \in DOMAIN info.formats
                      /\ Http(a) /\ info.formats[Last(muxed)].muxed
    BY <1>4, <1>5, <1>8
  <2>3. muxed = {} /\ usable # {} => a = info.formats[Last(usable)].address
                                     /\ Last(usable) \in DOMAIN info.formats /\ Http(a)
    BY <1>4, <1>5, <1>8
  <2>4. usable = {} => a = Absent
    BY <1>4, <1>8
  <2>5. FindsStream(info) <=>
          /\ a # Absent <=> (\E b \in all : Http(b)) \/ \E i \in DOMAIN info.formats : Http(info.formats[i].address)
          /\ a # Absent /\ (\A b \in all : ~Http(b))
             /\ (\E i \in DOMAIN info.formats : Http(info.formats[i].address) /\ info.formats[i].muxed)
               => \E i \in DOMAIN info.formats : info.formats[i].muxed /\ info.formats[i].address = a
          /\ a # Absent => a.http
    BY Zenon DEF FindsStream, a, all
  <2>6. usable # {} <=> \E i \in DOMAIN info.formats : Http(info.formats[i].address)
    OBVIOUS
  <2>7. muxed # {} <=> \E i \in DOMAIN info.formats : Http(info.formats[i].address) /\ info.formats[i].muxed
    OBVIOUS
  <2>8. a # Absent => Http(a) /\ a \in Addresses /\ usable # {}
    <3>1. muxed \subseteq usable
      OBVIOUS
    <3> HIDE DEF usable, muxed, listed
    <3> QED BY <1>2, <2>2, <2>3, <2>4, <3>1
  <2> HIDE DEF usable, muxed, listed
  <2>9. a # Absent <=> usable # {}
    BY <2>2, <2>3, <2>8 DEF Http
  <2> QED BY <2>1, <2>2, <2>5, <2>6, <2>7, <2>8, <2>9 DEF Http, a
<1> QED BY <1>7, <1>8

(* Whatever yt-dlp answers, the video is routed as its kind needs it.      *)
LEMMA EveryRouteFits ==
  ASSUME NEW info, NEW probe, IsInfo(info)
  PROVE  RouteIsFit(info, probe)
<1> DEFINE a == FindStreamURL(info)
           to == Route(info, probe)
           endpoint == ClassifyEndpoint(info, a)
<1> USE RoutingAssumption
<1>1. CASE a = Absent
  <2>1. to = [way |-> "error"]
    BY <1>1 DEF Route
  <2>2. to.way = "error"
    BY <2>1
  <2> HIDE DEF to
  <2> QED BY <2>2, StreamFound DEF RouteIsFit, to
<1>2. CASE a # Absent
  <2>1. /\ to.address = a /\ to.way # "error"
        /\ to.way = "download" <=> endpoint = "file"
        /\ to.way = "proxy" <=> endpoint # "file" /\ info.live
        /\ to.way = "remux" <=> endpoint # "file" /\ ~info.live
        /\ endpoint # "file" => to.headers = info.headers
        /\ to.way = "remux" => to.transcode = DecideTranscode(info, endpoint, probe)
    BY <1>2 DEF Route, Extract, IsInfo
  <2>2. a \in Addresses
    BY <1>2, StreamFound
  <2>3. Told(info, a) => (endpoint = "file" <=> a.kind = "file")
    <3>1. a.kind \in {"file", "hls", "dash"} /\ a.suffix \in {"m3u8", "mpd", "other"}
      BY <2>2 DEF Addresses, Kinds
    <3>2. CASE a.kind = "file"
      BY <3>1, <3>2 DEF Told, ClassifyEndpoint, EndpointFromProtocol, EndpointFromURL
    <3>3. CASE a.kind = "hls"
      BY <3>1, <3>3 DEF Told, ClassifyEndpoint, EndpointFromProtocol, EndpointFromURL
    <3>4. CASE a.kind = "dash"
      BY <3>1, <3>4 DEF Told, ClassifyEndpoint, EndpointFromProtocol, EndpointFromURL
    <3> QED BY <3>1, <3>2, <3>3, <3>4
  <2>4. endpoint # "file" => DecideTranscode(info, endpoint, probe) = ("foreign" \in {info.vcodec, info.acodec})
    BY DEF DecideTranscode, TranscodeFromCodecs
  <2> HIDE DEF to, endpoint, a
  <2>5. RouteIsFit(info, probe) <=>
          /\ FindsStream(info)
          /\ to.way # "error" /\ Told(info, to.address) =>
               /\ to.way = "download" <=> to.address.kind = "file"
               /\ to.way = "proxy" <=> to.address.kind # "file" /\ info.live
          /\ to.way \in {"proxy", "remux"} => to.headers = info.headers
          /\ to.way = "remux" => (to.transcode <=> "foreign" \in {info.vcodec, info.acodec})
    BY DEF RouteIsFit, to
  <2> QED BY <2>1, <2>3, <2>4, <2>5, StreamFound
<1> QED BY <1>1, <1>2

(***************************************************************************)
(* The wrapper                                                             *)
(***************************************************************************)

(* A call of the wrapper, with any arguments, and any time taken.          *)
IsWrapperCall(c) ==
  /\ c.args \in Seq(Arguments) /\ c.server.answers \in BOOLEAN /\ c.cached \in BOOLEAN
  /\ IsInfo(c.info) /\ c.took.ytdlp \in Nat /\ c.took.probe \in Nat

(* What the wrapper makes of the arguments: the flags it looks for may be  *)
(* in any of them (parseWrapperRequest).                                   *)
LEMMA RequestParsed ==
  ASSUME NEW args \in Seq(Arguments)
  PROVE  LET flat == \E i \in DOMAIN args : args[i] = {"--flat-playlist"}
             mixed == \E i \in DOMAIN args : args[i] = {"--flat-playlist", "[protocol^=http]"}
             request == ParseWrapperRequest(args)
         IN  /\ request.url # Absent <=> \E i \in DOMAIN args : args[i] = {"http"}
             /\ request.source = IF flat THEN "resonite" ELSE "vrchat"
<1> DEFINE urls == {i \in DOMAIN args : args[i] = {"http"}}
           Listing == \E i \in DOMAIN args : "--flat-playlist" \in args[i] /\ "[protocol^=http]" \notin args[i]
           request == ParseWrapperRequest(args)
<1>1. /\ request.url = IF urls = {} THEN Absent ELSE First(urls)
      /\ request.source = IF Listing THEN "resonite" ELSE "vrchat"
  BY DEF ParseWrapperRequest
<1>2. Len(args) \in Nat /\ DOMAIN args = 1 .. Len(args) /\ \A i \in DOMAIN args : args[i] \in Arguments
  OBVIOUS
<1>3. urls # {} => First(urls) \in urls /\ First(urls) # Absent
  <2>1. urls \subseteq 1 .. Len(args)
    BY <1>2
  <2> HIDE DEF urls
  <2>2. urls # {} => First(urls) \in urls
    BY <1>2, <2>1, FirstAndLast
  <2>3. urls # {} => First(urls) \in Int
    <3>1. \A x \in 1 .. Len(args) : x \in Int
      OBVIOUS
    <3> QED BY <2>1, <2>2, <3>1, Zenon
  <2> QED BY <2>2, <2>3, TextAssumption, Zenon
<1>4. Listing <=> \E i \in DOMAIN args : args[i] = {"--flat-playlist"}
  <2>1. \A x \in Arguments :
          ("--flat-playlist" \in x /\ "[protocol^=http]" \notin x) <=> x = {"--flat-playlist"}
    <3>1. \A x \in SUBSET {"[protocol^=http]", "--flat-playlist"} :
            ("--flat-playlist" \in x /\ "[protocol^=http]" \notin x) <=> x = {"--flat-playlist"}
      OBVIOUS
    <3>2. "--flat-playlist" \notin {"http"} /\ {"http"} # {"--flat-playlist"}
      OBVIOUS
    <3>3. \A x \in Arguments :
            x \in SUBSET {"[protocol^=http]", "--flat-playlist"} \/ x = {"http"}
      BY DEF Arguments
    <3> QED BY <3>1, <3>2, <3>3
  <2> QED BY <1>2, <2>1
<1> QED BY <1>1, <1>3, <1>4

(* A word appended to a list of one.                                       *)
LEMMA AppendToOne ==
  ASSUME NEW u, NEW e
  PROVE  Append(<<u>>, e) = <<u, e>>
<1> DEFINE W == {u, e}
           s == Append(<<u>>, e)
           t == <<u, e>>
<1>1. s \in Seq(W) /\ Len(s) = 2 /\ s[1] = u /\ s[2] = e 
  <2>1. <<u>> \in Seq(W) /\ e \in W /\ Len(<<u>>) = 1
    OBVIOUS
  <2> QED BY <2>1
<1>2. t \in Seq(W) /\ Len(t) = 2 /\ t[1] = u /\ t[2] = e
  OBVIOUS
<1> HIDE DEF W, s, t
<1>3. \A i \in 1 .. Len(s) : s[i] = t[i]
  BY <1>1, <1>2
<1>4. s = t
  BY <1>1, <1>2, <1>3, SeqEqual
<1> QED BY <1>4 DEF s, t

(* A body becomes one line: what ends with a newline gets no second one.   *)
LEMMA OneLine ==
  /\ Line(Body("resonite")) = <<"json", "newline">> /\ Line(Body("vrchat")) = <<"url", "newline">>
  /\ <<"json", "newline">> # <<>> /\ <<"url", "newline">> # <<>>
<1>1. Body("resonite") = <<"json", "newline">> /\ Body("vrchat") = <<"url">>
  BY DEF Body
<1>2. /\ Line(<<"json", "newline">>) = <<"json", "newline">>
      /\ Line(<<"url">>) = Append(<<"url">>, "newline")
  BY DEF Line
<1>3. Append(<<"url">>, "newline") = <<"url", "newline">>
  BY AppendToOne
<1> QED BY <1>1, <1>2, <1>3

(* Every game is answered as its own arguments ask (run), at any pace.     *)
LEMMA EveryCallerIsServed ==
  ASSUME NEW c, IsWrapperCall(c)
  PROVE  CallerIsServed(c.args, c.server, c.cached, c.info, c.took)
<1> DEFINE request == ParseWrapperRequest(c.args)
           answer == GetVideo(request, c.cached, c.info, c.took)
           result == Run(c.args, c.server, c.cached, c.info, c.took)
           flat == \E i \in DOMAIN c.args : c.args[i] = {"--flat-playlist"}
           found == c.cached \/ (c.took.ytdlp < YtdlpTimeout /\ FindStreamURL(c.info) # Absent)
           able == /\ \E i \in DOMAIN c.args : c.args[i] = {"http"}
                   /\ c.server.address # Garbage /\ c.server.answers
           quick == c.cached \/ (FindStreamURL(c.info) # Absent /\ c.took.ytdlp + ProbeTimeout < YtdlpTimeout)
<1>1. /\ request.url # Absent <=> \E i \in DOMAIN c.args : c.args[i] = {"http"}
      /\ request.source = IF flat THEN "resonite" ELSE "vrchat"
  BY RequestParsed DEF IsWrapperCall
<1>2. /\ found => answer.status = 200 /\ answer.body = Body(request.source)
                  /\ answer.after = IF c.cached THEN 0 ELSE Elapsed(c.info, c.took)
      /\ ~found => answer.status # 200
  BY DEF GetVideo
<1>3. quick => found /\ ~(answer.after >= WrapperTimeout)
  <2>1. Elapsed(c.info, c.took) <= c.took.ytdlp + ProbeTimeout
    BY DEF Elapsed, IsWrapperCall, ProbeTimeout
  <2>2. Elapsed(c.info, c.took) \in Nat
    BY DEF Elapsed, IsWrapperCall, ProbeTimeout
  <2> HIDE DEF answer
  <2> QED BY <1>2, <2>1, <2>2 DEF IsWrapperCall, ProbeTimeout, YtdlpTimeout, WrapperTimeout
<1>4. result = IF request.url = Absent \/ FetchFails(c.server, answer)
               THEN [exit |-> 1, stdout |-> <<>>] ELSE [exit |-> 0, stdout |-> Line(answer.body)]
  BY DEF Run
<1>5. FetchFails(c.server, answer) <=>
        \/ c.server.address = Garbage \/ ~c.server.answers
        \/ answer.after >= WrapperTimeout \/ answer.status # 200
  BY DEF FetchFails
<1>6. CallerIsServed(c.args, c.server, c.cached, c.info, c.took) <=>
        /\ result.exit = 1 <=> result.stdout = <<>>
        /\ result.exit = 0 /\ flat => result.stdout = <<"json", "newline">>
        /\ result.exit = 0 /\ ~flat /\ ~(\E i \in DOMAIN c.args : c.args[i] = {"--flat-playlist", "[protocol^=http]"})
             => result.stdout = <<"url", "newline">>
        /\ result.exit = 0 => able
        /\ able /\ quick => result.exit = 0
  BY DEF CallerIsServed
<1> HIDE DEF request, answer, result, flat, found, able
<1>7. CASE request.url = Absent \/ FetchFails(c.server, answer)
  <2>1. result.exit = 1 /\ result.stdout = <<>>
    BY <1>4, <1>7
  <2>2. ~(able /\ quick)
    BY <1>1, <1>2, <1>3, <1>5, <1>7 DEF able
  <2> QED BY <1>6, <2>1, <2>2
<1>8. CASE request.url # Absent /\ ~FetchFails(c.server, answer)
  <2>1. result.exit = 0 /\ result.stdout = Line(answer.body)
    BY <1>4, <1>8
  <2>2. able /\ found
    BY <1>1, <1>2, <1>5, <1>8 DEF able
  <2>3. result.stdout = IF flat THEN <<"json", "newline">> ELSE <<"url", "newline">>
    BY <1>1, <1>2, <2>1, <2>2, OneLine
  <2>4. result.stdout # <<>>
    BY <2>3, OneLine
  <2> QED BY <1>6, <2>1, <2>2, <2>3, <2>4
<1> QED BY <1>7, <1>8

(***************************************************************************)
(* Settings                                                                *)
(***************************************************************************)

(* What may be written for a setting, in the environment or in a flag.     *)
IsText(s, t) ==
  IF s \in Numbers THEN t \in Blank \cup {Garbage} \cup Amounts
  ELSE IF s = "FfmpegHWAccel" THEN t \in Blank \cup {Garbage, "libx264"} \cup Backends
  ELSE t # Rejected

IsSource(written) == \A s \in Setting : written[s] = Absent \/ IsText(s, written[s])

Builds == {"amd64", "arm64"}

(* A text from one of the sources.                                         *)
From(origin, s, t, build) == IF origin = "flag" THEN FromFlag(s, t, build) ELSE FromEnv(s, t, build)

(* Halves are cut off towards zero.                                        *)
LEMMA Truncated ==
  ASSUME NEW h \in Int
  PROVE  /\ Trunc(h) \in Int
         /\ h >= 0 => Trunc(h) >= 0
         /\ h <= 0 => Trunc(h) <= 0
         /\ h % 2 = 0 => Trunc(h) = h \div 2
BY DEF Trunc

(* A float that fits becomes its integer; one that does not, the smallest, *)
(* or on arm64 the nearest.                                                *)
LEMMA Converted ==
  ASSUME NEW h \in Int, NEW build \in Builds
  PROVE  LET v == Int64(h, build)
         IN  /\ v \in Int
             /\ v >= 0 => v = Trunc(h) \/ (build = "arm64" /\ v = MaxInt /\ Trunc(h) > MaxInt)
             /\ Trunc(h) \in MinInt .. MaxInt => v = Trunc(h)
<1>1. Trunc(h) \in Int /\ (h >= 0 => Trunc(h) >= 0)
  BY Truncated
<1>2. MaxInt \in Nat /\ MinInt \in Int /\ MinInt < 0
  BY SettingsAssumption DEF MinInt
<1> QED BY <1>1, <1>2 DEF Int64, Builds

(* A number that is written is an integer in its unit, and no other text.  *)
LEMMA AmountType ==
  ASSUME NEW t \in Amounts
  PROVE  /\ t.amount \in Int /\ t.unit \in Units
         /\ t \notin Blank \cup {Garbage, Absent, Rejected}
         /\ t.amount * SizeUnit(t.unit) \in Int /\ t.amount * TimeUnit(t.unit) \in Int
         /\ t.unit = "none" => /\ t.amount * SizeUnit(t.unit) = t.amount
                               /\ TimeUnit(t.unit) = Second
         /\ t.amount >= 0 => t.amount * SizeUnit(t.unit) >= 0
<1>1. t.amount \in Int /\ t.unit \in Units
  BY DEF Amounts
<1>2. SizeUnit(t.unit) \in {1, 4, 16} /\ (t.unit = "none" => SizeUnit(t.unit) = 1)
  BY DEF SizeUnit
<1>3. TimeUnit(t.unit) \in Int /\ (t.unit = "none" => TimeUnit(t.unit) = Second)
  BY SettingsAssumption DEF TimeUnit
<1>4. t \notin Blank \cup {Garbage, Absent, Rejected}
  BY SettingsAssumption DEF Blank
<1>5. t.amount * SizeUnit(t.unit) \in Int /\ (t.unit = "none" => t.amount * SizeUnit(t.unit) = t.amount)
      /\ (t.amount >= 0 => t.amount * SizeUnit(t.unit) >= 0)
  BY <1>1, <1>2
<1>6. t.amount * TimeUnit(t.unit) \in Int
  BY <1>1, <1>3
<1> QED BY <1>1, <1>3, <1>4, <1>5, <1>6

(* How a number is read, setting by setting.                               *)
LEMMA NumberParsed ==
  ASSUME NEW t \in Amounts, NEW build \in Builds, NEW origin \in {"env", "flag"}
  PROVE  /\ From(origin, "CacheMaxSize", t, build) = ParseSize(t, build)
         /\ From(origin, "SegmentCacheSize", t, build) = ParseInt(t)
         /\ \A s \in Durations : From(origin, s, t, build) =
              IF origin = "flag" THEN WithUnit(t) ELSE ParseDuration(t, build)
<1>1. t \notin Blank /\ t # Garbage
  BY AmountType
<1>2. /\ FromEnv("CacheMaxSize", t, build) = ParseSize(t, build)
      /\ FromEnv("SegmentCacheSize", t, build) = ParseInt(t)
      /\ \A s \in Durations : FromEnv(s, t, build) = ParseDuration(t, build)
  BY <1>1 DEF FromEnv, Words, Numbers, Durations
<1>3. /\ FromFlag("CacheMaxSize", t, build) = ParseSize(t, build)
      /\ FromFlag("SegmentCacheSize", t, build) = ParseInt(t)
      /\ \A s \in Durations : FromFlag(s, t, build) = WithUnit(t)
  BY <1>1, <1>2 DEF FromFlag, Numbers, Durations
<1> QED BY <1>2, <1>3 DEF From

(* What a number is worth, setting by setting.                             *)
LEMMA NumberMeant ==
  ASSUME NEW t \in Amounts
  PROVE  /\ Exactly("CacheMaxSize", t) = Trunc(t.amount * SizeUnit(t.unit))
         /\ Exactly("SegmentCacheSize", t) = Trunc(t.amount)
         /\ \A s \in Durations : Exactly(s, t) = Trunc(t.amount * TimeUnit(t.unit))
BY DEF Exactly, Durations

(* A number that is accepted is the one that was written, but where        *)
(* conversion saturates.                                                   *)
LEMMA NumberAsWritten ==
  ASSUME NEW s \in Numbers, NEW t \in Amounts, NEW build \in Builds, NEW origin \in {"env", "flag"},
         From(origin, s, t, build) # Rejected
  PROVE  /\ From(origin, s, t, build) \in Int
         /\ From(origin, s, t, build) >= 0 => AsWritten(s, t, From(origin, s, t, build), build)
<1> DEFINE v == From(origin, s, t, build)
           sized == t.amount * SizeUnit(t.unit)
           timed == t.amount * TimeUnit(t.unit)
<1>1. /\ t.amount \in Int /\ sized \in Int /\ timed \in Int
      /\ t.unit = "none" => sized = t.amount /\ TimeUnit(t.unit) = Second
  BY AmountType
<1>2. AsWritten(s, t, v, build) <=> v = Exactly(s, t) \/ (build = "arm64" /\ v = MaxInt /\ Exactly(s, t) > MaxInt)
  BY DEF AsWritten
<1>3. v # Rejected
  OBVIOUS
<1> SUFFICES v \in Int /\ (v >= 0 => AsWritten(s, t, v, build))
  OBVIOUS
<1> HIDE DEF v
<1>4. MaxInt \in Nat /\ MinInt \in Int
  BY SettingsAssumption DEF MinInt
<1>5. ParseInt(t) # Rejected => t.unit = "none" /\ t.amount % 2 = 0 /\ ParseInt(t) = t.amount \div 2
  BY DEF ParseInt
<1>6. t.amount % 2 = 0 => Trunc(t.amount) = t.amount \div 2
  BY <1>1, Truncated
<1>7. CASE s = "CacheMaxSize"
  <2>1. v = ParseSize(t, build) /\ Exactly(s, t) = Trunc(sized)
    BY <1>7, NumberParsed, NumberMeant DEF v
  <2>2. CASE t.unit = "none"
    BY <1>1, <1>2, <1>3, <1>5, <1>6, <2>1, <2>2 DEF ParseSize, SizeUnits
  <2>3. CASE t.unit # "none"
    <3>1. v = Int64(sized, build)
      BY <1>3, <1>5, <2>1, <2>3 DEF ParseSize
    <3> QED BY <1>1, <1>2, <2>1, <3>1, Converted
  <2> QED BY <2>2, <2>3
<1>8. CASE s = "SegmentCacheSize"
  <2>1. v = ParseInt(t) /\ Exactly(s, t) = Trunc(t.amount)
    BY <1>8, NumberParsed, NumberMeant DEF v
  <2> QED BY <1>1, <1>2, <1>3, <1>5, <1>6, <2>1
<1>9. CASE s \in Durations
  <2>1. v = (IF origin = "flag" THEN WithUnit(t) ELSE ParseDuration(t, build)) /\ Exactly(s, t) = Trunc(timed)
    BY <1>9, NumberParsed, NumberMeant DEF v
  <2>2. WithUnit(t) # Rejected => WithUnit(t) = Trunc(timed) /\ WithUnit(t) \in Int
    BY <1>4 DEF WithUnit
  <2>3. CASE v = WithUnit(t)
    BY <1>2, <1>3, <2>1, <2>2, <2>3
  <2>4. CASE v # WithUnit(t)
    <3>1. t.unit = "none" /\ v = Int64(t.amount * Second, build)
      BY <1>3, <2>1, <2>4 DEF ParseDuration
    <3>2. v = Int64(timed, build)
      BY <1>1, <3>1
    <3> QED BY <1>1, <1>2, <2>1, <3>2, Converted
  <2> QED BY <2>3, <2>4
<1> QED BY <1>7, <1>8, <1>9 DEF Numbers

(* A number that its source can read is taken, and it is within its limit. *)
LEMMA NumberAccepted ==
  ASSUME NEW s \in Numbers, NEW t \in Blank \cup {Garbage} \cup Amounts, NEW build \in Builds,
         NEW origin \in {"env", "flag"}, Readable(s, t, origin)
  PROVE  /\ From(origin, s, t, build) \in Int
         /\ From(origin, s, t, build) >= IF s \in {"ShutdownTimeout", "CacheMaxSize"} THEN 1 ELSE 0
<1> DEFINE v == From(origin, s, t, build)
           sized == t.amount * SizeUnit(t.unit)
           timed == t.amount * TimeUnit(t.unit)
           least == IF s \in {"ShutdownTimeout", "CacheMaxSize"} THEN 1 ELSE 0
<1>1. s \notin Words
  BY DEF Words, Numbers, Durations
<1>2. /\ t \notin Blank \cup {Garbage}
      /\ Exactly(s, t) <= MaxInt /\ Exactly(s, t) >= least
      /\ s = "SegmentCacheSize" => t.unit = "none"
      /\ t.unit = "none" /\ s \notin Durations => t.amount % 2 = 0
      /\ s = "CacheMaxSize" => t.amount >= 0 /\ t.unit \in SizeUnits \cup {"none"}
      /\ s \in Durations => t.unit \in TimeUnits \cup {"none"}
      /\ origin = "flag" /\ s \in Durations => (t.unit # "none" \/ t.amount = 0)
  BY <1>1 DEF Readable
<1>3. t \in Amounts
  BY <1>2
<1>4. /\ t.amount \in Int /\ sized \in Int /\ timed \in Int
      /\ t.unit = "none" => sized = t.amount /\ TimeUnit(t.unit) = Second
  BY <1>3, AmountType
<1>5. MaxInt \in Nat /\ MinInt \in Int /\ MinInt < 0 /\ Rejected \notin Int
  BY SettingsAssumption DEF MinInt
<1>6. /\ Trunc(t.amount) \in Int /\ Trunc(sized) \in Int /\ Trunc(timed) \in Int
      /\ t.amount % 2 = 0 => Trunc(t.amount) = t.amount \div 2
  BY <1>4, Truncated
<1> SUFFICES v = Exactly(s, t) /\ v \in Int
  BY <1>2
<1>7. CASE s = "CacheMaxSize"
  <2>1. v = ParseSize(t, build) /\ Exactly(s, t) = Trunc(sized)
    BY <1>3, <1>7, NumberParsed, NumberMeant
  <2>2. Trunc(sized) \in MinInt .. MaxInt
    BY <1>2, <1>5, <1>6, <2>1
  <2>3. CASE t.unit = "none"
    <3>1. ParseSize(t, build) = ParseInt(t)
      BY <1>2, <1>4, <1>7, <2>3 DEF ParseSize, SizeUnits
    <3>2. ParseInt(t) = t.amount \div 2
      BY <1>2, <1>4, <1>6, <1>7, <2>2, <2>3 DEF ParseInt, Numbers, Durations
    <3> QED BY <1>2, <1>4, <1>6, <1>7, <2>1, <2>3, <3>1, <3>2 DEF Numbers, Durations
  <2>4. CASE t.unit # "none"
    <3>1. v = Int64(sized, build)
      BY <1>2, <1>4, <1>7, <2>1, <2>4 DEF ParseSize
    <3> QED BY <1>4, <1>6, <2>1, <2>2, <3>1, Converted
  <2> QED BY <2>3, <2>4
<1>8. CASE s = "SegmentCacheSize"
  <2>1. v = ParseInt(t) /\ Exactly(s, t) = Trunc(t.amount)
    BY <1>3, <1>8, NumberParsed, NumberMeant
  <2>2. t.unit = "none" /\ t.amount % 2 = 0 /\ Trunc(t.amount) = t.amount \div 2
    BY <1>2, <1>6, <1>8 DEF Durations
  <2>3. t.amount \div 2 \in MinInt .. MaxInt
    BY <1>2, <1>5, <1>6, <2>1, <2>2
  <2> QED BY <1>6, <2>1, <2>2, <2>3 DEF ParseInt
<1>9. CASE s \in Durations
  <2>1. v = (IF origin = "flag" THEN WithUnit(t) ELSE ParseDuration(t, build)) /\ Exactly(s, t) = Trunc(timed)
    BY <1>3, <1>9, NumberParsed, NumberMeant
  <2>2. Trunc(timed) \in MinInt .. MaxInt
    BY <1>2, <1>5, <1>6, <2>1
  <2>3. CASE t.unit # "none" \/ t.amount = 0
    <3>1. WithUnit(t) = Trunc(timed) /\ WithUnit(t) # Rejected
      BY <1>2, <1>5, <1>6, <1>9, <2>2, <2>3 DEF WithUnit
    <3> QED BY <1>6, <2>1, <3>1 DEF ParseDuration
  <2>4. CASE t.unit = "none" /\ t.amount # 0
    <3>1. WithUnit(t) = Rejected
      BY <2>4 DEF WithUnit, TimeUnits
    <3>2. origin # "flag"
      BY <1>2, <1>9, <2>4
    <3>3. v = Int64(timed, build)
      BY <1>4, <2>1, <2>4, <3>1, <3>2 DEF ParseDuration
    <3> QED BY <1>4, <1>6, <2>1, <2>2, <3>3, Converted
  <2> QED BY <2>3, <2>4
<1> QED BY <1>7, <1>8, <1>9 DEF Numbers

(* A text that is accepted is what was written, a readable one is taken.   *)
LEMMA TextAsWritten ==
  ASSUME NEW s \in Setting, NEW t, IsText(s, t), NEW build \in Builds, NEW origin \in {"env", "flag"},
         origin = "env" => t \notin Blank,
         From(origin, s, t, build) # Rejected
  PROVE  LET v == From(origin, s, t, build)
         IN  /\ s \in Numbers => v \in Int
             /\ (s \in Numbers => v >= 0) => AsWritten(s, t, v, build)
<1>1. CASE s \in Numbers
  <2>1. t \in Blank \cup {Garbage} \cup Amounts
    BY <1>1 DEF IsText
  <2>2. s \notin Words
    BY <1>1 DEF Words, Numbers, Durations
  <2>3. t # Garbage
    <3>1. FromEnv(s, Garbage, build) = Rejected
      BY <1>1, <2>2 DEF FromEnv
    <3>2. FromFlag(s, Garbage, build) = Rejected
      BY <1>1, <3>1, SettingsAssumption DEF FromFlag, Blank
    <3> QED BY <3>1, <3>2 DEF From
  <2>4. t \notin Blank
    <3>1. t \in Blank => FromFlag(s, t, build) = Rejected
      <4>1. t \in Blank => ~(s \in Durations /\ t \notin Blank)
        OBVIOUS
      <4> QED BY <1>1, <4>1 DEF FromFlag
    <3> QED BY <3>1 DEF From
  <2> QED BY <1>1, <2>1, <2>3, <2>4, NumberAsWritten
<1>2. CASE s \notin Numbers
  <2>1. s \in Words
    BY <1>2 DEF Setting
  <2>2. FromEnv(s, t, build) \in {t, Rejected}
    BY <1>2, <2>1 DEF FromEnv, ParseExtraArgsJSON, Numbers
  <2>3. FromFlag(s, t, build) = FromEnv(s, t, build)
    BY <1>2 DEF FromFlag, Numbers
  <2> QED BY <1>2, <2>2, <2>3 DEF From, AsWritten
<1> QED BY <1>1, <1>2

(* A text that can be read is a number within its limit or the word itself *)
(* (LoadConfig).                                                           *)
LEMMA TextAccepted ==
  ASSUME NEW s \in Setting, NEW t, IsText(s, t), NEW build \in Builds, NEW origin \in {"env", "flag"},
         Readable(s, t, origin)
  PROVE  /\ From(origin, s, t, build) # Rejected
         /\ s \in Numbers => /\ From(origin, s, t, build) \in Int
                             /\ From(origin, s, t, build) >= IF s \in {"ShutdownTimeout", "CacheMaxSize"} THEN 1 ELSE 0
         /\ s \in Words => /\ From(origin, s, t, build) = t /\ t # Garbage
                           /\ s \in {"Listen", "CacheDir"} => t \notin Blank
<1>1. CASE s \in Numbers
  <2>1. s \notin Words /\ t \in Blank \cup {Garbage} \cup Amounts
    BY <1>1 DEF Words, Numbers, Durations, IsText
  <2> QED BY <1>1, <2>1, NumberAccepted, SettingsAssumption
<1>2. CASE s \notin Numbers
  <2>1. s \in Words
    BY <1>2 DEF Setting
  <2>2. t # Garbage /\ (s \in {"Listen", "CacheDir"} => t \notin Blank)
    BY <2>1 DEF Readable
  <2>3. FromEnv(s, t, build) = t
    BY <1>2, <2>1, <2>2 DEF FromEnv, ParseExtraArgsJSON, Numbers
  <2>4. FromFlag(s, t, build) = FromEnv(s, t, build)
    BY <1>2 DEF FromFlag, Numbers
  <2>5. t # Rejected
    BY <1>2, SettingsAssumption DEF IsText, Blank, Backends
  <2> QED BY <1>2, <2>1, <2>2, <2>3, <2>4, <2>5 DEF From
<1> QED BY <1>1, <1>2

(* The source that decides a setting is the one it is read from, and a bad *)
(* variable is refused whatever the flag says.                             *)
LEMMA LoadedFrom ==
  ASSUME NEW s \in Setting, NEW env, NEW flag, NEW build \in Builds
  PROVE  LET v == Load(s, env, flag, build)
             base == IF env \in Blank \cup {Absent} THEN Default(s) ELSE From("env", s, env, build)
             decided == Decided(s, env, flag)
         IN  /\ decided \in {"flag", "env", "default"}
             /\ decided = "env" => env \notin Blank \cup {Absent}
             /\ decided = "flag" => flag # Absent
             /\ v # Rejected => base # Rejected
             /\ base # Rejected => v = IF decided = "flag" THEN From("flag", s, flag, build) ELSE base
BY DEF Load, Decided, From

(* The defaults are accepted.                                              *)
LEMMA DefaultsAccepted ==
  /\ \A s \in Setting : Default(s) # Rejected
  /\ \A s \in Numbers : Default(s) \in Int /\ Default(s) >= 1
  /\ \A s \in {"Listen", "CacheDir"} : Default(s) \notin Blank
  /\ Default("LogLevel") # Garbage /\ Default("Proxy") # Garbage /\ Default("FfmpegHWAccel") = "software"
<1>1. MaxInt \in Nat /\ MaxInt > 1 /\ MaxInt \div 2 \in Int /\ MaxInt \div 2 >= 1
      /\ 5 * Second \in Int /\ 5 * Second >= 1 /\ 300 * Second \in Int /\ 300 * Second >= 1
  BY SettingsAssumption
<1>2. /\ Default("ShutdownTimeout") = 5 * Second /\ Default("SegmentCacheTTL") = 300 * Second
      /\ Default("SegmentCacheSize") = 512 /\ Default("CacheMaxSize") = MaxInt \div 2
      /\ Default("Listen") = "default" /\ Default("CacheDir") = "default" /\ Default("LogLevel") = "info"
      /\ Default("Proxy") = Empty /\ Default("FfmpegHWAccel") = "software"
  BY DEF Default
<1>3. \A s \in Words : Default(s) \in {Empty, "software", "info", "default"}
  BY DEF Default, Words
<1>4. /\ Rejected \notin Int /\ Rejected \notin {Empty, "software", "info", "default"} /\ Empty # Garbage
      /\ "default" \notin Blank /\ Garbage # "info"
  BY SettingsAssumption DEF Blank
<1>5. \A s \in Numbers : Default(s) \in Int /\ Default(s) >= 1
  BY <1>1, <1>2 DEF Numbers, Durations
<1> QED BY <1>2, <1>3, <1>4, <1>5 DEF Setting

(* What an accepted configuration has in each setting was written by the   *)
(* source that decides it (LoadConfig), for any width of integers.         *)
LEMMA EveryConfigIsWritten ==
  ASSUME NEW env, NEW flag, NEW build \in Builds, IsSource(env), IsSource(flag)
  PROVE  AcceptedIsWritten(env, flag, build)
<1> DEFINE c == Loaded(env, flag, build)
<1>1. CASE ~Accepted(env, flag, build)
  BY <1>1 DEF AcceptedIsWritten, LoadConfig
<1>2. CASE Accepted(env, flag, build)
  <2>1. LoadConfig(env, flag, build) = c /\ Valid(c) /\ \A s \in Setting : c[s] # Rejected
    BY <1>2 DEF LoadConfig, Accepted
  <2>2. \A s \in Setting : c[s] = Load(s, env[s], flag[s], build)
    BY DEF Loaded
  <2> HIDE DEF c
  <2>3. /\ c["ShutdownTimeout"] > 0 /\ c["CacheMaxSize"] > 0
        /\ c["SegmentCacheSize"] >= 0 /\ c["SegmentCacheTTL"] >= 0
    BY <2>1 DEF Valid, Limits
  <2>4. ASSUME NEW s \in Setting
        PROVE  CASE Decided(s, env[s], flag[s]) = "flag" -> AsWritten(s, flag[s], c[s], build)
                 [] Decided(s, env[s], flag[s]) = "env"  -> AsWritten(s, env[s], c[s], build)
                 [] OTHER -> c[s] = Default(s)
    <3> DEFINE decided == Decided(s, env[s], flag[s])
               base == IF env[s] \in Blank \cup {Absent} THEN Default(s) ELSE From("env", s, env[s], build)
    <3>1. /\ decided \in {"flag", "env", "default"}
          /\ decided = "env" => env[s] \notin Blank \cup {Absent}
          /\ decided = "flag" => flag[s] # Absent
          /\ c[s] # Rejected
          /\ c[s] = IF decided = "flag" THEN From("flag", s, flag[s], build) ELSE base
      BY <2>1, <2>2, LoadedFrom
    <3>2. decided = "default" => env[s] \in Blank \cup {Absent}
      BY DEF Decided
    <3> HIDE DEF decided
    <3>3. CASE decided = "flag"
      <4>1. IsText(s, flag[s]) /\ c[s] = From("flag", s, flag[s], build)
        BY <3>1, <3>3 DEF IsSource
      <4>2. (s \in Numbers => c[s] \in Int) /\ ((s \in Numbers => c[s] >= 0) => AsWritten(s, flag[s], c[s], build))
        BY <3>1, <4>1, TextAsWritten
      <4> QED BY <2>3, <3>3, <4>2 DEF decided, Numbers, Durations
    <3>4. CASE decided = "env"
      <4>1. IsText(s, env[s]) /\ c[s] = From("env", s, env[s], build) /\ env[s] \notin Blank
        BY <3>1, <3>4 DEF IsSource
      <4>2. (s \in Numbers => c[s] \in Int) /\ ((s \in Numbers => c[s] >= 0) => AsWritten(s, env[s], c[s], build))
        BY <3>1, <4>1, TextAsWritten
      <4> QED BY <2>3, <3>4, <4>2 DEF decided, Numbers, Durations
    <3>5. CASE decided = "default"
      BY <3>1, <3>2, <3>5 DEF decided
    <3> QED BY <3>1, <3>3, <3>4, <3>5
  <2> QED BY <2>1, <2>3, <2>4 DEF AcceptedIsWritten
<1> QED BY <1>1, <1>2

(* A configuration is refused only if one of its texts cannot be read, or  *)
(* if VAAPI is asked for without a device.                                 *)
LEMMA EveryReadableIsAccepted ==
  ASSUME NEW env, NEW flag, NEW build \in Builds, IsSource(env), IsSource(flag)
  PROVE  ReadableIsAccepted(env, flag, build)
<1> DEFINE c == Loaded(env, flag, build)
           unread == \E s \in Setting :
             \/ env[s] \notin Blank \cup {Absent} /\ ~Readable(s, env[s], "env")
             \/ /\ flag[s] # Absent /\ ~(s \in ReadLater /\ flag[s] \in Blank)
                /\ ~Readable(s, flag[s], "flag")
           bare == /\ "vaapi" \in {env["FfmpegHWAccel"], flag["FfmpegHWAccel"]}
                   /\ \/ flag["FfmpegHWDevice"] \in Blank
                      \/ flag["FfmpegHWDevice"] = Absent /\ env["FfmpegHWDevice"] \in Blank \cup {Absent}
<1>1. ReadableIsAccepted(env, flag, build) <=> Accepted(env, flag, build) \/ unread \/ bare
  BY DEF ReadableIsAccepted
<1> SUFFICES ASSUME ~unread, ~bare PROVE Accepted(env, flag, build)
  BY <1>1
<1>2. ASSUME NEW s \in Setting
      PROVE  /\ c[s] # Rejected
             /\ \/ c[s] = Default(s) /\ Decided(s, env[s], flag[s]) = "default"
                \/ /\ s \in Numbers => c[s] \in Int /\ c[s] >= IF s \in {"ShutdownTimeout", "CacheMaxSize"} THEN 1 ELSE 0
                   /\ s \in Words =>
                        /\ c[s] = IF Decided(s, env[s], flag[s]) = "flag" THEN flag[s] ELSE env[s]
                        /\ Decided(s, env[s], flag[s]) # "default"
                        /\ IsText(s, c[s]) /\ c[s] # Garbage
                        /\ s \in {"Listen", "CacheDir"} => c[s] \notin Blank
  <2> DEFINE decided == Decided(s, env[s], flag[s])
             base == IF env[s] \in Blank \cup {Absent} THEN Default(s) ELSE From("env", s, env[s], build)
  <2>1. c[s] = Load(s, env[s], flag[s], build)
    BY DEF Loaded
  <2> HIDE DEF c
  <2>2. env[s] \notin Blank \cup {Absent} => IsText(s, env[s]) /\ Readable(s, env[s], "env")
    BY DEF IsSource
  <2>3. base # Rejected
    BY <2>2, TextAccepted, DefaultsAccepted
  <2>4. /\ decided \in {"flag", "env", "default"}
        /\ decided = "env" => env[s] \notin Blank \cup {Absent}
        /\ decided = "flag" => flag[s] # Absent
        /\ c[s] = IF decided = "flag" THEN From("flag", s, flag[s], build) ELSE base
    BY <2>1, <2>3, LoadedFrom
  <2>5. /\ decided = "default" => env[s] \in Blank \cup {Absent}
        /\ decided = "flag" => ~(s \in ReadLater /\ flag[s] \in Blank)
    BY DEF Decided
  <2> HIDE DEF decided
  <2>6. CASE decided = "flag"
    <3>1. IsText(s, flag[s]) /\ Readable(s, flag[s], "flag") /\ c[s] = From("flag", s, flag[s], build)
      BY <2>4, <2>5, <2>6 DEF IsSource
    <3> QED BY <2>6, <3>1, TextAccepted DEF decided
  <2>7. CASE decided = "env"
    <3>1. IsText(s, env[s]) /\ Readable(s, env[s], "env") /\ c[s] = From("env", s, env[s], build)
      BY <2>2, <2>4, <2>7
    <3> QED BY <2>7, <3>1, TextAccepted DEF decided
  <2>8. CASE decided = "default"
    BY <2>4, <2>5, <2>8, DefaultsAccepted DEF decided
  <2> QED BY <2>4, <2>6, <2>7, <2>8
<1> HIDE DEF c
<1>3. \A s \in {"Listen", "CacheDir"} : c[s] \notin Blank
  <2>1. \A s \in {"Listen", "CacheDir"} : s \in Setting /\ s \in Words
    BY DEF Setting, Words
  <2> QED BY <1>2, <2>1, DefaultsAccepted
<1>4. Limits(c)
  <2>1. \A s \in Numbers : s \in Setting
    BY DEF Setting
  <2>2. \A s \in Numbers : c[s] \in Int /\ c[s] >= IF s \in {"ShutdownTimeout", "CacheMaxSize"} THEN 1 ELSE 0
    BY <1>2, <2>1, DefaultsAccepted
  <2> QED BY <2>2 DEF Limits, Numbers, Durations
<1>5. ParseLogLevel(c["LogLevel"]) # Rejected /\ ParseProxyURL(c["Proxy"]) # Rejected
  <2>1. \A s \in {"LogLevel", "Proxy"} : s \in Setting /\ s \in Words
    BY DEF Setting, Words
  <2>2. \A s \in {"LogLevel", "Proxy"} : c[s] # Garbage /\ c[s] # Rejected
    BY <1>2, <2>1, DefaultsAccepted
  <2> QED BY <2>2 DEF ParseLogLevel, ParseProxyURL
<1>6. Backend(c) # Rejected /\ (Backend(c) = "vaapi" => c["FfmpegHWDevice"] \notin Blank)
  <2> DEFINE accel == c["FfmpegHWAccel"]
             device == c["FfmpegHWDevice"]
  <2>1. /\ "FfmpegHWAccel" \in Setting /\ "FfmpegHWAccel" \in Words /\ "FfmpegHWAccel" \notin Numbers
        /\ "FfmpegHWDevice" \in Setting /\ "FfmpegHWDevice" \in Words /\ "FfmpegHWDevice" \notin ReadLater
    BY DEF Setting, Words, Numbers, Durations, ReadLater
  <2>2. \/ accel = "software"
        \/ /\ accel \in {env["FfmpegHWAccel"], flag["FfmpegHWAccel"]}
           /\ accel \in Blank \cup {"libx264"} \cup Backends
    BY <1>2, <2>1, DefaultsAccepted DEF IsText
  <2>3. /\ "software" \in Backends /\ Rejected \notin Backends /\ "vaapi" # "software"
    BY SettingsAssumption DEF Backends
  <2>4. /\ Backend(c) = IF accel \in Blank \cup {"libx264"} THEN "software" ELSE IF accel \in Backends THEN accel ELSE Rejected
        /\ "vaapi" \notin Blank
    BY SettingsAssumption DEF Backend, NormalizeHWBackend, Blank
  <2>5. Backend(c) # Rejected
    BY <2>2, <2>3, <2>4
  <2>6. ASSUME Backend(c) = "vaapi" PROVE device \notin Blank
    <3>1. "vaapi" \in {env["FfmpegHWAccel"], flag["FfmpegHWAccel"]}
      BY <2>2, <2>3, <2>4, <2>6
    <3>2. ~(flag["FfmpegHWDevice"] \in Blank)
          /\ ~(flag["FfmpegHWDevice"] = Absent /\ env["FfmpegHWDevice"] \in Blank \cup {Absent})
      BY <3>1
    <3>3. Decided("FfmpegHWDevice", env["FfmpegHWDevice"], flag["FfmpegHWDevice"])
            = IF flag["FfmpegHWDevice"] # Absent THEN "flag" ELSE "env"
      BY <2>1, <3>2 DEF Decided
    <3>4. device = IF flag["FfmpegHWDevice"] # Absent THEN flag["FfmpegHWDevice"] ELSE env["FfmpegHWDevice"]
      BY <1>2, <2>1, <3>3
    <3> QED BY <3>2, <3>4
  <2> QED BY <2>5, <2>6
<1> QED BY <1>2, <1>3, <1>4, <1>5, <1>6 DEF Accepted, Valid, c

(***************************************************************************)
(* Commands                                                                *)
(***************************************************************************)

(* A value that cannot be taken for an option.                             *)
IsValue(v) == v \notin Options \cup Switches \cup {Empty, Absent}

Odd(i) == i % 2 = 1

(* A list of names and values by turns, with every name of N once.         *)
Pairs(a, T, N) ==
  /\ a \in Seq(T) /\ Len(a) % 2 = 0
  /\ \A i \in 1 .. Len(a) : IF Odd(i) THEN a[i] \in N ELSE IsValue(a[i])
  /\ \A i, j \in 1 .. Len(a) : Odd(i) /\ Odd(j) /\ a[i] = a[j] => i = j
  /\ \A name \in N : \E i \in 1 .. Len(a) : Odd(i) /\ a[i] = name

Inputs  == {"-user_agent", "-headers", "-vaapi_device"}
Outputs == Options \ (Inputs \cup {"-loglevel", "-i"})

(* What comes before the output of a command whose input ends at n.        *)
Command(a, n, T, N) ==
  /\ a \in Seq(T) /\ Len(a) % 2 = 0 /\ n \in Nat /\ n % 2 = 0 /\ 6 <= n /\ n <= Len(a)
  /\ \A i \in 1 .. 4 : a[i] = Quiet[i]
  /\ \A i \in 5 .. Len(a) :
       IF Odd(i) THEN /\ a[i] \in N
                      /\ a[i] \in IF i < n - 1 THEN Inputs ELSE IF i = n - 1 THEN {"-i"} ELSE Outputs
       ELSE IsValue(a[i])
  /\ \A i, j \in 5 .. Len(a) : Odd(i) /\ Odd(j) /\ a[i] = a[j] => i = j
  /\ \A name \in N : \E i \in 5 .. Len(a) : Odd(i) /\ a[i] = name

(* An even number of places does not turn names into values.               *)
LEMMA EvenShift ==
  ASSUME NEW i \in Int, NEW k \in Int, k % 2 = 0
  PROVE  (i - k) % 2 = i % 2 /\ (i + k) % 2 = i % 2
OBVIOUS

(* The members of a concatenation.                                         *)
LEMMA Joined ==
  ASSUME NEW T, NEW a \in Seq(T), NEW b \in Seq(T)
  PROVE  /\ a \o b \in Seq(T) /\ Len(a \o b) = Len(a) + Len(b) /\ Len(a) \in Nat /\ Len(b) \in Nat
         /\ \A i \in 1 .. Len(a) : (a \o b)[i] = a[i]
         /\ \A i \in Len(a) + 1 .. Len(a) + Len(b) : (a \o b)[i] = b[i - Len(a)]
<1>1. /\ a \o b \in Seq(T) /\ Len(a \o b) = Len(a) + Len(b) /\ Len(a) \in Nat /\ Len(b) \in Nat
      /\ \A i \in 1 .. Len(a) + Len(b) : (a \o b)[i] = IF i <= Len(a) THEN a[i] ELSE b[i - Len(a)]
  BY ConcatProperties
<1> QED BY <1>1

(* The name that goes with a value, unless there is none.                  *)
Given(option, value) == IF value \in {Absent, Empty} THEN {} ELSE {option}

(* An empty list has no names.                                             *)
LEMMA NoPairs == \A T : Pairs(<<>>, T, {})
BY DEF Pairs

(* One name and its value (inputArgs).                                     *)
LEMMA OnePair ==
  ASSUME NEW T, NEW name \in T, NEW value \in T, IsValue(value)
  PROVE  Pairs(<<name, value>>, T, {name})
<1> DEFINE a == <<name, value>>
<1>1. a \in Seq(T) /\ Len(a) = 2 /\ a[1] = name /\ a[2] = value
  OBVIOUS
<1> HIDE DEF a
<1>2. \A i \in 1 .. Len(a) : (i = 1 /\ Odd(i)) \/ (i = 2 /\ ~Odd(i))
  BY <1>1 DEF Odd
<1>3. Pairs(a, T, {name})
  BY <1>1, <1>2 DEF Pairs
<1> QED BY <1>3 DEF a

(* A value that is not given leaves its name out (videoEncodeArgs).        *)
LEMMA OptionalPair ==
  ASSUME NEW T, NEW name \in T, NEW value \in T, value \notin Options \cup Switches
  PROVE  Pairs(Optional(name, value), T, Given(name, value))
<1>1. CASE value \in {Absent, Empty}
  BY <1>1, NoPairs DEF Optional, Given
<1>2. CASE value \notin {Absent, Empty}
  BY <1>2, OnePair DEF Optional, Given, IsValue
<1> QED BY <1>1, <1>2

(* Two lists of different names make one.                                  *)
LEMMA MorePairs ==
  ASSUME NEW T, NEW N, NEW M, NEW a, NEW b, Pairs(a, T, N), Pairs(b, T, M), N \cap M = {}
  PROVE  Pairs(a \o b, T, N \cup M)
<1> DEFINE c == a \o b
           k == Len(a)
           l == Len(b)
<1>1. /\ c \in Seq(T) /\ Len(c) = k + l /\ k \in Nat /\ l \in Nat
      /\ \A i \in 1 .. k : c[i] = a[i]
      /\ \A i \in k + 1 .. k + l : c[i] = b[i - k]
  BY Joined DEF Pairs
<1>2. k % 2 = 0 /\ l % 2 = 0
  BY DEF Pairs
<1>3. \A i \in k + 1 .. k + l : i - k \in 1 .. l /\ (Odd(i) <=> Odd(i - k))
  <2> TAKE i \in k + 1 .. k + l
  <2>1. k \in Int /\ l \in Int /\ i \in Int /\ k % 2 = 0 /\ k + 1 <= i /\ i <= k + l
    BY <1>1, <1>2
  <2>2. (i - k) % 2 = i % 2
    BY <2>1, EvenShift
  <2> QED BY <2>1, <2>2 DEF Odd
<1>4. /\ \A i \in 1 .. k : IF Odd(i) THEN a[i] \in N ELSE IsValue(a[i])
      /\ \A i, j \in 1 .. k : Odd(i) /\ Odd(j) /\ a[i] = a[j] => i = j
      /\ \A name \in N : \E i \in 1 .. k : Odd(i) /\ a[i] = name
  BY DEF Pairs
<1>5. /\ \A i \in 1 .. l : IF Odd(i) THEN b[i] \in M ELSE IsValue(b[i])
      /\ \A i, j \in 1 .. l : Odd(i) /\ Odd(j) /\ b[i] = b[j] => i = j
      /\ \A name \in M : \E i \in 1 .. l : Odd(i) /\ b[i] = name
  BY DEF Pairs
<1> HIDE DEF c, k, l
<1>6. \A i \in 1 .. k + l : i \in 1 .. k \/ i \in k + 1 .. k + l
  BY <1>1
<1>7. \A i \in 1 .. k + l : IF Odd(i) THEN c[i] \in IF i <= k THEN N ELSE M ELSE IsValue(c[i])
  BY <1>1, <1>3, <1>4, <1>5, <1>6
<1>8. \A i, j \in 1 .. k + l : Odd(i) /\ Odd(j) /\ c[i] = c[j] => i = j
  <2> SUFFICES ASSUME NEW i \in 1 .. k + l, NEW j \in 1 .. k + l, Odd(i), Odd(j), c[i] = c[j] PROVE i = j
    OBVIOUS
  <2>1. i <= k <=> j <= k
    BY <1>7
  <2>2. CASE i <= k
    BY <1>1, <1>4, <2>1, <2>2
  <2>3. CASE i > k
    <3>1. i - k \in 1 .. l /\ j - k \in 1 .. l /\ Odd(i - k) /\ Odd(j - k) /\ b[i - k] = b[j - k]
      BY <1>1, <1>3, <2>1, <2>3
    <3>2. i - k = j - k
      BY <1>5, <3>1
    <3> QED BY <1>1, <3>2
  <2> QED BY <1>1, <2>2, <2>3
<1>9. \A name \in N \cup M : \E i \in 1 .. k + l : Odd(i) /\ c[i] = name
  <2> TAKE name \in N \cup M
  <2>1. CASE name \in N
    <3>1. PICK i \in 1 .. k : Odd(i) /\ a[i] = name
      BY <1>4, <2>1
    <3> QED BY <1>1, <3>1
  <2>2. CASE name \in M
    <3>1. PICK i \in 1 .. l : Odd(i) /\ b[i] = name
      BY <1>5, <2>2
    <3>2. i + k \in k + 1 .. k + l /\ (i + k) - k = i
      BY <1>1
    <3> QED BY <1>1, <1>3, <3>1, <3>2
  <2> QED BY <2>1, <2>2
<1>10. (k + l) % 2 = 0
  BY <1>1, <1>2
<1>11. Pairs(c, T, N \cup M)
  BY <1>1, <1>7, <1>8, <1>9, <1>10 DEF Pairs
<1> QED BY <1>11 DEF c

(* A command goes on with options of the output.                           *)
LEMMA CommandGoesOn ==
  ASSUME NEW T, NEW N, NEW M, NEW n, NEW a, NEW b, Command(a, n, T, N), Pairs(b, T, M),
         M \subseteq Outputs, N \cap M = {}
  PROVE  Command(a \o b, n, T, N \cup M)
<1> DEFINE c == a \o b
           k == Len(a)
           l == Len(b)
<1>1. /\ c \in Seq(T) /\ Len(c) = k + l /\ k \in Nat /\ l \in Nat
      /\ \A i \in 1 .. k : c[i] = a[i]
      /\ \A i \in k + 1 .. k + l : c[i] = b[i - k]
  BY Joined DEF Pairs, Command
<1>2. k % 2 = 0 /\ l % 2 = 0 /\ n \in Nat /\ n % 2 = 0 /\ 6 <= n /\ n <= k
  BY DEF Pairs, Command
<1>3. \A i \in k + 1 .. k + l : i - k \in 1 .. l /\ (Odd(i) <=> Odd(i - k)) /\ i > n - 1
  <2> TAKE i \in k + 1 .. k + l
  <2>1. k \in Int /\ l \in Int /\ i \in Int /\ k % 2 = 0 /\ k + 1 <= i /\ i <= k + l
    BY <1>1, <1>2
  <2>2. (i - k) % 2 = i % 2
    BY <2>1, EvenShift
  <2> QED BY <1>2, <2>1, <2>2 DEF Odd
<1>4. /\ \A i \in 1 .. 4 : a[i] = Quiet[i]
      /\ \A i \in 5 .. k :
           IF Odd(i) THEN /\ a[i] \in N
                          /\ a[i] \in IF i < n - 1 THEN Inputs ELSE IF i = n - 1 THEN {"-i"} ELSE Outputs
           ELSE IsValue(a[i])
      /\ \A i, j \in 5 .. k : Odd(i) /\ Odd(j) /\ a[i] = a[j] => i = j
      /\ \A name \in N : \E i \in 5 .. k : Odd(i) /\ a[i] = name
  BY DEF Command
<1>5. /\ \A i \in 1 .. l : IF Odd(i) THEN b[i] \in M ELSE IsValue(b[i])
      /\ \A i, j \in 1 .. l : Odd(i) /\ Odd(j) /\ b[i] = b[j] => i = j
      /\ \A name \in M : \E i \in 1 .. l : Odd(i) /\ b[i] = name
  BY DEF Pairs
<1> HIDE DEF c, k, l
<1>6. \A i \in 5 .. k + l : i \in 5 .. k \/ i \in k + 1 .. k + l
  BY <1>1
<1>7. \A i \in 5 .. k : c[i] = a[i]
  BY <1>1
<1>8. \A i \in 5 .. k + l : IF Odd(i) THEN c[i] \in IF i <= k THEN N ELSE M ELSE IsValue(c[i])
  BY <1>1, <1>3, <1>4, <1>5, <1>6, <1>7
<1>9. \A i \in 5 .. k + l :
        Odd(i) => c[i] \in IF i < n - 1 THEN Inputs ELSE IF i = n - 1 THEN {"-i"} ELSE Outputs
  <2> SUFFICES ASSUME NEW i \in 5 .. k + l, Odd(i)
               PROVE  c[i] \in IF i < n - 1 THEN Inputs ELSE IF i = n - 1 THEN {"-i"} ELSE Outputs
    OBVIOUS
  <2>1. CASE i \in 5 .. k
    BY <1>4, <1>7, <2>1
  <2>2. CASE i \in k + 1 .. k + l
    <3>1. c[i] \in M /\ i > n - 1
      BY <1>1, <1>3, <1>5, <2>2
    <3> QED BY <1>2, <3>1
  <2> QED BY <1>6, <2>1, <2>2
<1>10. \A i, j \in 5 .. k + l : Odd(i) /\ Odd(j) /\ c[i] = c[j] => i = j
  <2> SUFFICES ASSUME NEW i \in 5 .. k + l, NEW j \in 5 .. k + l, Odd(i), Odd(j), c[i] = c[j] PROVE i = j
    OBVIOUS
  <2>1. i <= k <=> j <= k
    BY <1>8
  <2>2. CASE i <= k
    BY <1>1, <1>4, <1>7, <2>1, <2>2
  <2>3. CASE i > k
    <3>1. i - k \in 1 .. l /\ j - k \in 1 .. l /\ Odd(i - k) /\ Odd(j - k) /\ b[i - k] = b[j - k]
      BY <1>1, <1>3, <2>1, <2>3
    <3>2. i - k = j - k
      BY <1>5, <3>1
    <3> QED BY <1>1, <3>2
  <2> QED BY <1>1, <2>2, <2>3
<1>11. \A name \in N \cup M : \E i \in 5 .. k + l : Odd(i) /\ c[i] = name
  <2> TAKE name \in N \cup M
  <2>1. CASE name \in N
    <3>1. PICK i \in 5 .. k : Odd(i) /\ a[i] = name
      BY <1>4, <2>1
    <3> QED BY <1>1, <1>7, <3>1
  <2>2. CASE name \in M
    <3>1. PICK i \in 1 .. l : Odd(i) /\ b[i] = name
      BY <1>5, <2>2
    <3>2. i + k \in k + 1 .. k + l /\ (i + k) - k = i /\ i + k \in 5 .. k + l
      BY <1>1, <1>2
    <3> QED BY <1>1, <1>3, <3>1, <3>2
  <2> QED BY <2>1, <2>2
<1>12. (k + l) % 2 = 0 /\ n <= k + l /\ \A i \in 1 .. 4 : c[i] = Quiet[i]
  <2>1. \A i \in 1 .. 4 : i \in 1 .. k
    BY <1>1, <1>2
  <2>2. \A i \in 1 .. 4 : c[i] = Quiet[i]
    BY <1>1, <1>4, <2>1
  <2> QED BY <1>1, <1>2, <2>2
<1>13. Command(c, n, T, N \cup M)
  BY <1>1, <1>2, <1>8, <1>9, <1>10, <1>11, <1>12 DEF Command
<1> QED BY <1>13 DEF c

(* The head of a command: the options of the input, and the input.         *)
LEMMA CommandStarts ==
  ASSUME NEW T, NEW N, NEW w, Pairs(w, T, N), N \subseteq Inputs,
         Quiet \in Seq(T), "-i" \in T, "url" \in T
  PROVE  Command(Quiet \o (w \o <<"-i", "url">>), Len(w) + 6, T, N \cup {"-i"})
<1> DEFINE e == <<"-i", "url">>
           p == w \o e
           c == Quiet \o p
           k == Len(w)
           n == k + 6
<1>1. e \in Seq(T) /\ Len(e) = 2 /\ e[1] = "-i" /\ e[2] = "url"
  OBVIOUS
<1>2. w \in Seq(T) /\ k \in Nat /\ k % 2 = 0
  BY DEF Pairs
<1>3. Len(Quiet) = 4
  BY DEF Quiet
<1> HIDE DEF e
<1>4. /\ p \in Seq(T) /\ Len(p) = k + 2
      /\ \A i \in 1 .. k : p[i] = w[i]
      /\ \A i \in k + 1 .. k + 2 : p[i] = e[i - k]
  <2>1. /\ p \in Seq(T) /\ Len(p) = k + Len(e)
        /\ \A i \in 1 .. k : p[i] = w[i]
        /\ \A i \in k + 1 .. k + Len(e) : p[i] = e[i - k]
    <3>1. w \in Seq(T) /\ e \in Seq(T)
      BY <1>1, <1>2
    <3> QED BY <3>1, Joined
  <2> QED BY <1>1, <2>1
<1> HIDE DEF p
<1>5. /\ c \in Seq(T) /\ Len(c) = 4 + (k + 2)
      /\ \A i \in 1 .. 4 : c[i] = Quiet[i]
      /\ \A i \in 5 .. 4 + (k + 2) : c[i] = p[i - 4]
  <2>1. /\ c \in Seq(T) /\ Len(c) = Len(Quiet) + Len(p)
        /\ \A i \in 1 .. Len(Quiet) : c[i] = Quiet[i]
        /\ \A i \in Len(Quiet) + 1 .. Len(Quiet) + Len(p) : c[i] = p[i - Len(Quiet)]
    <3>1. p \in Seq(T)
      BY <1>4
    <3> QED BY <3>1, Joined
  <2> QED BY <1>3, <1>4, <2>1
<1>6. /\ \A i \in 1 .. k : IF Odd(i) THEN w[i] \in N ELSE IsValue(w[i])
      /\ \A i, j \in 1 .. k : Odd(i) /\ Odd(j) /\ w[i] = w[j] => i = j
      /\ \A name \in N : \E i \in 1 .. k : Odd(i) /\ w[i] = name
  BY DEF Pairs
<1> HIDE DEF c, k
<1>7. \A i \in 5 .. k + 4 : i - 4 \in 1 .. k /\ c[i] = w[i - 4]
  BY <1>2, <1>4, <1>5
<1>8. c[k + 5] = "-i" /\ c[k + 6] = "url"
  <2>1. /\ k + 5 \in 5 .. 4 + (k + 2) /\ (k + 5) - 4 = k + 1 /\ k + 1 \in k + 1 .. k + 2 /\ (k + 1) - k = 1
        /\ k + 6 \in 5 .. 4 + (k + 2) /\ (k + 6) - 4 = k + 2 /\ k + 2 \in k + 1 .. k + 2 /\ (k + 2) - k = 2
    BY <1>2
  <2>2. c[k + 5] = p[(k + 5) - 4] /\ c[k + 6] = p[(k + 6) - 4]
    BY <1>5, <2>1
  <2>3. p[k + 1] = e[(k + 1) - k] /\ p[k + 2] = e[(k + 2) - k]
    BY <1>4, <2>1
  <2> QED BY <1>1, <2>1, <2>2, <2>3
<1>9. \A i \in Int : Odd(i) <=> Odd(i - 4)
  BY EvenShift DEF Odd
<1>10. Odd(k + 5) /\ ~Odd(k + 6) /\ (k + 6) % 2 = 0
  BY <1>2 DEF Odd
<1>11. \A i \in 5 .. n : i \in 5 .. k + 4 \/ i = k + 5 \/ i = k + 6
  BY <1>2
<1>12. IsValue("url") /\ "-i" \notin Inputs
  BY CommandAssumption DEF IsValue, Options, Switches, Inputs
<1>13. \A i \in 5 .. k + 4 : IF Odd(i) THEN c[i] \in N ELSE IsValue(c[i])
  <2> TAKE i \in 5 .. k + 4
  <2>1. i \in Int /\ i - 4 \in 1 .. k /\ c[i] = w[i - 4] /\ (Odd(i) <=> Odd(i - 4))
    BY <1>7, <1>9
  <2> QED BY <1>6, <2>1
<1>14. \A i \in 5 .. n :
         IF Odd(i) THEN /\ c[i] \in N \cup {"-i"}
                        /\ c[i] \in IF i < n - 1 THEN Inputs ELSE IF i = n - 1 THEN {"-i"} ELSE Outputs
         ELSE IsValue(c[i])
  <2> TAKE i \in 5 .. n
  <2>1. CASE i \in 5 .. k + 4
    <3>1. i < n - 1
      BY <1>2, <2>1
    <3> QED BY <1>13, <2>1, <3>1
  <2>2. CASE i = k + 5
    BY <1>2, <1>8, <2>2, <1>10
  <2>3. CASE i = k + 6
    BY <1>8, <1>10, <1>12, <2>3
  <2> QED BY <1>11, <2>1, <2>2, <2>3
<1>15. \A i, j \in 5 .. n : Odd(i) /\ Odd(j) /\ c[i] = c[j] => i = j
  <2> SUFFICES ASSUME NEW i \in 5 .. n, NEW j \in 5 .. n, Odd(i), Odd(j), c[i] = c[j] PROVE i = j
    OBVIOUS
  <2>1. (i \in 5 .. k + 4 \/ i = k + 5) /\ (j \in 5 .. k + 4 \/ j = k + 5)
    BY <1>10, <1>11
  <2>2. CASE i \in 5 .. k + 4 /\ j \in 5 .. k + 4
    <3>1. i - 4 \in 1 .. k /\ j - 4 \in 1 .. k /\ Odd(i - 4) /\ Odd(j - 4) /\ w[i - 4] = w[j - 4] /\ i \in Int /\ j \in Int
      BY <1>7, <1>9, <2>2
    <3>2. i - 4 = j - 4
      BY <1>6, <3>1
    <3> QED BY <3>1, <3>2
  <2>3. \A x \in 5 .. k + 4 : Odd(x) => c[x] # "-i"
    BY <1>12, <1>13
  <2> QED BY <1>8, <2>1, <2>2, <2>3
<1>16. \A name \in N \cup {"-i"} : \E i \in 5 .. n : Odd(i) /\ c[i] = name
  <2> TAKE name \in N \cup {"-i"}
  <2>1. CASE name \in N
    <3>1. PICK i \in 1 .. k : Odd(i) /\ w[i] = name
      BY <1>6, <2>1
    <3>2. i + 4 \in 5 .. k + 4 /\ (i + 4) - 4 = i /\ i + 4 \in 5 .. n /\ i + 4 \in Int
      BY <1>2
    <3>3. c[i + 4] = w[(i + 4) - 4] /\ (Odd(i + 4) <=> Odd((i + 4) - 4))
      BY <1>7, <1>9, <3>2
    <3> QED BY <3>1, <3>2, <3>3
  <2>2. CASE name = "-i"
    <3>1. k + 5 \in 5 .. n
      BY <1>2
    <3> QED BY <1>8, <1>10, <2>2, <3>1
  <2> QED BY <2>1, <2>2
<1>17. Command(c, n, T, N \cup {"-i"})
  <2>1. Len(c) = n /\ n \in Nat /\ 6 <= n /\ n <= Len(c)
    BY <1>2, <1>5
  <2> QED BY <1>5, <1>10, <1>14, <1>15, <1>16, <2>1 DEF Command
<1> QED BY <1>17 DEF c, p, e, k

(* A command that ends with the output is one that ffmpeg can read, and it *)
(* has just the options it was made of.                                    *)
LEMMA CommandReads ==
  ASSUME NEW T, NEW N, NEW n, NEW a, Command(a, n, T, N), "pipe:1" \in T
  PROVE  /\ WellFormedCommand(a \o <<"pipe:1">>)
         /\ \A option \in Options :
              At(a \o <<"pipe:1">>, option) # {} <=> option \in N \cup {"-loglevel"}
<1> DEFINE e == <<"pipe:1">>
           c == a \o e
           k == Len(a)
<1>1. e \in Seq(T) /\ Len(e) = 1 /\ e[1] = "pipe:1"
  OBVIOUS
<1>2. a \in Seq(T) /\ k \in Nat /\ k % 2 = 0 /\ n \in Nat /\ n % 2 = 0 /\ 6 <= n /\ n <= k
  BY DEF Command
<1> HIDE DEF e
<1>3. /\ c \in Seq(T) /\ Len(c) = k + 1
      /\ \A i \in 1 .. k : c[i] = a[i]
      /\ \A i \in k + 1 .. k + 1 : c[i] = e[i - k]
  <2>1. /\ c \in Seq(T) /\ Len(c) = k + Len(e)
        /\ \A i \in 1 .. k : c[i] = a[i]
        /\ \A i \in k + 1 .. k + Len(e) : c[i] = e[i - k]
    <3>1. a \in Seq(T) /\ e \in Seq(T)
      BY <1>1, <1>2
    <3> QED BY <3>1, Joined
  <2> QED BY <1>1, <2>1
<1>4. /\ \A i \in 1 .. 4 : a[i] = Quiet[i]
      /\ \A i \in 5 .. k :
           IF Odd(i) THEN /\ a[i] \in N
                          /\ a[i] \in IF i < n - 1 THEN Inputs ELSE IF i = n - 1 THEN {"-i"} ELSE Outputs
           ELSE IsValue(a[i])
      /\ \A i, j \in 5 .. k : Odd(i) /\ Odd(j) /\ a[i] = a[j] => i = j
      /\ \A name \in N : \E i \in 5 .. k : Odd(i) /\ a[i] = name
  BY DEF Command
<1> HIDE DEF c, k
<1>5. DOMAIN c = 1 .. k + 1 /\ c[k + 1] = "pipe:1"
  <2>1. k + 1 \in k + 1 .. k + 1 /\ (k + 1) - k = 1
    BY <1>2
  <2> QED BY <1>1, <1>2, <1>3, <2>1
<1>6. c[1] = "-hide_banner" /\ c[2] = "-loglevel" /\ c[3] = "error" /\ c[4] = "-nostdin"
  <2>1. Quiet[1] = "-hide_banner" /\ Quiet[2] = "-loglevel" /\ Quiet[3] = "error" /\ Quiet[4] = "-nostdin"
    BY DEF Quiet
  <2>2. \A i \in {1, 2, 3, 4} : i \in 1 .. 4 /\ i \in 1 .. k
    BY <1>2
  <2> QED BY <1>3, <1>4, <2>1, <2>2
<1>7. \A i \in 5 .. k :
        IF Odd(i) THEN /\ c[i] \in N
                       /\ c[i] \in IF i < n - 1 THEN Inputs ELSE IF i = n - 1 THEN {"-i"} ELSE Outputs
        ELSE IsValue(c[i])
  BY <1>2, <1>3, <1>4
<1>8. \A i, j \in 5 .. k : Odd(i) /\ Odd(j) /\ c[i] = c[j] => i = j
  BY <1>2, <1>3, <1>4
<1>9. /\ Inputs \subseteq Options /\ Outputs \subseteq Options /\ "-i" \in Options /\ "-loglevel" \in Options
      /\ Inputs \cap Outputs = {} /\ "-i" \notin Inputs \cup Outputs /\ "-loglevel" \notin Inputs \cup Outputs
      /\ \A name \in Options : name \notin Switches
      /\ "pipe:1" \notin Options \cup Switches /\ "error" \notin Options \cup Switches
      /\ "-hide_banner" \notin Options /\ "-nostdin" \notin Options /\ "error" \notin {Empty, Absent}
      /\ "-hide_banner" \in Switches /\ "-nostdin" \in Switches
  BY CommandAssumption DEF Inputs, Outputs, Options, Switches
<1>10. \A i \in 5 .. k : c[i] \in Options <=> Odd(i)
  BY <1>7, <1>9 DEF IsValue
<1>11. \A i \in 1 .. k + 1 : i \in {1, 2, 3, 4} \/ i \in 5 .. k \/ i = k + 1
  BY <1>2
<1>12. \A i \in 1 .. k + 1 : c[i] \in Switches <=> i \in {1, 4}
  <2>1. \A i \in 5 .. k : c[i] \notin Switches
    BY <1>7, <1>9, <1>10 DEF IsValue
  <2>2. k + 1 \notin {1, 4} /\ \A i \in 5 .. k : i \notin {1, 4}
    BY <1>2
  <2> QED BY <1>5, <1>6, <1>9, <1>11, <2>1, <2>2
<1>13. ReadsName(c, 2) /\ ~ReadsName(c, 3)
  <2>1. {j \in 1 .. 2 - 1 : c[j] \in Switches} = {1} /\ {j \in 1 .. 3 - 1 : c[j] \in Switches} = {1}
    BY <1>2, <1>12
  <2>2. Cardinality({1}) = 1
    BY FS_Singleton
  <2>3. Place(c, 2) = 1 /\ Place(c, 3) = 2
    BY <2>1, <2>2 DEF Place
  <2> QED BY <2>3 DEF ReadsName
<1>14. \A i \in 5 .. k + 1 : ReadsName(c, i) <=> Odd(i)
  <2> TAKE i \in 5 .. k + 1
  <2>1. {j \in 1 .. i - 1 : c[j] \in Switches} = {1, 4}
    BY <1>2, <1>12
  <2>2. Cardinality({1, 4}) = 2
    <3>1. IsFiniteSet({1}) /\ Cardinality({1}) = 1
      BY FS_Singleton
    <3>2. 4 \notin {1} /\ {1, 4} = {1} \cup {4}
      OBVIOUS
    <3>3. Cardinality({1} \cup {4}) = Cardinality({1}) + 1
      BY <3>1, <3>2, FS_AddElement
    <3> QED BY <3>1, <3>2, <3>3
  <2>3. Place(c, i) = i - 2
    BY <2>1, <2>2 DEF Place
  <2> QED BY <2>3, EvenShift DEF ReadsName, Odd
<1>15. ReadsName(c, k + 1)
  BY <1>2, <1>14 DEF Odd
<1>16. \A i \in 1 .. k : c[i] \notin Switches =>
         IF ReadsName(c, i) THEN c[i] \in Options ELSE c[i] \notin Options \cup {Empty, Absent}
  <2>1. \A i \in 5 .. k : IF ReadsName(c, i) THEN c[i] \in Options ELSE c[i] \notin Options \cup {Empty, Absent}
    <3> TAKE i \in 5 .. k
    <3>1. ReadsName(c, i) <=> Odd(i)
      BY <1>2, <1>14
    <3> QED BY <1>7, <1>10, <3>1 DEF IsValue
  <2>2. \A i \in 1 .. k : i \in {1, 2, 3, 4} \/ i \in 5 .. k
    BY <1>2
  <2> QED BY <1>6, <1>9, <1>13, <2>1, <2>2
<1>17. \A option \in Options : \A i \in At(c, option) :
         (i = 2 /\ option = "-loglevel") \/ (i \in 5 .. k /\ Odd(i) /\ c[i] = option /\ option # "-loglevel")
  <2> TAKE option \in Options
  <2> TAKE i \in At(c, option)
  <2>1. i \in 1 .. k + 1 /\ c[i] = option
    BY <1>5 DEF At
  <2>2. i \in 5 .. k => Odd(i) /\ option # "-loglevel"
    <3> HAVE i \in 5 .. k
    <3>1. Odd(i)
      BY <1>10, <2>1
    <3> QED BY <1>7, <1>9, <2>1, <3>1
  <2> QED BY <1>5, <1>6, <1>9, <1>11, <2>1, <2>2
<1>18. \A option \in Options : \A i, j \in At(c, option) : i = j
  BY <1>8, <1>17
<1>19. \A option \in Options \ {"-i"} : \A i \in At(c, option), j \in At(c, "-i") :
         i < j <=> option \in {"-loglevel", "-user_agent", "-headers", "-vaapi_device"}
  <2> TAKE option \in Options \ {"-i"}
  <2> TAKE i \in At(c, option), j \in At(c, "-i")
  <2>1. j \in 5 .. k /\ Odd(j) /\ c[j] = "-i"
    BY <1>9, <1>17
  <2>2. j = n - 1
    BY <1>2, <1>7, <1>9, <2>1
  <2>3. CASE i = 2 /\ option = "-loglevel"
    BY <1>2, <2>2, <2>3
  <2>4. CASE i \in 5 .. k /\ Odd(i) /\ c[i] = option /\ option # "-loglevel"
    <3>1. option \in IF i < n - 1 THEN Inputs ELSE IF i = n - 1 THEN {"-i"} ELSE Outputs
      BY <1>7, <2>4
    <3>2. i < n - 1 <=> option \in Inputs
      BY <1>2, <1>9, <3>1, <2>4
    <3> QED BY <2>2, <2>4, <3>2 DEF Inputs
  <2> QED BY <1>17, <2>3, <2>4
<1>20. WellFormedCommand(c)
  <2>1. Len(c) = k + 1 /\ (k + 1) - 1 = k
    BY <1>2, <1>3
  <2> QED BY <1>5, <1>15, <1>16, <1>18, <1>19, <2>1 DEF WellFormedCommand
<1>21. \A option \in Options : At(c, option) # {} <=> option \in N \cup {"-loglevel"}
  <2> TAKE option \in Options
  <2>1. At(c, option) # {} => option \in N \cup {"-loglevel"}
    BY <1>7, <1>17
  <2>2. option = "-loglevel" => 2 \in At(c, option)
    BY <1>2, <1>5, <1>6 DEF At
  <2>3. option \in N => At(c, option) # {}
    <3> HAVE option \in N
    <3>1. PICK i \in 5 .. k : a[i] = option
      BY <1>4
    <3>2. i \in 1 .. k /\ i \in 1 .. k + 1
      BY <1>2
    <3>3. i \in At(c, option)
      BY <1>3, <1>5, <3>1, <3>2 DEF At
    <3> QED BY <3>3
  <2> QED BY <2>1, <2>2, <2>3
<1> QED BY <1>20, <1>21 DEF c, e

(* The words of a command, and the settings it repeats.                    *)
Vocabulary(c, headers) ==
  Options \cup Switches \cup Backends \cup {c[s] : s \in Setting} \cup {headers.agent}
  \cup {"error", "url", "lines", "copy", "aac", "fragmented", "mp4", "8M", "hwupload", "yuv420p",
        "nv12", "libx264", "pipe:1"}

Repeated == {"TranscodePreset", "TranscodeCRF", "TranscodeVideoBitrate", "TranscodeMaxrate",
             "TranscodeBufsize", "TranscodeAudioBitrate"}

IsCommandConfig(c) ==
  /\ Backend(c) \in Backends /\ IsValue(c.FfmpegHWDevice) /\ c.TranscodeVideoBitrate # Absent
  /\ \A s \in Repeated : c[s] \notin Options \cup Switches

(* What a setting says is a word of the command.                           *)
LEMMA SettingsAreWords ==
  ASSUME NEW c, NEW headers
  PROVE  \A s \in Repeated \cup {"FfmpegHWDevice"} : c[s] \in Vocabulary(c, headers)
<1>1. Repeated \cup {"FfmpegHWDevice"} \subseteq Setting
  BY DEF Repeated, Setting, Words
<1> QED BY <1>1 DEF Vocabulary

(* The options of the encoder's rate control.                              *)
RateNames(c) ==
  IF Backend(c) = "software"
  THEN Given("-preset", c.TranscodePreset)
       \cup (IF c.TranscodeVideoBitrate # Empty THEN {"-b:v"} ELSE Given("-crf", c.TranscodeCRF))
  ELSE {"-b:v"}

(* The rate control of the encoder is names and values (videoEncodeArgs).  *)
LEMMA RatePairs ==
  ASSUME NEW c, NEW headers, IsCommandConfig(c)
  PROVE  Pairs(RateArgs(c), Vocabulary(c, headers), RateNames(c))
<1> DEFINE T == Vocabulary(c, headers)
<1>1. {"-preset", "-b:v", "-crf", "8M"} \subseteq T
  BY DEF Vocabulary, Options
<1>2. c.TranscodePreset \in T /\ c.TranscodeVideoBitrate \in T /\ c.TranscodeCRF \in T
  BY SettingsAreWords DEF Repeated
<1>3. /\ c.TranscodePreset \notin Options \cup Switches /\ c.TranscodeCRF \notin Options \cup Switches
      /\ c.TranscodeVideoBitrate \notin Options \cup Switches /\ c.TranscodeVideoBitrate # Absent
  BY DEF IsCommandConfig, Repeated
<1>4. IsValue("8M")
  BY CommandAssumption DEF IsValue, Options, Switches
<1> HIDE DEF T
<1>5. c.TranscodeVideoBitrate # Empty => Pairs(<<"-b:v", c.TranscodeVideoBitrate>>, T, {"-b:v"})
  BY <1>1, <1>2, <1>3, OnePair DEF IsValue
<1>6. CASE Backend(c) = "software"
  <2>1. Pairs(Optional("-preset", c.TranscodePreset), T, Given("-preset", c.TranscodePreset))
    BY <1>1, <1>2, <1>3, OptionalPair
  <2>2. Pairs(Optional("-crf", c.TranscodeCRF), T, Given("-crf", c.TranscodeCRF))
    BY <1>1, <1>2, <1>3, OptionalPair
  <2>3. CASE c.TranscodeVideoBitrate # Empty
    <3>1. Given("-preset", c.TranscodePreset) \cap {"-b:v"} = {}
      BY DEF Given
    <3> QED BY <1>5, <1>6, <2>1, <2>3, <3>1, MorePairs DEF RateArgs, RateNames, T
  <2>4. CASE c.TranscodeVideoBitrate = Empty
    <3>1. Given("-preset", c.TranscodePreset) \cap Given("-crf", c.TranscodeCRF) = {}
      BY DEF Given
    <3> QED BY <1>6, <2>1, <2>2, <2>4, <3>1, MorePairs DEF RateArgs, RateNames, T
  <2> QED BY <2>3, <2>4
<1>7. CASE Backend(c) # "software"
  <2>1. Pairs(<<"-b:v", "8M">>, T, {"-b:v"})
    BY <1>1, <1>4, OnePair
  <2> QED BY <1>5, <1>7, <2>1 DEF RateArgs, RateNames, T
<1> QED BY <1>6, <1>7

(* The options of the video encoder.                                       *)
FrameName(c) == IF Backend(c) = "vaapi" THEN "-vf" ELSE "-pix_fmt"

EncodeNames(c) ==
  {"-c:v"} \cup RateNames(c) \cup Given("-maxrate", c.TranscodeMaxrate)
  \cup Given("-bufsize", c.TranscodeBufsize) \cup {FrameName(c)}

(* So is all of the video encoder's, with no name twice (videoEncodeArgs). *)
LEMMA EncodePairs ==
  ASSUME NEW c, NEW headers, IsCommandConfig(c)
  PROVE  Pairs(VideoEncodeArgs(c), Vocabulary(c, headers), EncodeNames(c))
<1> DEFINE T == Vocabulary(c, headers)
           encoder == Encoder(Backend(c))
           frames == IF Backend(c) = "vaapi" THEN <<"-vf", "hwupload">> ELSE <<"-pix_fmt", PixFmt[Backend(c)]>>
           a1 == <<"-c:v", encoder>>
           a2 == RateArgs(c)
           a3 == Optional("-maxrate", c.TranscodeMaxrate)
           a4 == Optional("-bufsize", c.TranscodeBufsize)
           n1 == {"-c:v"}
           n2 == RateNames(c)
           n3 == Given("-maxrate", c.TranscodeMaxrate)
           n4 == Given("-bufsize", c.TranscodeBufsize)
           n5 == {FrameName(c)}
<1>1. Backend(c) \in Backends
  BY DEF IsCommandConfig
<1>2. \A v \in Backends \cup {"libx264", "hwupload", "yuv420p", "nv12"} : v \in T /\ IsValue(v)
  <2>1. \A v \in Backends \cup {"libx264", "hwupload", "yuv420p", "nv12"} : v \in T
    BY DEF Vocabulary
  <2>2. \A v \in Backends \cup {"libx264", "hwupload", "yuv420p", "nv12"} : v \notin Options \cup Switches
    BY DEF Backends, Options, Switches
  <2>3. \A v \in Backends \cup {"libx264", "hwupload", "yuv420p", "nv12"} : v # Absent /\ v # Empty
    BY CommandAssumption
  <2> QED BY <2>1, <2>2, <2>3 DEF IsValue
<1>3. encoder \in Backends \cup {"libx264"}
  BY <1>1 DEF Encoder
<1>4. Backend(c) # "vaapi" => PixFmt[Backend(c)] \in {"yuv420p", "nv12"}
  BY <1>1 DEF PixFmt, Backends
<1>5. /\ c.TranscodeMaxrate \in T /\ c.TranscodeMaxrate \notin Options \cup Switches
      /\ c.TranscodeBufsize \in T /\ c.TranscodeBufsize \notin Options \cup Switches
  BY SettingsAreWords DEF IsCommandConfig, Repeated
<1>6. {"-c:v", "-maxrate", "-bufsize", "-vf", "-pix_fmt"} \subseteq T
  BY DEF Vocabulary, Options
<1>7. Pairs(a2, T, n2)
  BY RatePairs
<1> HIDE DEF T, encoder
<1>8. Pairs(a1, T, n1)
  BY <1>2, <1>3, <1>6, OnePair
<1>9. Pairs(a3, T, n3)
  BY <1>5, <1>6, OptionalPair
<1>10. Pairs(a4, T, n4)
  BY <1>5, <1>6, OptionalPair
<1>11. Pairs(frames, T, n5)
  <2>1. CASE Backend(c) = "vaapi"
    BY <1>2, <1>6, <2>1, OnePair DEF FrameName
  <2>2. CASE Backend(c) # "vaapi"
    BY <1>2, <1>4, <1>6, <2>2, OnePair DEF FrameName
  <2> QED BY <2>1, <2>2
<1>12. /\ n1 \cap n2 = {} /\ (n1 \cup n2) \cap n3 = {} /\ (n1 \cup n2 \cup n3) \cap n4 = {}
       /\ (n1 \cup n2 \cup n3 \cup n4) \cap n5 = {}
  BY DEF RateNames, Given, FrameName
<1>13. VideoEncodeArgs(c) = a1 \o a2 \o a3 \o a4 \o frames /\ EncodeNames(c) = n1 \cup n2 \cup n3 \cup n4 \cup n5
  BY DEF VideoEncodeArgs, EncodeNames, encoder
<1> HIDE DEF a1, a2, a3, a4, frames, n1, n2, n3, n4, n5
<1>14. Pairs(a1 \o a2, T, n1 \cup n2)
  BY <1>7, <1>8, <1>12, MorePairs
<1>15. Pairs(a1 \o a2 \o a3, T, n1 \cup n2 \cup n3)
  BY <1>9, <1>12, <1>14, MorePairs
<1>16. Pairs(a1 \o a2 \o a3 \o a4, T, n1 \cup n2 \cup n3 \cup n4)
  BY <1>10, <1>12, <1>15, MorePairs
<1>17. Pairs(a1 \o a2 \o a3 \o a4 \o frames, T, n1 \cup n2 \cup n3 \cup n4 \cup n5)
  BY <1>11, <1>12, <1>16, MorePairs
<1> QED BY <1>13, <1>17 DEF T

(* The options of the input.                                               *)
HeaderNames(headers) ==
  Given("-user_agent", headers.agent) \cup (IF headers.others THEN {"-headers"} ELSE {})

HeaderArgs(headers) ==
  Optional("-user_agent", headers.agent) \o (IF headers.others THEN <<"-headers", "lines">> ELSE <<>>)

(* They are names and values, none of them blank (inputArgs).              *)
LEMMA HeaderPairs ==
  ASSUME NEW c, NEW headers, headers.agent \notin Options \cup Switches
  PROVE  Pairs(HeaderArgs(headers), Vocabulary(c, headers), HeaderNames(headers))
<1> DEFINE T == Vocabulary(c, headers)
           a1 == Optional("-user_agent", headers.agent)
           a2 == IF headers.others THEN <<"-headers", "lines">> ELSE <<>>
           n1 == Given("-user_agent", headers.agent)
           n2 == IF headers.others THEN {"-headers"} ELSE {}
<1>1. {"-user_agent", "-headers", "lines", headers.agent} \subseteq T
  BY DEF Vocabulary, Options
<1>2. IsValue("lines")
  BY CommandAssumption DEF IsValue, Options, Switches
<1> HIDE DEF T
<1>3. Pairs(a1, T, n1)
  BY <1>1, OptionalPair
<1>4. Pairs(a2, T, n2)
  BY <1>1, <1>2, OnePair, NoPairs
<1>5. n1 \cap n2 = {}
  BY DEF Given
<1> HIDE DEF a1, a2, n1, n2
<1>6. Pairs(a1 \o a2, T, n1 \cup n2)
  BY <1>3, <1>4, <1>5, MorePairs
<1> QED BY <1>6 DEF HeaderArgs, HeaderNames, T, a1, a2, n1, n2

(* Every command ends with the same output (transcodeArgs, openRemux).    *)
LEMMA CommandEnds ==
  ASSUME NEW T, NEW N, NEW n, NEW a, Command(a, n, T, N), N \cap {"-movflags", "-f"} = {},
         {"-movflags", "fragmented", "-f", "mp4", "pipe:1"} \subseteq T
  PROVE  /\ WellFormedCommand(a \o Output)
         /\ \A option \in Options :
              At(a \o Output, option) # {} <=> option \in N \cup {"-loglevel", "-movflags", "-f"}
<1> DEFINE o1 == <<"-movflags", "fragmented">>
           o2 == <<"-f", "mp4">>
           o3 == <<"pipe:1">>
           d == (a \o o1) \o o2
           M == (N \cup {"-movflags"}) \cup {"-f"}
<1>1. o1 \in Seq(T) /\ o2 \in Seq(T) /\ o3 \in Seq(T) /\ a \in Seq(T)
  BY DEF Command
<1>2. Output = (o1 \o o2) \o o3
  BY DEF Output
<1>3. IsValue("fragmented") /\ IsValue("mp4")
  BY CommandAssumption DEF IsValue, Options, Switches
<1>4. Pairs(o1, T, {"-movflags"}) /\ Pairs(o2, T, {"-f"})
  BY <1>3, OnePair
<1> HIDE DEF o1, o2, o3
<1>5. a \o Output = d \o o3
  <2>1. o1 \o o2 \in Seq(T) /\ a \o o1 \in Seq(T)
    BY <1>1
  <2>2. a \o ((o1 \o o2) \o o3) = (a \o (o1 \o o2)) \o o3
    <3> DEFINE z == o1 \o o2
    <3>1. a \in Seq(T) /\ z \in Seq(T) /\ o3 \in Seq(T)
      BY <1>1, <2>1
    <3> HIDE DEF z
    <3>2. (a \o z) \o o3 = a \o (z \o o3)
      BY <3>1, ConcatAssociative
    <3> QED BY <3>2 DEF z
  <2>3. a \o (o1 \o o2) = (a \o o1) \o o2
    <3>1. a \in Seq(T) /\ o1 \in Seq(T) /\ o2 \in Seq(T)
      BY <1>1
    <3> QED BY <3>1, ConcatAssociative
  <2> QED BY <1>2, <2>2, <2>3
<1>6. {"-movflags"} \subseteq Outputs /\ {"-f"} \subseteq Outputs
  BY DEF Outputs, Options, Inputs
<1>7. Command(a \o o1, n, T, N \cup {"-movflags"})
  BY <1>4, <1>6, CommandGoesOn
<1>8. Command(d, n, T, M)
  <2>1. (N \cup {"-movflags"}) \cap {"-f"} = {}
    OBVIOUS
  <2> QED BY <1>4, <1>6, <1>7, <2>1, CommandGoesOn
<1> HIDE DEF d, M
<1>9. /\ WellFormedCommand(d \o <<"pipe:1">>)
      /\ \A option \in Options : At(d \o <<"pipe:1">>, option) # {} <=> option \in M \cup {"-loglevel"}
  BY <1>8, CommandReads
<1> QED BY <1>5, <1>9 DEF M, o3

(* A command that copies what it downloads (openRemux).                    *)
LEMMA RemuxReads ==
  ASSUME NEW headers, headers.agent \notin Options \cup Switches
  PROVE  WellFormedCommand(OpenRemux(headers))
<1> DEFINE c == [s \in Setting |-> Empty]
           T == Vocabulary(c, headers)
           w == HeaderArgs(headers)
           e == <<"-i", "url">>
           b == <<"-c", "copy">>
           N == HeaderNames(headers)
<1>1. Pairs(w, T, N)
  BY HeaderPairs
<1>2. Quiet \in Seq(T) /\ e \in Seq(T) /\ b \in Seq(T) /\ "-i" \in T /\ "url" \in T /\ "-c" \in T /\ "copy" \in T
      /\ {"-movflags", "fragmented", "-f", "mp4", "pipe:1"} \subseteq T
  <2>1. {"-hide_banner", "-loglevel", "error", "-nostdin", "-i", "url", "-c", "copy",
         "-movflags", "fragmented", "-f", "mp4", "pipe:1"} \subseteq T
    BY DEF Vocabulary, Options, Switches
  <2> HIDE DEF T
  <2> QED BY <2>1 DEF Quiet
<1>3. IsValue("copy") /\ {"-c"} \subseteq Outputs
  BY CommandAssumption DEF IsValue, Options, Switches, Outputs, Inputs
<1>4. N \subseteq Inputs
  BY DEF HeaderNames, Given, Inputs
<1> HIDE DEF T, N, w, c
<1>5. Command(Quiet \o (w \o e), Len(w) + 6, T, N \cup {"-i"})
  BY <1>1, <1>2, <1>4, CommandStarts
<1>6. Pairs(b, T, {"-c"})
  BY <1>2, <1>3, OnePair
<1>7. Command((Quiet \o (w \o e)) \o b, Len(w) + 6, T, (N \cup {"-i"}) \cup {"-c"})
  <2>1. (N \cup {"-i"}) \cap {"-c"} = {}
    BY <1>4 DEF Inputs
  <2> QED BY <1>3, <1>5, <1>6, <2>1, CommandGoesOn
<1>8. WellFormedCommand(((Quiet \o (w \o e)) \o b) \o Output)
  <2>1. ((N \cup {"-i"}) \cup {"-c"}) \cap {"-movflags", "-f"} = {}
    BY <1>4 DEF Inputs
  <2> QED BY <1>2, <1>7, <2>1, CommandEnds
<1>9. OpenRemux(headers) = ((Quiet \o (w \o e)) \o b) \o Output
  BY DEF OpenRemux, InputArgs, HeaderArgs, w
<1> QED BY <1>8, <1>9

(* The options of a command that encodes.                                  *)
DeviceNames(c) == IF Backend(c) = "vaapi" THEN {"-vaapi_device"} ELSE {}

TranscodeNames(c, headers) ==
  DeviceNames(c) \cup HeaderNames(headers) \cup {"-i"} \cup EncodeNames(c) \cup {"-c:a"}
  \cup Given("-b:a", c.TranscodeAudioBitrate) \cup {"-loglevel", "-movflags", "-f"}

(* A command that encodes can be read, and has just these (transcodeArgs). *)
LEMMA TranscodeReads ==
  ASSUME NEW c, NEW headers, IsCommandConfig(c), headers.agent \notin Options \cup Switches
  PROVE  /\ WellFormedCommand(TranscodeArgs(c, headers))
         /\ \A option \in Options :
              At(TranscodeArgs(c, headers), option) # {} <=> option \in TranscodeNames(c, headers)
<1> DEFINE T == Vocabulary(c, headers)
           v == IF Backend(c) = "vaapi" THEN <<"-vaapi_device", c.FfmpegHWDevice>> ELSE <<>>
           h == HeaderArgs(headers)
           w == v \o h
           e == <<"-i", "url">>
           b1 == VideoEncodeArgs(c)
           b2 == <<"-c:a", "aac">>
           b3 == Optional("-b:a", c.TranscodeAudioBitrate)
           M == DeviceNames(c)
           H == HeaderNames(headers)
           N == (M \cup H) \cup {"-i"}
           n1 == EncodeNames(c)
           n2 == {"-c:a"}
           n3 == Given("-b:a", c.TranscodeAudioBitrate)
<1>1. /\ Quiet \in Seq(T) /\ e \in Seq(T) /\ "-i" \in T /\ "url" \in T
      /\ {"-vaapi_device", "-c:a", "aac", "-b:a", "-movflags", "fragmented", "-f", "mp4", "pipe:1"} \subseteq T
  <2>1. {"-hide_banner", "-loglevel", "error", "-nostdin", "-i", "url", "-vaapi_device", "-c:a", "aac", "-b:a",
         "-movflags", "fragmented", "-f", "mp4", "pipe:1"} \subseteq T
    BY DEF Vocabulary, Options, Switches
  <2> HIDE DEF T
  <2> QED BY <2>1 DEF Quiet
<1>2. /\ c.FfmpegHWDevice \in T /\ IsValue(c.FfmpegHWDevice) /\ c.TranscodeAudioBitrate \in T
      /\ c.TranscodeAudioBitrate \notin Options \cup Switches
  BY SettingsAreWords DEF IsCommandConfig, Repeated
<1>3. IsValue("aac")
  BY CommandAssumption DEF IsValue, Options, Switches
<1>4. Pairs(h, T, H)
  BY HeaderPairs
<1>5. Pairs(b1, T, n1)
  BY EncodePairs
<1>6. M \cup H \subseteq Inputs /\ M \cap H = {}
  BY DEF DeviceNames, HeaderNames, Given, Inputs
<1>7. n1 \subseteq Outputs /\ n2 \subseteq Outputs /\ n3 \subseteq Outputs /\ n1 \cap n2 = {} /\ (n1 \cup n2) \cap n3 = {}
      /\ (n1 \cup n2 \cup n3) \cap {"-movflags", "-f"} = {}
  BY DEF EncodeNames, RateNames, FrameName, Given, Outputs, Options, Inputs
<1> HIDE DEF T
<1>8. Pairs(v, T, M)
  BY <1>1, <1>2, OnePair, NoPairs DEF DeviceNames
<1>9. Pairs(b2, T, n2)
  BY <1>1, <1>3, OnePair
<1>10. Pairs(b3, T, n3)
  BY <1>1, <1>2, OptionalPair
<1>11. TranscodeArgs(c, headers)
         = (((((Quiet \o v) \o (h \o e)) \o b1) \o b2) \o b3) \o Output
  BY DEF TranscodeArgs, InputArgs, HeaderArgs
<1>12. TranscodeNames(c, headers)
         = (((N \cup n1) \cup n2) \cup n3) \cup {"-loglevel", "-movflags", "-f"}
  BY DEF TranscodeNames
<1> HIDE DEF v, h, b1, b2, b3, M, H, n1, n2, n3, e
<1>13. (Quiet \o v) \o (h \o e) = Quiet \o (w \o e)
  <2>1. v \in Seq(T) /\ h \in Seq(T)
    BY <1>4, <1>8 DEF Pairs
  <2>2. h \o e \in Seq(T)
    BY <1>1, <2>1
  <2>3. (Quiet \o v) \o (h \o e) = Quiet \o (v \o (h \o e))
    <3> DEFINE z == h \o e
    <3>1. Quiet \in Seq(T) /\ v \in Seq(T) /\ z \in Seq(T)
      BY <1>1, <2>1, <2>2
    <3> HIDE DEF z
    <3>2. (Quiet \o v) \o z = Quiet \o (v \o z)
      BY <3>1, ConcatAssociative
    <3> QED BY <3>2 DEF z
  <2>4. (v \o h) \o e = v \o (h \o e)
    BY <1>1, <2>1, ConcatAssociative
  <2> QED BY <2>3, <2>4
<1>14. Pairs(w, T, M \cup H)
  BY <1>4, <1>6, <1>8, MorePairs
<1> HIDE DEF w
<1> DEFINE a1 == Quiet \o (w \o e)
           n == Len(w) + 6
<1>15. Command(a1, n, T, N)
  BY <1>1, <1>6, <1>14, CommandStarts DEF e
<1> HIDE DEF a1, n
<1>16. N \cap Outputs = {} /\ N \cap {"-movflags", "-f"} = {}
  BY <1>6 DEF Outputs, Inputs
<1> HIDE DEF N
<1>17. Command(a1 \o b1, n, T, N \cup n1)
  <2>1. N \cap n1 = {}
    BY <1>7, <1>16
  <2> QED BY <1>5, <1>7, <1>15, <2>1, CommandGoesOn
<1>18. Command((a1 \o b1) \o b2, n, T, (N \cup n1) \cup n2)
  <2>1. (N \cup n1) \cap n2 = {}
    BY <1>7, <1>16
  <2> QED BY <1>7, <1>9, <1>17, <2>1, CommandGoesOn
<1>19. Command(((a1 \o b1) \o b2) \o b3, n, T, ((N \cup n1) \cup n2) \cup n3)
  <2>1. ((N \cup n1) \cup n2) \cap n3 = {}
    BY <1>7, <1>16
  <2> QED BY <1>7, <1>10, <1>18, <2>1, CommandGoesOn
<1>20. (((N \cup n1) \cup n2) \cup n3) \cap {"-movflags", "-f"} = {}
  BY <1>7, <1>16
<1>21. {"-movflags", "fragmented", "-f", "mp4", "pipe:1"} \subseteq T
  BY <1>1
<1> DEFINE d == ((a1 \o b1) \o b2) \o b3
           D == ((N \cup n1) \cup n2) \cup n3
<1>22. d \o Output = TranscodeArgs(c, headers)
  BY <1>11, <1>13 DEF a1
<1> HIDE DEF d, D
<1>23. /\ WellFormedCommand(d \o Output)
       /\ \A option \in Options : At(d \o Output, option) # {} <=> option \in D \cup {"-loglevel", "-movflags", "-f"}
  BY <1>19, <1>20, <1>21, CommandEnds DEF d, D
<1> QED BY <1>12, <1>22, <1>23 DEF D

(* Every accepted configuration leads to commands that ffmpeg can read.    *)
LEMMA EveryCommandIsWhole ==
  ASSUME NEW c, NEW headers, IsCommandConfig(c), headers.agent \notin Options \cup Switches
  PROVE  EncodesAsConfigured(c, headers)
<1> DEFINE a == TranscodeArgs(c, headers)
           Has(option) == At(a, option) # {}
           N == TranscodeNames(c, headers)
<1>1. WellFormedCommand(a) /\ WellFormedCommand(OpenRemux(headers))
  BY TranscodeReads, RemuxReads
<1>2. \A option \in Options : Has(option) <=> option \in N
  BY TranscodeReads
<1>3. {"-crf", "-b:v", "-preset", "-vf", "-vaapi_device", "-pix_fmt"} \subseteq Options
  BY DEF Options
<1>4. /\ IF Backend(c) = "software" THEN ~("-crf" \in N /\ "-b:v" \in N)
         ELSE "-b:v" \in N /\ "-crf" \notin N /\ "-preset" \notin N
      /\ "-vf" \in N <=> Backend(c) = "vaapi"
      /\ "-vaapi_device" \in N <=> "-vf" \in N
      /\ "-pix_fmt" \in N <=> "-vf" \notin N
  <2>1. "-crf" \in N <=> "-crf" \in RateNames(c)
    BY DEF TranscodeNames, EncodeNames, DeviceNames, HeaderNames, FrameName, Given
  <2>2. "-b:v" \in N <=> "-b:v" \in RateNames(c)
    BY DEF TranscodeNames, EncodeNames, DeviceNames, HeaderNames, FrameName, Given
  <2>3. "-preset" \in N <=> "-preset" \in RateNames(c)
    BY DEF TranscodeNames, EncodeNames, DeviceNames, HeaderNames, FrameName, Given
  <2>4. IF Backend(c) = "software" THEN ~("-crf" \in RateNames(c) /\ "-b:v" \in RateNames(c))
        ELSE "-b:v" \in RateNames(c) /\ "-crf" \notin RateNames(c) /\ "-preset" \notin RateNames(c)
    BY DEF RateNames, Given
  <2>5. RateNames(c) \cap {"-vf", "-vaapi_device", "-pix_fmt"} = {}
    BY DEF RateNames, Given
  <2>6. /\ "-vf" \in N <=> Backend(c) = "vaapi"
        /\ "-vaapi_device" \in N <=> Backend(c) = "vaapi"
        /\ "-pix_fmt" \in N <=> Backend(c) # "vaapi"
    BY <2>5 DEF TranscodeNames, EncodeNames, DeviceNames, HeaderNames, FrameName, Given
  <2> QED BY <2>1, <2>2, <2>3, <2>4, <2>6
<1> HIDE DEF N, a
<1> QED BY <1>1, <1>2, <1>3, <1>4 DEF EncodesAsConfigured, a

(* Flags that a command is asked for: a backend and its device, and words  *)
(* that LoadConfig can read and that ffmpeg does not take for options.     *)
IsCommandFlags(flag) ==
  /\ flag["FfmpegHWAccel"] \in Backends /\ flag["FfmpegHWDevice"] \notin Blank \cup {Absent}
  /\ \A s \in Setting : flag[s] # Absent =>
       /\ s \in Words /\ flag[s] \notin {Garbage, Rejected} /\ flag[s] \notin Options \cup Switches
       /\ s \in {"Listen", "CacheDir"} => flag[s] \notin Blank
       /\ s = "FfmpegHWAccel" => flag[s] \in Backends

(* Such flags are accepted, and are the configuration (LoadConfig).        *)
LEMMA CommandLoaded ==
  ASSUME NEW flag, NEW build \in Builds, IsCommandFlags(flag)
  PROVE  LET env == Fill(<<>>)
         IN  Accepted(env, flag, build) /\ IsCommandConfig(LoadConfig(env, flag, build))
<1> DEFINE env == Fill(<<>>)
           c == Loaded(env, flag, build)
<1>1. \A s \in Setting : env[s] = Absent
  BY DEF Fill
<1> HIDE DEF env
<1>2. IsSource(env) /\ IsSource(flag)
  <2>1. IsSource(env)
    BY <1>1 DEF IsSource
  <2>2. \A s \in Words : s \notin Numbers
    BY DEF Words, Numbers, Durations
  <2>3. IsSource(flag)
    BY <2>2 DEF IsCommandFlags, IsSource, IsText
  <2> QED BY <2>1, <2>3
<1>3. \A s \in Setting : flag[s] # Absent => Readable(s, flag[s], "flag")
  <2> SUFFICES ASSUME NEW s \in Setting, flag[s] # Absent PROVE Readable(s, flag[s], "flag")
    OBVIOUS
  <2>1. s \in Words /\ flag[s] # Garbage /\ (s \in {"Listen", "CacheDir"} => flag[s] \notin Blank)
    BY DEF IsCommandFlags
  <2>2. s \notin Numbers
    BY <2>1 DEF Words, Numbers, Durations
  <2> QED BY <2>1, <2>2 DEF Readable
<1>4. Accepted(env, flag, build)
  <2>1. "FfmpegHWDevice" \in Setting
    BY DEF Setting, Words
  <2>2. flag["FfmpegHWDevice"] \notin Blank /\ flag["FfmpegHWDevice"] # Absent
    BY DEF IsCommandFlags
  <2> QED BY <1>1, <1>2, <1>3, <2>2, EveryReadableIsAccepted DEF ReadableIsAccepted
<1>5. LoadConfig(env, flag, build) = c
  BY <1>4 DEF LoadConfig
<1>6. ASSUME NEW s \in Words \ {"YtdlpExtraArgs"}
      PROVE  c[s] = IF flag[s] = Absent THEN Default(s) ELSE flag[s]
  <2>1. s \in Setting /\ s \notin Numbers /\ s \notin ReadLater
    BY DEF Setting, Words, Numbers, Durations, ReadLater
  <2>2. c[s] = Load(s, env[s], flag[s], build) /\ env[s] = Absent
    BY <1>1, <2>1 DEF Loaded
  <2>3. \A t : FromFlag(s, t, build) = t
    BY <2>1 DEF FromFlag, FromEnv, Durations, Numbers
  <2>4. Default(s) # Rejected
    BY <2>1, DefaultsAccepted
  <2> QED BY <2>1, <2>2, <2>3, <2>4 DEF Load
<1> HIDE DEF c
<1>7. Repeated \cup {"FfmpegHWAccel", "FfmpegHWDevice"} \subseteq Words \ {"YtdlpExtraArgs"}
  BY DEF Repeated, Words
<1>8. Backend(c) \in Backends
  <2>1. c["FfmpegHWAccel"] = flag["FfmpegHWAccel"] /\ flag["FfmpegHWAccel"] \in Backends
    <3>1. flag["FfmpegHWAccel"] \in Backends /\ Absent \notin Backends
      BY CommandAssumption DEF IsCommandFlags
    <3> QED BY <1>6, <1>7, <3>1
  <2>2. \A t \in Backends : t \notin Blank \cup {"libx264"}
    <3>1. \A t \in Backends : t \notin Blank
      BY CommandAssumption DEF Blank
    <3> QED BY <3>1 DEF Backends
  <2> QED BY <2>1, <2>2 DEF Backend, NormalizeHWBackend
<1>9. IsValue(c["FfmpegHWDevice"])
  <2>1. flag["FfmpegHWDevice"] \notin Blank \cup {Absent} /\ "FfmpegHWDevice" \in Setting
    BY DEF IsCommandFlags, Setting, Words
  <2>2. c["FfmpegHWDevice"] = flag["FfmpegHWDevice"] /\ flag["FfmpegHWDevice"] \notin Options \cup Switches
    BY <1>6, <1>7, <2>1 DEF IsCommandFlags
  <2> QED BY <2>1, <2>2 DEF IsValue, Blank
<1>10. ASSUME NEW s \in Repeated
       PROVE  c[s] \notin Options \cup Switches
  <2>1. s \in Setting
    BY <1>7 DEF Setting
  <2>2. CASE flag[s] # Absent
    BY <1>6, <1>7, <2>1, <2>2 DEF IsCommandFlags
  <2>3. CASE flag[s] = Absent
    <3>1. Default(s) \in {Empty, "default"}
      BY DEF Default, Repeated
    <3>2. Empty \notin Options \cup Switches /\ "default" \notin Options \cup Switches
      BY CommandAssumption DEF Options, Switches
    <3> QED BY <1>6, <1>7, <2>3, <3>1, <3>2
  <2> QED BY <2>2, <2>3
<1>11. c["TranscodeVideoBitrate"] # Absent
  <2>1. "TranscodeVideoBitrate" \in Repeated
    BY DEF Repeated
  <2>2. Default("TranscodeVideoBitrate") = Empty
    BY DEF Default
  <2> QED BY <1>6, <1>7, <2>1, <2>2, TextAssumption
<1> QED BY <1>4, <1>5, <1>8, <1>9, <1>10, <1>11 DEF IsCommandConfig, env

(***************************************************************************)
(* Playlists                                                               *)
(***************************************************************************)

(* A stream of any length, with any durations and gaps.                    *)
IsStream(stream) ==
  /\ stream.d \in Seq(Nat) /\ stream.at \in Seq(Nat) /\ Len(stream.at) = Len(stream.d)
  /\ stream.numbered \in BOOLEAN /\ stream.timescale \in Nat

(* The loop over a timeline does what its equation says.                   *)
LEMMA TimelineLoopEquation ==
  ASSUME NEW timeline, Len(timeline) \in Nat, NEW start
  PROVE  LET acc == TimelineLoop(timeline, start)
         IN  /\ acc[0] = [out |-> <<>>, number |-> start, t |-> 0]
             /\ \A k \in 1 .. Len(timeline) : acc[k] = TimelineStep(acc[k - 1], timeline[k])
<1> DEFINE Base == [out |-> <<>>, number |-> start, t |-> 0]
           Solves(g, n) == g = [k \in 0 .. n |-> IF k = 0 THEN Base ELSE TimelineStep(g[k - 1], timeline[k])]
           S == {n \in Nat : \E g : Solves(g, n)}
<1> HIDE DEF Base
<1>1. 0 \in S
  <2>1. Solves([k \in 0 .. 0 |-> Base], 0)
    OBVIOUS
  <2> QED BY <2>1
<1>2. ASSUME NEW n \in Nat, n \in S PROVE n + 1 \in S
  <2>1. PICK g : Solves(g, n)
    BY <1>2
  <2> DEFINE h == [k \in 0 .. n + 1 |-> IF k <= n THEN g[k] ELSE TimelineStep(g[n], timeline[n + 1])]
  <2>2. \A k \in 0 .. n : g[k] = IF k = 0 THEN Base ELSE TimelineStep(g[k - 1], timeline[k])
    BY <2>1
  <2>3. \A k \in 0 .. n + 1 : h[k] = IF k = 0 THEN Base ELSE TimelineStep(h[k - 1], timeline[k])
    <3> TAKE k \in 0 .. n + 1
    <3>1. CASE k <= n
      BY <2>2, <3>1
    <3>2. CASE k = n + 1
      BY <3>2
    <3> QED BY <3>1, <3>2
  <2>4. Solves(h, n + 1)
    BY <2>3
  <2> HIDE DEF h
  <2> QED BY <2>4
<1> HIDE DEF S
<1>3. Len(timeline) \in S
  BY <1>1, <1>2, NatSetInduction
<1> DEFINE acc == TimelineLoop(timeline, start)
<1>4. Solves(acc, Len(timeline))
  BY <1>3 DEF S, TimelineLoop, Base
<1> HIDE DEF acc
<1>5. /\ acc[0] = Base
      /\ \A k \in 1 .. Len(timeline) : acc[k] = TimelineStep(acc[k - 1], timeline[k])
  BY <1>4
<1> QED BY <1>5 DEF acc, Base

(* What the loop holds when it has named the segments from from to n.     *)
StreamSegment(stream, n, number) == [number |-> number, time |-> stream.at[n], d |-> stream.d[n]]

Named(stream, from, start, n) ==
  [i \in 1 .. n - from + 1 |-> StreamSegment(stream, from + i - 1, start + i - 1)]

State(stream, from, start, n) ==
  [out |-> Named(stream, from, start, n), number |-> start + (n - from + 1),
   t |-> IF n < from THEN 0 ELSE stream.at[n] + stream.d[n]]

(* The start times and durations of a stream.                              *)
LEMMA StreamShape ==
  ASSUME NEW stream, IsStream(stream)
  PROVE  Len(stream.d) \in Nat /\ \A k \in 1 .. Len(stream.d) : stream.at[k] \in Nat /\ stream.d[k] \in Nat
BY DEF IsStream

(* In a run the start times are multiples of its duration apart.           *)
LEMMA RunTimes ==
  ASSUME NEW stream, IsStream(stream), NEW m \in Nat \ {0}, NEW n \in Nat, m <= n, n <= Len(stream.d),
         \A k \in m + 1 .. n : Contiguous(stream, k) /\ stream.d[k] = stream.d[m]
  PROVE  \A k \in m .. n : stream.at[k] = stream.at[m] + (k - m) * stream.d[m] /\ stream.d[k] = stream.d[m]
<1> DEFINE at == stream.at
           d == stream.d
           D == d[m]
           S == {j \in Nat : j <= n - m => at[m + j] = at[m] + j * D}
<1>1. /\ \A k \in m .. n : at[k] \in Int /\ d[k] \in Nat
      /\ \A k \in m + 1 .. n : at[k] = at[k - 1] + d[k - 1] /\ d[k] = D
  <2>1. \A k \in m .. n : k \in 1 .. Len(stream.d)
    BY StreamShape
  <2>2. \A k \in m .. n : at[k] \in Int /\ d[k] \in Nat
    BY <2>1, StreamShape
  <2>3. \A k \in m + 1 .. n : at[k] = at[k - 1] + d[k - 1] /\ d[k] = D
    BY DEF Contiguous
  <2> QED BY <2>2, <2>3
<1>2. D \in Nat
  BY <1>1
<1> HIDE DEF at, d, D
<1>3. 0 \in S
  <2>1. m + 0 = m /\ 0 * D = 0 /\ at[m] + 0 = at[m]
    BY <1>1, <1>2
  <2> QED BY <2>1
<1>4. ASSUME NEW j \in Nat, j \in S PROVE j + 1 \in S
  <2> SUFFICES ASSUME j + 1 <= n - m PROVE at[m + (j + 1)] = at[m] + (j + 1) * D
    OBVIOUS
  <2>1. m + j \in m .. n /\ m + (j + 1) \in m + 1 .. n /\ (m + (j + 1)) - 1 = m + j
    OBVIOUS
  <2>2. at[m + (j + 1)] = at[m + j] + d[m + j]
    BY <1>1, <2>1
  <2>3. d[m + j] = D
    <3>1. CASE j = 0
      BY <3>1 DEF D
    <3>2. CASE j # 0
      <4>1. m + j \in m + 1 .. n
        BY <2>1, <3>2
      <4> QED BY <1>1, <4>1
    <3> QED BY <3>1, <3>2
  <2>4. at[m + j] = at[m] + j * D
    BY <1>4
  <2>5. at[m] \in Int /\ j * D \in Int /\ (j + 1) * D = j * D + D
    BY <1>1, <1>2
  <2> QED BY <1>2, <2>2, <2>3, <2>4, <2>5
<1>5. Nat \subseteq S
  <2> HIDE DEF S
  <2> QED BY <1>3, <1>4, NatSetInduction
<1>6. ASSUME NEW k \in m .. n PROVE at[k] = at[m] + (k - m) * D /\ d[k] = D
  <2>1. k - m \in Nat /\ k - m <= n - m /\ m + (k - m) = k
    OBVIOUS
  <2>2. at[k] = at[m] + (k - m) * D
    BY <1>5, <2>1
  <2>3. d[k] = D
    <3>1. CASE k = m
      BY <3>1 DEF D
    <3>2. CASE k # m
      <4>1. k \in m + 1 .. n
        BY <3>2
      <4> QED BY <1>1, <4>1
    <3> QED BY <3>1, <3>2
  <2> QED BY <2>2, <2>3
<1> QED BY <1>6 DEF at, d, D

(* A function on the numbers up to n is a list.                            *)
LEMMA ListOf ==
  ASSUME NEW n \in Nat, NEW T, NEW f \in [1 .. n -> T]
  PROVE  f \in Seq(T) /\ Len(f) = n
OBVIOUS

(* Two lists with the same members are the same.                           *)
LEMMA SameList ==
  ASSUME NEW T, NEW n \in Nat, NEW a \in Seq(T), Len(a) = n, NEW b \in [1 .. n -> T],
         \A i \in 1 .. n : a[i] = b[i]
  PROVE  a = b
OBVIOUS

(* An entry for the run from m to n of a window that starts at from.       *)
Describes(e, stream, from, m, n) ==
  /\ m \in Nat /\ n \in Nat /\ from <= m /\ m <= n /\ n <= Len(stream.d)
  /\ \A k \in m + 1 .. n : Contiguous(stream, k) /\ stream.d[k] = stream.d[m]
  /\ e.d = stream.d[m] /\ Repeats(e) = n - m
  /\ e.t \in {stream.at[m], Absent}
  /\ m = from \/ ~Contiguous(stream, m) => e.t = stream.at[m]

(* One entry names the segments of one run.                                *)
LEMMA RunNamed ==
  ASSUME NEW stream, IsStream(stream), NEW start \in Nat, NEW from \in Nat \ {0}, NEW m, NEW n, NEW e,
         Describes(e, stream, from, m, n)
  PROVE  TimelineStep(State(stream, from, start, m - 1), e) = State(stream, from, start, n)
<1>0. /\ m \in Nat /\ n \in Nat /\ from <= m /\ m <= n /\ n <= Len(stream.d)
      /\ \A k \in m + 1 .. n : Contiguous(stream, k) /\ stream.d[k] = stream.d[m]
      /\ e.d = stream.d[m] /\ Repeats(e) = n - m
      /\ e.t \in {stream.at[m], Absent}
      /\ m = from \/ ~Contiguous(stream, m) => e.t = stream.at[m]
  BY DEF Describes
<1> USE <1>0
<1>1. PICK k \in Nat, q \in Nat : /\ m = from + k /\ n = m + q /\ n - m = q
                                 /\ (m - 1) - from + 1 = k /\ n - from + 1 = k + (q + 1)
  <2> DEFINE l == m - from
             o == n - m
  <2>1. l \in Nat /\ o \in Nat /\ m = from + l /\ n = m + o /\ n - m = o
        /\ (m - 1) - from + 1 = l /\ n - from + 1 = l + (o + 1)
    OBVIOUS
  <2> QED BY <2>1
<1> DEFINE at == stream.at
           d == stream.d
           D == d[m]
           before == State(stream, from, start, m - 1)
           t == IF e.t = Absent THEN before.t ELSE e.t
           T == [number : Int, time : Int, d : Int]
           old == Named(stream, from, start, m - 1)
           more == [i \in 1 .. q + 1 |-> [number |-> before.number + i - 1, time |-> t + (i - 1) * D, d |-> D]]
           all == Named(stream, from, start, n)
<1>2. \A i \in 1 .. n : at[i] \in Int /\ d[i] \in Nat
  <2>1. \A i \in 1 .. n : i \in 1 .. Len(stream.d)
    BY StreamShape
  <2> QED BY <2>1, StreamShape
<1>3. \A i \in m .. n : at[i] = at[m] + (i - m) * D /\ d[i] = D
  <2>1. m \in Nat \ {0}
    OBVIOUS
  <2>2. \A i \in m .. n : stream.at[i] = stream.at[m] + (i - m) * stream.d[m] /\ stream.d[i] = stream.d[m]
    BY <2>1, RunTimes
  <2> QED BY <2>2
<1>4. D \in Nat /\ at[m] \in Int /\ at[n] \in Int /\ d[n] = D /\ at[n] = at[m] + q * D
  <2>1. m \in 1 .. n /\ n \in 1 .. n /\ n \in m .. n
    OBVIOUS
  <2> QED BY <1>1, <1>2, <1>3, <2>1
<1>5. before.number = start + k /\ before.out = old
  BY <1>1 DEF State
<1>6. t = at[m]
  <2>1. CASE e.t = at[m] /\ e.t # Absent
    BY <2>1
  <2>2. CASE e.t = Absent
    <3>1. at[m] # Absent
      BY <1>4, TextAssumption
    <3>2. m # from /\ Contiguous(stream, m)
      BY <2>2, <3>1
    <3>3. before.t = at[m - 1] + d[m - 1]
      BY <3>2 DEF State
    <3> QED BY <2>2, <3>2, <3>3 DEF Contiguous
  <2> QED BY <2>1, <2>2
<1>7. State(stream, from, start, n) = [out |-> all, number |-> start + (n - from + 1), t |-> at[n] + d[n]]
  BY DEF State
<1>8. TimelineStep(before, e) = [out |-> before.out \o more, number |-> before.number + (q + 1), t |-> t + (q + 1) * D]
  <2>1. Repeats(e) + 1 = q + 1 /\ e.d = D
    BY <1>1
  <2> QED BY <2>1 DEF TimelineStep
<1>9. old = [i \in 1 .. (m - 1) - from + 1 |-> StreamSegment(stream, from + i - 1, start + i - 1)]
      /\ all = [i \in 1 .. n - from + 1 |-> StreamSegment(stream, from + i - 1, start + i - 1)]
  BY DEF Named
<1> HIDE DEF before, t, old, all
<1>10. more = [i \in 1 .. q + 1 |-> [number |-> before.number + i - 1, time |-> t + (i - 1) * D, d |-> D]]
  OBVIOUS
<1> HIDE DEF more, T
<1>11. \A i \in 1 .. q + 1 : more[i] = StreamSegment(stream, m + i - 1, start + k + i - 1)
  <2> TAKE i \in 1 .. q + 1
  <2>1. m + i - 1 \in m .. n /\ (m + i - 1) - m = i - 1
    BY <1>1
  <2>2. at[m + i - 1] = at[m] + (i - 1) * D /\ d[m + i - 1] = D
    BY <1>3, <2>1
  <2>3. more[i] = [number |-> start + k + i - 1, time |-> at[m] + (i - 1) * D, d |-> D]
    BY <1>5, <1>6, <1>10
  <2> QED BY <2>2, <2>3 DEF StreamSegment
<1>12. \A i \in 1 .. k + q + 1 : StreamSegment(stream, from + i - 1, start + i - 1) \in T
  <2> TAKE i \in 1 .. k + q + 1
  <2>1. from + i - 1 \in 1 .. n
    BY <1>1
  <2> QED BY <1>2, <2>1 DEF StreamSegment, T
<1>13. /\ old \in Seq(T) /\ Len(old) = k
       /\ \A i \in 1 .. k : old[i] = StreamSegment(stream, from + i - 1, start + i - 1)
  <2>1. old = [i \in 1 .. k |-> StreamSegment(stream, from + i - 1, start + i - 1)]
    BY <1>1, <1>9
  <2>2. old \in [1 .. k -> T]
    <3>1. \A i \in 1 .. k : i \in 1 .. k + q + 1
      BY <1>1
    <3>2. \A i \in 1 .. k : StreamSegment(stream, from + i - 1, start + i - 1) \in T
      BY <1>12, <3>1
    <3> QED BY <2>1, <3>2
  <2> QED BY <1>1, <2>1, <2>2, ListOf
<1>14. more \in Seq(T) /\ Len(more) = q + 1
  <2>1. \A i \in 1 .. q + 1 : more[i] \in T
    <3> TAKE i \in 1 .. q + 1
    <3>1. k + i \in 1 .. k + q + 1 /\ from + (k + i) - 1 = m + i - 1 /\ start + (k + i) - 1 = start + k + i - 1
      BY <1>1
    <3> QED BY <1>11, <1>12, <3>1
  <2>2. more \in [1 .. q + 1 -> T]
    BY <1>10, <2>1
  <2>3. q + 1 \in Nat
    BY <1>1
  <2> QED BY <2>2, <2>3, ListOf
<1> DEFINE both == old \o more
<1>15. /\ both \in Seq(T) /\ Len(both) = k + q + 1
       /\ \A i \in 1 .. k : both[i] = old[i]
       /\ \A i \in k + 1 .. k + q + 1 : both[i] = more[i - k]
  <2>1. /\ both \in Seq(T) /\ Len(both) = Len(old) + Len(more)
        /\ \A i \in 1 .. Len(old) : both[i] = old[i]
        /\ \A i \in Len(old) + 1 .. Len(old) + Len(more) : both[i] = more[i - Len(old)]
    <3>1. old \in Seq(T) /\ more \in Seq(T)
      BY <1>13, <1>14
    <3> QED BY <3>1, Joined
  <2>2. Len(old) = k /\ Len(more) = q + 1 /\ k + (q + 1) = k + q + 1
    BY <1>1, <1>13, <1>14
  <2> HIDE DEF both
  <2> QED BY <2>1, <2>2
<1> HIDE DEF both
<1>16. \A i \in 1 .. k + q + 1 : both[i] = StreamSegment(stream, from + i - 1, start + i - 1)
  <2> TAKE i \in 1 .. k + q + 1
  <2>1. CASE i <= k
    <3>1. i \in 1 .. k
      BY <1>1, <2>1
    <3> QED BY <1>13, <1>15, <3>1
  <2>2. CASE i > k
    <3>1. i \in k + 1 .. k + q + 1 /\ i - k \in 1 .. q + 1
          /\ m + (i - k) - 1 = from + i - 1 /\ start + k + (i - k) - 1 = start + i - 1
      BY <1>1, <2>2
    <3>2. both[i] = more[i - k]
      BY <1>15, <3>1
    <3>3. more[i - k] = StreamSegment(stream, m + (i - k) - 1, start + k + (i - k) - 1)
      BY <1>11, <3>1
    <3> QED BY <3>1, <3>2, <3>3
  <2> QED BY <1>1, <2>1, <2>2
<1>17. both = all
  <2> DEFINE l == k + q + 1
  <2>1. l \in Nat /\ n - from + 1 = l
    BY <1>1
  <2>2. all = [i \in 1 .. l |-> StreamSegment(stream, from + i - 1, start + i - 1)]
    BY <1>9, <2>1
  <2>3. \A i \in 1 .. l : StreamSegment(stream, from + i - 1, start + i - 1) \in T /\ both[i] = StreamSegment(stream, from + i - 1, start + i - 1)
    BY <1>12, <1>16
  <2>4. both \in Seq(T) /\ Len(both) = l
    BY <1>15
  <2> HIDE DEF l
  <2>5. all \in [1 .. l -> T] /\ \A i \in 1 .. l : both[i] = all[i]
    BY <2>2, <2>3
  <2> QED BY <2>1, <2>4, <2>5, SameList
<1>18. t + (q + 1) * D = at[n] + d[n]
  <2>1. D \in Nat /\ d[n] = D /\ t = at[m] /\ at[n] = at[m] + q * D /\ at[m] \in Int
    BY <1>4, <1>6
  <2> HIDE DEF D, at, d
  <2>2. (q + 1) * D = q * D + D /\ q * D \in Int
    BY <2>1
  <2> QED BY <2>1, <2>2
<1>19. before.number + (q + 1) = start + (n - from + 1)
  BY <1>1, <1>5
<1> QED BY <1>5, <1>7, <1>8, <1>17, <1>18, <1>19 DEF before, both

(* The runs of a window follow each other inside the stream.               *)
LEMMA RunsInOrder ==
  ASSUME NEW stream, IsStream(stream), NEW runs \in Seq(Nat \ {0}), NEW last \in Nat,
         DividesWindow(runs, last, stream)
  PROVE  /\ Len(runs) \in Nat \ {0}
         /\ \A i \in 1 .. Len(runs) :
              /\ runs[i] \in Nat \ {0} /\ EndOf(runs, last, i) \in Nat
              /\ runs[1] <= runs[i] /\ (i # 1 => runs[1] < runs[i])
              /\ runs[i] <= EndOf(runs, last, i) /\ EndOf(runs, last, i) <= Len(stream.d)
              /\ i = Len(runs) => EndOf(runs, last, i) = last
              /\ i # Len(runs) => EndOf(runs, last, i) = runs[i + 1] - 1
<1> DEFINE N == Len(runs)
           E(i) == EndOf(runs, last, i)
           S == {j \in Nat : \A i \in 1 .. N : i + j <= N => runs[i] <= runs[i + j]}
<1>1. N \in Nat \ {0} /\ \A i \in 1 .. N : runs[i] \in Nat \ {0}
  BY DEF DividesWindow
<1>2. /\ last <= Len(stream.d) /\ Len(stream.d) \in Nat
      /\ \A i \in 1 .. N : runs[i] <= E(i) /\ (i = N => E(i) = last) /\ (i # N => E(i) = runs[i + 1] - 1)
  <2>1. last <= Len(stream.d) /\ \A i \in 1 .. N : runs[i] <= E(i)
    BY DEF DividesWindow
  <2>2. \A i \in 1 .. N : (i = N => E(i) = last) /\ (i # N => E(i) = runs[i + 1] - 1)
    BY DEF EndOf
  <2>3. Len(stream.d) \in Nat
    BY StreamShape
  <2> QED BY <2>1, <2>2, <2>3
<1> HIDE DEF N, E
<1>3. \A i \in 1 .. N : i # N => i + 1 \in 1 .. N /\ runs[i] < runs[i + 1]
  <2> TAKE i \in 1 .. N
  <2> HAVE i # N
  <2>1. i + 1 \in 1 .. N
    BY <1>1
  <2>2. runs[i] <= runs[i + 1] - 1 /\ runs[i] \in Nat /\ runs[i + 1] \in Nat
    BY <1>1, <1>2, <2>1
  <2> QED BY <2>1, <2>2
<1>4. 0 \in S
  BY <1>1
<1>5. ASSUME NEW j \in Nat, j \in S PROVE j + 1 \in S
  <2> SUFFICES ASSUME NEW i \in 1 .. N, i + (j + 1) <= N PROVE runs[i] <= runs[i + (j + 1)]
    BY DEF S
  <2>1. i + j \in 1 .. N /\ i + j # N /\ i + j <= N /\ (i + j) + 1 = i + (j + 1)
    BY <1>1
  <2>2. runs[i] <= runs[i + j] /\ runs[i + j] < runs[(i + j) + 1]
    BY <1>3, <1>5, <2>1
  <2>3. runs[i] \in Nat /\ runs[i + j] \in Nat /\ runs[(i + j) + 1] \in Nat
    BY <1>1, <1>3, <2>1
  <2> QED BY <2>1, <2>2, <2>3
<1>6. Nat \subseteq S
  <2> HIDE DEF S
  <2> QED BY <1>4, <1>5, NatSetInduction
<1>7. \A i, j \in 1 .. N : i <= j => runs[i] <= runs[j]
  <2> TAKE i, j \in 1 .. N
  <2> HAVE i <= j
  <2>1. j - i \in Nat /\ i + (j - i) = j /\ i + (j - i) <= N
    BY <1>1
  <2> QED BY <1>6, <2>1
<1>8. ASSUME NEW i \in 1 .. N
      PROVE /\ runs[1] <= runs[i] /\ (i # 1 => runs[1] < runs[i])
            /\ E(i) \in Nat /\ E(i) <= Len(stream.d)
  <2>1. 1 \in 1 .. N /\ N \in 1 .. N /\ 1 <= i /\ i <= N
    BY <1>1
  <2>2. runs[1] <= runs[i] /\ runs[i] <= runs[N] /\ runs[N] <= last
    BY <1>2, <1>7, <2>1
  <2>3. i # 1 => runs[1] < runs[i]
    <3> HAVE i # 1
    <3>1. i - 1 \in 1 .. N /\ i - 1 # N /\ (i - 1) + 1 = i
      BY <1>1
    <3>2. runs[1] <= runs[i - 1] /\ runs[i - 1] < runs[i]
      BY <1>3, <1>7, <2>1, <3>1
    <3> QED BY <1>1, <2>1, <3>1, <3>2
  <2>4. E(i) \in Nat /\ E(i) <= last
    <3>1. CASE i = N
      BY <1>2, <3>1
    <3>2. CASE i # N
      <4>1. i + 1 \in 1 .. N /\ i + 1 <= N
        BY <1>1, <3>2
      <4>2. runs[i + 1] \in Nat \ {0} /\ runs[N] \in Nat /\ runs[i + 1] <= runs[N] /\ E(i) = runs[i + 1] - 1
        BY <1>1, <1>2, <1>7, <2>1, <3>2, <4>1
      <4> QED BY <2>2, <4>2
    <3> QED BY <3>1, <3>2
  <2> QED BY <1>2, <2>2, <2>3, <2>4
<1> QED BY <1>1, <1>2, <1>8 DEF N, E

(* A manifest's timeline names the window's segments, each as the stream   *)
(* has it.                                                                 *)
LEMMA TimelineExact ==
  ASSUME NEW stream, IsStream(stream), NEW runs \in Seq(Nat \ {0}), NEW last \in Nat,
         DividesWindow(runs, last, stream), NEW spelled \in BOOLEAN, NEW open \in BOOLEAN, NEW start \in Nat
  PROVE  TimelineSegments(Timeline(stream, runs, last, spelled, open), start)
           = Named(stream, runs[1], start, LastShown(runs, last, open))
<1> DEFINE N == Len(runs)
           from == runs[1]
           timeline == Timeline(stream, runs, last, spelled, open)
           acc == TimelineLoop(timeline, start)
           E(i) == EndOf(runs, last, i)
           B(i) == IF i = 0 THEN from - 1 ELSE IF open /\ i = N THEN runs[i] ELSE E(i)
           S == {i \in Nat : i <= N => acc[i] = State(stream, from, start, B(i))}
<1>1. /\ N \in Nat \ {0} /\ from \in Nat \ {0}
      /\ \A i \in 1 .. N :
              /\ runs[i] \in Nat \ {0} /\ E(i) \in Nat
              /\ from <= runs[i] /\ (i # 1 => from < runs[i])
              /\ runs[i] <= E(i) /\ E(i) <= Len(stream.d)
              /\ i = N => E(i) = last
              /\ i # N => E(i) = runs[i + 1] - 1
  <2>1. /\ N \in Nat \ {0}
        /\ \A i \in 1 .. N :
              /\ runs[i] \in Nat \ {0} /\ E(i) \in Nat
              /\ from <= runs[i] /\ (i # 1 => from < runs[i])
              /\ runs[i] <= E(i) /\ E(i) <= Len(stream.d)
              /\ i = N => E(i) = last
              /\ i # N => E(i) = runs[i + 1] - 1
    BY RunsInOrder
  <2>2. 1 \in 1 .. N
    BY <2>1
  <2> QED BY <2>1, <2>2
<1>2. /\ Len(timeline) = N
      /\ \A i \in 1 .. N :
           timeline[i] = [t |-> IF spelled \/ i = 1 \/ ~Contiguous(stream, runs[i]) THEN stream.at[runs[i]] ELSE Absent,
                          d |-> stream.d[runs[i]],
                          r |-> IF open /\ i = N THEN -1 ELSE E(i) - runs[i]]
  BY <1>1 DEF Timeline
<1>3. /\ acc[0] = [out |-> <<>>, number |-> start, t |-> 0]
      /\ \A i \in 1 .. N : acc[i] = TimelineStep(acc[i - 1], timeline[i])
  <2>1. Len(timeline) \in Nat
    BY <1>1, <1>2
  <2>2. LET a == TimelineLoop(timeline, start)
        IN  /\ a[0] = [out |-> <<>>, number |-> start, t |-> 0]
            /\ \A i \in 1 .. Len(timeline) : a[i] = TimelineStep(a[i - 1], timeline[i])
    <3> HIDE DEF timeline
    <3> QED BY <2>1, TimelineLoopEquation
  <2> QED BY <1>2, <2>2
<1>4. TimelineSegments(timeline, start) = acc[N].out
  BY <1>2 DEF TimelineSegments
<1>5. \A i \in 1 .. N : \A n \in runs[i] + 1 .. E(i) : Contiguous(stream, n) /\ stream.d[n] = stream.d[runs[i]]
  BY DEF DividesWindow
<1>6. B(N) = LastShown(runs, last, open)
  BY <1>1 DEF LastShown
<1> HIDE DEF N, from, timeline, acc, E
<1>7. 0 \in S
  <2>1. from - 1 < from /\ (from - 1) - from + 1 = 0
    BY <1>1
  <2>2. State(stream, from, start, from - 1) = [out |-> <<>>, number |-> start, t |-> 0]
    BY <2>1 DEF State, Named
  <2> QED BY <1>3, <2>2
<1>8. ASSUME NEW i \in Nat, i \in S PROVE i + 1 \in S
  <2> SUFFICES ASSUME i + 1 <= N PROVE acc[i + 1] = State(stream, from, start, B(i + 1))
    BY DEF S
  <2> DEFINE m == runs[i + 1]
             n == B(i + 1)
             e == timeline[i + 1]
  <2>1. i + 1 \in 1 .. N /\ (i + 1) - 1 = i /\ i <= N /\ i # N
    BY <1>1
  <2>2. B(i) = m - 1
    <3>1. CASE i = 0
      BY <3>1 DEF from
    <3>2. CASE i # 0
      <4>1. i \in 1 .. N
        BY <2>1, <3>2
      <4> QED BY <1>1, <2>1, <3>2, <4>1
    <3> QED BY <3>1, <3>2
  <2>3. /\ m \in Nat \ {0} /\ n \in Nat /\ from <= m /\ m <= n /\ n <= Len(stream.d) /\ n <= E(i + 1)
        /\ n = IF open /\ i + 1 = N THEN m ELSE E(i + 1)
        /\ E(i + 1) \in Nat
    <3>1. Len(stream.d) \in Nat
      BY StreamShape
    <3>2. /\ m \in Nat \ {0} /\ E(i + 1) \in Nat /\ from <= m /\ m <= E(i + 1) /\ E(i + 1) <= Len(stream.d)
          /\ n = IF open /\ i + 1 = N THEN m ELSE E(i + 1)
      BY <1>1, <2>1
    <3> HIDE DEF m, n
    <3> QED BY <3>1, <3>2
  <2>4. \A k \in m + 1 .. n : Contiguous(stream, k) /\ stream.d[k] = stream.d[m]
    <3> TAKE k \in m + 1 .. n
    <3>1. k \in m + 1 .. E(i + 1)
      <4> HIDE DEF m, n
      <4> QED BY <2>3
    <3> QED BY <1>5, <2>1, <3>1
  <2>5. /\ e.d = stream.d[m]
        /\ e.t = IF spelled \/ i + 1 = 1 \/ ~Contiguous(stream, m) THEN stream.at[m] ELSE Absent
        /\ e.r = IF open /\ i + 1 = N THEN -1 ELSE E(i + 1) - m
    BY <1>2, <2>1
  <2>6. i + 1 # 1 => from < m
    BY <1>1, <2>1
  <2> HIDE DEF m, n, e
  <2>7. Repeats(e) = n - m
    <3>1. CASE open /\ i + 1 = N
      BY <2>3, <2>5, <3>1 DEF Repeats
    <3>2. CASE ~(open /\ i + 1 = N)
      <4>1. e.r = n - m /\ n - m \in Nat
        BY <2>3, <2>5, <3>2
      <4> QED BY <4>1 DEF Repeats
    <3> QED BY <3>1, <3>2
  <2>8. /\ m = from \/ ~Contiguous(stream, m) => e.t = stream.at[m]
        /\ e.t \in {stream.at[m], Absent}
    BY <1>1, <2>3, <2>5, <2>6
  <2>9. TimelineStep(State(stream, from, start, m - 1), e) = State(stream, from, start, n)
    <3>1. Describes(e, stream, from, m, n)
      BY <2>3, <2>4, <2>5, <2>7, <2>8 DEF Describes
    <3>2. from \in Nat \ {0}
      BY <1>1
    <3> QED BY <3>1, <3>2, RunNamed
  <2>10. acc[i + 1] = TimelineStep(acc[i], e) /\ acc[i] = State(stream, from, start, B(i))
    BY <1>3, <1>8, <2>1 DEF e
  <2> QED BY <2>2, <2>9, <2>10 DEF n
<1>9. N \in S
  <2>1. Nat \subseteq S
    <3> HIDE DEF S
    <3> QED BY <1>7, <1>8, NatSetInduction
  <2> QED BY <1>1, <2>1
<1>10. acc[N] = State(stream, from, start, B(N))
  BY <1>1, <1>9
<1>11. acc[N].out = Named(stream, from, start, B(N))
  BY <1>10 DEF State
<1> QED BY <1>4, <1>6, <1>11 DEF timeline, from

(* A list ends, so one of some of its members is the largest.              *)
LEMMA Largest ==
  ASSUME NEW n \in Nat, NEW S, S \subseteq 1 .. n, S # {}, NEW v, \A i \in S : v[i] \in Nat
  PROVE  \E i \in S : \A j \in S : v[j] <= v[i]
<1> DEFINE HasLargest(U) == \E i \in U : \A j \in U : v[j] <= v[i]
           K == {k \in Nat : \A U \in SUBSET S : U # {} /\ U \subseteq 1 .. k => HasLargest(U)}
<1>1. 0 \in K
  <2>1. 1 .. 0 = {}
    OBVIOUS
  <2> QED BY <2>1
<1>2. ASSUME NEW k \in Nat, k \in K PROVE k + 1 \in K
  <2> SUFFICES ASSUME NEW U \in SUBSET S, U # {}, U \subseteq 1 .. k + 1 PROVE HasLargest(U)
    OBVIOUS
  <2> DEFINE R == U \ {k + 1}
  <2>1. R \in SUBSET S /\ R \subseteq 1 .. k
    OBVIOUS
  <2>2. CASE R = {}
    <3>1. PICK i \in U : TRUE
      OBVIOUS
    <3>2. \A j \in U : j = i
      BY <2>2
    <3>3. v[i] \in Nat
      OBVIOUS
    <3> QED BY <3>2, <3>3
  <2>3. CASE R # {}
    <3>1. PICK i \in R : \A j \in R : v[j] <= v[i]
      BY <1>2, <2>1, <2>3
    <3>2. CASE k + 1 \in U /\ v[i] < v[k + 1]
      <4>1. v[i] \in Nat /\ v[k + 1] \in Nat /\ \A j \in R : v[j] \in Nat
        BY <2>1, <3>2
      <4>2. \A j \in U : v[j] <= v[k + 1]
        BY <3>1, <4>1, <3>2
      <4> QED BY <3>2, <4>2
    <3>3. CASE ~(k + 1 \in U /\ v[i] < v[k + 1])
      <4>1. v[i] \in Nat /\ (k + 1 \in U => v[k + 1] \in Nat)
        BY <2>1
      <4>2. \A j \in U : v[j] <= v[i]
        BY <3>1, <4>1, <3>3
      <4> QED BY <2>1, <4>2
    <3> QED BY <3>2, <3>3
  <2> QED BY <2>2, <2>3
<1>3. n \in K
  <2>1. Nat \subseteq K
    <3> HIDE DEF K
    <3> QED BY <1>1, <1>2, NatSetInduction
  <2> QED BY <2>1
<1> QED BY <1>3

(* The first of some places in lists of lists is one of them.              *)
LEMMA FirstOfPlaces ==
  ASSUME NEW P, P \subseteq Nat \X Nat, P # {}
  PROVE  FirstOf(P) \in P
<1> DEFINE I == {p[1] : p \in P}
<1>1. PICK i \in I : \A k \in I : i <= k
  <2>1. I \subseteq Nat /\ I # {}
    OBVIOUS
  <2> HIDE DEF I
  <2> QED BY <2>1, LeastNumber
<1> DEFINE J == {p[2] : p \in {q \in P : q[1] = i}}
<1>2. PICK j \in J : \A k \in J : j <= k
  <2>1. J \subseteq Nat /\ J # {}
    BY <1>1
  <2> HIDE DEF J
  <2> QED BY <2>1, LeastNumber
<1>3. PICK p \in P : p[1] = i /\ p[2] = j
  BY <1>2
<1>4. \A q \in P \ {p} : Earlier(p, q)
  <2> TAKE q \in P \ {p}
  <2>1. q[1] \in I /\ q[1] \in Nat /\ q[2] \in Nat /\ i \in Nat /\ j \in Nat
    BY <1>3
  <2>2. i <= q[1]
    BY <1>1, <2>1
  <2>3. CASE q[1] = i
    <3>1. q[2] \in J
      BY <2>3
    <3>2. q[2] # j
      BY <1>3, <2>3
    <3> QED BY <1>2, <1>3, <2>1, <2>3, <3>1, <3>2 DEF Earlier
  <2>4. CASE q[1] # i
    BY <1>3, <2>1, <2>2, <2>4 DEF Earlier
  <2> QED BY <2>3, <2>4
<1> QED BY <1>3, <1>4 DEF FirstOf

(* No segment of a list outlasts the longest, nor the target that is made  *)
(* of it.                                                                  *)
LEMMA LongestCovers ==
  ASSUME NEW n \in Nat \ {0}, NEW f, DOMAIN f = 1 .. n, \A i \in 1 .. n : f[i].d \in Nat,
         NEW scale \in Nat \ {0}
  PROVE  \A i \in 1 .. n : f[i].d <= ((LongestSegment(f) + scale - 1) \div scale) * scale
<1> DEFINE v == [i \in 1 .. n |-> f[i].d]
           longest == LongestSegment(f)
           a == longest + scale - 1
           target == (a \div scale) * scale
<1>1. PICK i \in 1 .. n : \A j \in 1 .. n : f[j].d <= f[i].d
  <2>1. 1 .. n # {} /\ \A i \in 1 .. n : v[i] \in Nat
    OBVIOUS
  <2>2. \E i \in 1 .. n : \A j \in 1 .. n : v[j] <= v[i]
    <3> HIDE DEF v
    <3> QED BY <2>1, Largest
  <2> QED BY <2>2
<1> DEFINE durations == {f[j].d : j \in 1 .. n}
<1>2. longest \in durations /\ \A e \in durations : e <= longest
  <2>1. f[i].d \in durations /\ \A e \in durations : e <= f[i].d
    BY <1>1
  <2>2. longest = CHOOSE d \in durations : \A e \in durations : e <= d
    BY DEF LongestSegment
  <2> HIDE DEF durations, longest
  <2> QED BY <2>1, <2>2
<1>3. longest \in Nat
  BY <1>2
<1> HIDE DEF longest
<1>4. a \in Nat
  BY <1>3
<1>5. target \in Int /\ longest <= target
  <2>1. a \div scale \in Nat /\ target <= a /\ a < target + scale
    <3> HIDE DEF a
    <3> QED BY <1>4, Division
  <2>2. target \in Int
    <3> HIDE DEF a
    <3> QED BY <2>1
  <2> HIDE DEF target
  <2> QED BY <1>3, <2>1, <2>2
<1>6. ASSUME NEW k \in 1 .. n PROVE f[k].d <= target
  <2>1. f[k].d \in Nat /\ f[k].d <= longest
    BY <1>2
  <2> HIDE DEF target
  <2> QED BY <1>3, <1>5, <2>1
<1> QED BY <1>6 DEF longest

(* The loop over the BaseURLs does what its equation says.                 *)
LEMMA BaseLoopEquation ==
  ASSUME NEW url, NEW bases, Len(bases) \in Nat
  PROVE  LET base == BaseLoop(url, bases)
         IN  /\ base[0] = <<url>>
             /\ \A k \in 1 .. Len(bases) :
                  base[k] = IF bases[k] \in {Absent, Garbage} THEN base[k - 1]
                            ELSE IF bases[k].absolute THEN <<bases[k]>> ELSE Append(base[k - 1], bases[k])
<1> DEFINE Base == <<url>>
           NextBase(b, k) == IF bases[k] \in {Absent, Garbage} THEN b
                             ELSE IF bases[k].absolute THEN <<bases[k]>> ELSE Append(b, bases[k])
           Solves(g, n) == g = [k \in 0 .. n |-> IF k = 0 THEN Base ELSE NextBase(g[k - 1], k)]
           S == {n \in Nat : \E g : Solves(g, n)}
<1> HIDE DEF Base, NextBase
<1>1. 0 \in S
  <2>1. Solves([k \in 0 .. 0 |-> Base], 0)
    OBVIOUS
  <2> QED BY <2>1
<1>2. ASSUME NEW n \in Nat, n \in S PROVE n + 1 \in S
  <2>1. PICK g : Solves(g, n)
    BY <1>2
  <2> DEFINE h == [k \in 0 .. n + 1 |-> IF k <= n THEN g[k] ELSE NextBase(g[n], n + 1)]
  <2>2. \A k \in 0 .. n : g[k] = IF k = 0 THEN Base ELSE NextBase(g[k - 1], k)
    BY <2>1
  <2>3. \A k \in 0 .. n + 1 : h[k] = IF k = 0 THEN Base ELSE NextBase(h[k - 1], k)
    <3> TAKE k \in 0 .. n + 1
    <3>1. CASE k <= n
      BY <2>2, <3>1
    <3>2. CASE k = n + 1
      BY <3>2
    <3> QED BY <3>1, <3>2
  <2>4. Solves(h, n + 1)
    BY <2>3
  <2> HIDE DEF h
  <2> QED BY <2>4
<1> HIDE DEF S
<1>3. Len(bases) \in S
  BY <1>1, <1>2, NatSetInduction
<1> DEFINE base == BaseLoop(url, bases)
<1>4. Solves(base, Len(bases))
  BY <1>3 DEF S, BaseLoop, Base, NextBase
<1> HIDE DEF base
<1>5. /\ base[0] = Base
      /\ \A k \in 1 .. Len(bases) : base[k] = NextBase(base[k - 1], k)
  BY <1>4
<1> QED BY <1>5 DEF base, Base, NextBase

(* What a BaseURL may be.                                                  *)
Bases == {Absent, Garbage} \cup [absolute : BOOLEAN]

(* A base starts with the last absolute BaseURL, or with the manifest's.   *)
LEMMA BaseExact ==
  ASSUME NEW url, NEW bases \in Seq(Bases)
  PROVE  LET roots == {i \in DOMAIN bases : bases[i] \notin {Absent, Garbage} /\ bases[i].absolute}
             base  == ResolveDASHBase(url, bases)
         IN  IF roots = {} THEN base[1] = url
             ELSE \E i \in roots : base[1] = bases[i] /\ \A j \in roots : j <= i
<1> DEFINE n == Len(bases)
           base == BaseLoop(url, bases)
           roots == {i \in 1 .. n : bases[i] \notin {Absent, Garbage} /\ bases[i].absolute}
           T == {url} \cup Bases
           Rooted(k) == \/ base[k][1] = url /\ \A i \in roots : i > k
                        \/ \E i \in roots : base[k][1] = bases[i] /\ i <= k /\ \A j \in roots : j <= k => j <= i
           S == {k \in Nat : k <= n => base[k] \in Seq(T) /\ base[k] # <<>> /\ Rooted(k)}
<1>1. n \in Nat /\ DOMAIN bases = 1 .. n /\ \A i \in 1 .. n : bases[i] \in T
  OBVIOUS
<1>2. /\ base[0] = <<url>>
      /\ \A k \in 1 .. n : base[k] = IF bases[k] \in {Absent, Garbage} THEN base[k - 1]
                                     ELSE IF bases[k].absolute THEN <<bases[k]>> ELSE Append(base[k - 1], bases[k])
  BY <1>1, BaseLoopEquation
<1>3. roots \subseteq 1 .. n
  OBVIOUS
<1>4. \A k \in 1 .. n : k \in roots <=> bases[k] \notin {Absent, Garbage} /\ bases[k].absolute
  OBVIOUS
<1> HIDE DEF roots, base, n
<1>5. 0 \in S
  <2>1. url \in T
    OBVIOUS
  <2>2. base[0] \in Seq(T) /\ base[0] # <<>> /\ base[0][1] = url
    <3> HIDE DEF T
    <3> QED BY <1>2, <2>1
  <2>3. \A i \in roots : i > 0
    BY <1>3
  <2> QED BY <2>2, <2>3
<1>6. ASSUME NEW k \in Nat, k \in S PROVE k + 1 \in S
  <2> SUFFICES ASSUME k + 1 <= n PROVE base[k + 1] \in Seq(T) /\ base[k + 1] # <<>> /\ Rooted(k + 1)
    BY DEF S
  <2> DEFINE b == bases[k + 1]
  <2>1. k + 1 \in 1 .. n /\ (k + 1) - 1 = k /\ k <= n
    BY <1>1
  <2>2. base[k] \in Seq(T) /\ base[k] # <<>> /\ Rooted(k)
    BY <1>6, <2>1
  <2>3. /\ b \in T
        /\ base[k + 1] = IF b \in {Absent, Garbage} THEN base[k]
                         ELSE IF b.absolute THEN <<b>> ELSE Append(base[k], b)
        /\ k + 1 \in roots <=> b \notin {Absent, Garbage} /\ b.absolute
    BY <1>1, <1>2, <1>4, <2>1
  <2>4. CASE k + 1 \in roots
    <3>1. base[k + 1] = <<b>>
      BY <2>3, <2>4
    <3>2. base[k + 1] \in Seq(T) /\ base[k + 1] # <<>> /\ base[k + 1][1] = b
      <4>1. b \in T
        BY <2>3
      <4> HIDE DEF T, b
      <4>2. <<b>> \in Seq(T) /\ <<b>> # <<>> /\ <<b>>[1] = b
        BY <4>1
      <4> QED BY <3>1, <4>2
    <3>3. Rooted(k + 1)
      BY <2>4, <3>2
    <3> QED BY <3>2, <3>3
  <2>5. CASE k + 1 \notin roots
    <3>1. base[k + 1] = base[k] \/ base[k + 1] = Append(base[k], b)
      BY <2>3, <2>5
    <3>2. base[k + 1] \in Seq(T) /\ base[k + 1] # <<>> /\ base[k + 1][1] = base[k][1]
      <4> HIDE DEF T, b
      <4> QED BY <2>2, <2>3, <3>1
    <3>3. \A i \in roots : (i <= k + 1 <=> i <= k) /\ (i > k + 1 <=> i > k)
      BY <1>3, <2>5
    <3>4. Rooted(k + 1)
      BY <2>2, <3>2, <3>3
    <3> QED BY <3>2, <3>4
  <2> QED BY <2>4, <2>5
<1>7. Rooted(n)
  <2>1. Nat \subseteq S
    <3> HIDE DEF S
    <3> QED BY <1>5, <1>6, NatSetInduction
  <2> QED BY <1>1, <2>1
<1>8. ResolveDASHBase(url, bases) = base[n]
  BY DEF ResolveDASHBase, base, n
<1>9. IF roots = {} THEN base[n][1] = url
      ELSE \E i \in roots : base[n][1] = bases[i] /\ \A j \in roots : j <= i
  BY <1>1, <1>3, <1>7
<1> QED BY <1>1, <1>8, <1>9 DEF roots

(* The adaptation sets of a document: any number of them, of any           *)
(* representations, with templates anywhere.                               *)
Places == Templates \cup {Absent}
AdaptationSets ==
  [video : BOOLEAN, template : Places, reps : Seq([bandwidth : Nat, template : Places])]

(* The representations of a document are at places in its lists.           *)
LEMMA PlacesOfRepresentations ==
  ASSUME NEW sets \in Seq(AdaptationSets)
  PROVE  /\ Representations(sets) \subseteq Nat \X Nat
         /\ \A p \in Representations(sets) : p[1] \in 1 .. Len(sets) /\ p[2] \in 1 .. Len(sets[p[1]].reps)
         /\ \A i \in 1 .. Len(sets) : \A j \in 1 .. Len(sets[i].reps) : <<i, j>> \in Representations(sets)
         /\ Len(sets) \in Nat
         /\ \A i \in 1 .. Len(sets) :
              /\ sets[i].video \in BOOLEAN /\ Len(sets[i].reps) \in Nat
              /\ \A j \in 1 .. Len(sets[i].reps) : sets[i].reps[j].bandwidth \in Nat
<1>1. Len(sets) \in Nat /\ DOMAIN sets = 1 .. Len(sets)
  OBVIOUS
<1>2. \A i \in 1 .. Len(sets) : sets[i] \in AdaptationSets
  OBVIOUS
<1>3. \A i \in 1 .. Len(sets) :
        /\ sets[i].video \in BOOLEAN
        /\ sets[i].reps \in Seq([bandwidth : Nat, template : Places])
  BY <1>2 DEF AdaptationSets
<1>4. \A i \in 1 .. Len(sets) :
        /\ Len(sets[i].reps) \in Nat /\ DOMAIN sets[i].reps = 1 .. Len(sets[i].reps)
        /\ \A j \in 1 .. Len(sets[i].reps) : sets[i].reps[j].bandwidth \in Nat
  <2> TAKE i \in 1 .. Len(sets)
  <2> DEFINE reps == sets[i].reps
             T == [bandwidth : Nat, template : Places]
  <2>1. reps \in Seq(T)
    BY <1>3
  <2>2. Len(reps) \in Nat /\ DOMAIN reps = 1 .. Len(reps) /\ \A j \in 1 .. Len(reps) : reps[j] \in T
    <3> HIDE DEF reps, T
    <3> QED BY <2>1
  <2>3. \A r \in T : r.bandwidth \in Nat
    OBVIOUS
  <2> HIDE DEF reps, T
  <2>4. \A j \in 1 .. Len(reps) : reps[j].bandwidth \in Nat
    BY <2>2, <2>3
  <2> QED BY <2>2, <2>4 DEF reps
<1>5. ASSUME NEW p \in Representations(sets)
      PROVE p \in Nat \X Nat /\ p[1] \in 1 .. Len(sets) /\ p[2] \in 1 .. Len(sets[p[1]].reps)
  <2> DEFINE U == UNION {DOMAIN sets[i].reps : i \in 1 .. Len(sets)}
             I == 1 .. Len(sets)
  <2>1. p \in I \X U /\ p[2] \in DOMAIN sets[p[1]].reps
    BY <1>1 DEF Representations
  <2>2. p = <<p[1], p[2]>> /\ p[1] \in 1 .. Len(sets)
    <3>1. p = <<p[1], p[2]>> /\ p[1] \in I
      <4> HIDE DEF U, I
      <4> QED BY <2>1
    <3> QED BY <3>1
  <2>3. p[2] \in 1 .. Len(sets[p[1]].reps)
    BY <1>4, <2>1, <2>2
  <2>4. p[1] \in Nat /\ p[2] \in Nat
    BY <1>4, <2>2, <2>3
  <2> QED BY <2>2, <2>3, <2>4
<1>6. ASSUME NEW i \in 1 .. Len(sets), NEW j \in 1 .. Len(sets[i].reps)
      PROVE <<i, j>> \in Representations(sets)
  <2>1. j \in DOMAIN sets[i].reps
    BY <1>4
  <2>2. j \in UNION {DOMAIN sets[k].reps : k \in DOMAIN sets}
    BY <1>1, <2>1
  <2> QED BY <1>1, <2>1, <2>2 DEF Representations
<1> QED BY <1>1, <1>3, <1>4, <1>5, <1>6

(* A representation is chosen if there is one, and no other video has a    *)
(* higher rate.                                                            *)
LEMMA BestChosen ==
  ASSUME NEW sets \in Seq(AdaptationSets), Representations(sets) # {}
  PROVE  LET c == SelectVideoRepresentation(sets)
         IN  /\ c \in Representations(sets)
             /\ \A r \in Representations(sets) : sets[r[1]].video =>
                  sets[c[1]].video /\ sets[r[1]].reps[r[2]].bandwidth <= sets[c[1]].reps[c[2]].bandwidth
<1> DEFINE all == Representations(sets)
           Rate(p) == sets[p[1]].reps[p[2]].bandwidth
           n == Len(sets)
           m(i) == Len(sets[i].reps)
           videos == {p \in all : sets[p[1]].video}
           best == {p \in videos : \A q \in videos : Rate(q) <= Rate(p)}
           c == SelectVideoRepresentation(sets)
<1>1. /\ all \subseteq Nat \X Nat
      /\ \A p \in all : p = <<p[1], p[2]>> /\ p[1] \in 1 .. n /\ p[2] \in 1 .. m(p[1])
      /\ \A i \in 1 .. n : \A j \in 1 .. m(i) : <<i, j>> \in all
      /\ n \in Nat /\ \A i \in 1 .. n : m(i) \in Nat /\ \A j \in 1 .. m(i) : sets[i].reps[j].bandwidth \in Nat
  BY PlacesOfRepresentations
<1>2. c = FirstOf(IF best # {} THEN best ELSE all)
  BY DEF SelectVideoRepresentation
<1> HIDE DEF all, c, n, m
<1>3. videos # {} => best # {}
  <2> HAVE videos # {}
  <2> DEFINE I == {p[1] : p \in videos}
             W(i) == CHOOSE j \in 1 .. m(i) : \A k \in 1 .. m(i) : sets[i].reps[k].bandwidth <= sets[i].reps[j].bandwidth
             v == [i \in I |-> Rate(<<i, W(i)>>)]
  <2>1. I # {} /\ I \subseteq 1 .. n /\ \A i \in I : sets[i].video /\ 1 .. m(i) # {}
    BY <1>1
  <2>2. \A i \in I : W(i) \in 1 .. m(i) /\ \A k \in 1 .. m(i) : sets[i].reps[k].bandwidth <= sets[i].reps[W(i)].bandwidth
    <3> TAKE i \in I
    <3> DEFINE f == [k \in 1 .. m(i) |-> sets[i].reps[k].bandwidth]
    <3>1. m(i) \in Nat /\ 1 .. m(i) # {} /\ \A k \in 1 .. m(i) : f[k] \in Nat
      BY <1>1, <2>1
    <3>2. \E j \in 1 .. m(i) : \A k \in 1 .. m(i) : f[k] <= f[j]
      <4> HIDE DEF f
      <4> QED BY <3>1, Largest
    <3> QED BY <3>2
  <2>3. \A i \in I : v[i] = sets[i].reps[W(i)].bandwidth /\ v[i] \in Nat
    BY <1>1, <2>1, <2>2
  <2> HIDE DEF W, v
  <2>4. PICK i \in I : \A j \in I : v[j] <= v[i]
    <3> HIDE DEF I
    <3> QED BY <1>1, <2>1, <2>3, Largest
  <2> DEFINE p == <<i, W(i)>>
  <2>5. p \in videos
    BY <1>1, <2>1, <2>2
  <2>6. \A q \in videos : Rate(q) <= Rate(p)
    <3> TAKE q \in videos
    <3>1. q[1] \in I /\ q[1] \in 1 .. n /\ q[2] \in 1 .. m(q[1])
      BY <1>1
    <3>2. Rate(q) <= v[q[1]] /\ v[q[1]] <= v[i] /\ v[i] = Rate(p)
      BY <2>2, <2>3, <2>4, <3>1
    <3>3. Rate(q) \in Nat /\ v[q[1]] \in Nat /\ v[i] \in Nat
      BY <1>1, <2>3, <3>1
    <3> QED BY <3>2, <3>3
  <2> QED BY <2>5, <2>6
<1>4. c \in all /\ (videos # {} => c \in best)
  <2>1. best \subseteq all
    OBVIOUS
  <2>2. CASE best # {}
    <3>1. best \subseteq Nat \X Nat
      BY <1>1, <2>1
    <3>2. c \in best
      <4> HIDE DEF best
      <4> QED BY <1>2, <2>2, <3>1, FirstOfPlaces
    <3> QED BY <2>1, <3>2
  <2>3. CASE best = {}
    <3>1. c = FirstOf(all)
      BY <1>2, <2>3
    <3>2. c \in all
      BY <1>1, <3>1, FirstOfPlaces DEF all
    <3> QED BY <1>3, <2>3, <3>2
  <2> QED BY <2>2, <2>3
<1>5. ASSUME NEW r \in all, sets[r[1]].video PROVE sets[c[1]].video /\ Rate(r) <= Rate(c)
  <2>1. r \in videos
    BY <1>5
  <2>2. c \in best
    BY <1>4, <2>1
  <2> QED BY <2>1, <2>2
<1> QED BY <1>4, <1>5 DEF all, c

IsDocument(doc) == doc.sets \in Seq(AdaptationSets) /\ doc.bases \in Seq(Bases)

(* A document that has a window of a stream in the template that is found  *)
(* for the chosen representation is converted to that window, whatever the *)
(* stream is and however the manifest is written.                          *)
LEMMA EveryWindowIsConverted ==
  ASSUME NEW stream, IsStream(stream), NEW runs \in Seq(Nat \ {0}), NEW last \in Nat,
         DividesWindow(runs, last, stream), NEW spelled \in BOOLEAN, NEW open \in BOOLEAN,
         NEW doc, IsDocument(doc), Representations(doc.sets) # {},
         TemplateOf(stream, runs, last, spelled, open) # Absent,
         ChosenTemplate(doc) = TemplateOf(stream, runs, last, spelled, open), NEW url
  PROVE  ConvertsWindow(doc, url, stream, runs[1], LastShown(runs, last, open))
<1> DEFINE from == runs[1]
           shown == LastShown(runs, last, open)
           st == ChosenTemplate(doc)
           start == IF stream.numbered THEN from ELSE 1
           scale == IF stream.timescale = 0 THEN 1 ELSE stream.timescale
           out == Named(stream, from, start, shown)
           p == DashToHLS(doc, url)
           c == SelectVideoRepresentation(doc.sets)
           roots == {i \in DOMAIN doc.bases : doc.bases[i] \notin {Absent, Garbage} /\ doc.bases[i].absolute}
<1>1. /\ from \in Nat \ {0} /\ shown \in Nat /\ from <= shown /\ shown <= Len(stream.d)
      /\ Len(runs) \in Nat \ {0} /\ Len(stream.d) \in Nat
  <2> DEFINE n == Len(runs)
  <2>1. /\ n \in Nat \ {0}
        /\ \A i \in 1 .. n :
              /\ runs[i] \in Nat \ {0} /\ EndOf(runs, last, i) \in Nat
              /\ runs[1] <= runs[i] /\ runs[i] <= EndOf(runs, last, i) /\ EndOf(runs, last, i) <= Len(stream.d)
              /\ i = n => EndOf(runs, last, i) = last
    BY RunsInOrder
  <2>2. Len(stream.d) \in Nat
    BY StreamShape
  <2>3. 1 \in 1 .. n /\ n \in 1 .. n
    BY <2>1
  <2>4. shown = IF open THEN runs[n] ELSE last
    BY DEF LastShown
  <2> HIDE DEF shown, n
  <2>5. shown \in Nat /\ from <= shown /\ shown <= Len(stream.d)
    BY <2>1, <2>2, <2>3, <2>4
  <2> QED BY <2>1, <2>2, <2>3, <2>5 DEF n
<1>2. stream.numbered \in BOOLEAN /\ stream.timescale \in Nat
  BY DEF IsStream
<1>3. start \in Nat /\ scale \in Nat \ {0}
  BY <1>1, <1>2
<1>4. /\ st.media /\ st.timeline = Timeline(stream, runs, last, spelled, open) /\ st # Absent
      /\ (IF st.start = Absent THEN 1 ELSE st.start) = start
      /\ (IF st.timescale \in {Absent, 0} THEN 1 ELSE st.timescale) = scale
  <2>1. /\ st.media = TRUE /\ st.timeline = Timeline(stream, runs, last, spelled, open) /\ st # Absent
        /\ st.start = IF stream.numbered THEN from ELSE Absent
        /\ st.timescale = stream.timescale
    BY DEF TemplateOf
  <2>2. from # Absent /\ stream.timescale # Absent
    BY <1>1, <1>2, TextAssumption
  <2> HIDE DEF st, from
  <2> QED BY <1>2, <2>1, <2>2
<1>5. TimelineSegments(st.timeline, start) = out
  <2>1. TimelineSegments(Timeline(stream, runs, last, spelled, open), start) = out
    <3> HIDE DEF start
    <3> QED BY <1>3, TimelineExact
  <2> QED BY <1>4, <2>1
<1>6. Converts(doc)
  <2>1. st.timeline # <<>>
    <3>1. Len(Timeline(stream, runs, last, spelled, open)) = Len(runs)
      BY <1>1 DEF Timeline
    <3> QED BY <1>1, <1>4, <3>1
  <2> QED BY <1>4, <2>1 DEF Converts
<1>7. p = [representation |-> c, targetDuration |-> (LongestSegment(out) + scale - 1) \div scale,
           mediaSequence |-> start, base |-> ResolveDASHBase(url, doc.bases), segments |-> out]
  <2>1. p = Playlist(doc, url)
    BY <1>6 DEF DashToHLS
  <2> HIDE DEF p, start, scale, out
  <2> QED BY <1>4, <1>5, <2>1 DEF Playlist
<1>8. out = [i \in 1 .. shown - from + 1 |->
               [number |-> start + i - 1, time |-> stream.at[from + i - 1], d |-> stream.d[from + i - 1]]]
  BY DEF Named, StreamSegment
<1>9. \A n \in from .. shown : stream.d[n] <= p.targetDuration * scale
  <2> DEFINE l == shown - from + 1
  <2>1. l \in Nat \ {0} /\ \A i \in 1 .. l : from + i - 1 \in 1 .. Len(stream.d)
    <3> HIDE DEF from, shown
    <3> QED BY <1>1
  <2>2. DOMAIN out = 1 .. l /\ \A i \in 1 .. l : out[i].d = stream.d[from + i - 1] /\ out[i].d \in Nat
    <3> HIDE DEF from, shown, out
    <3>1. \A i \in 1 .. l : stream.d[from + i - 1] \in Nat
      BY <2>1, StreamShape
    <3> HIDE DEF l
    <3>2. out = [i \in 1 .. l |-> [number |-> start + i - 1, time |-> stream.at[from + i - 1], d |-> stream.d[from + i - 1]]]
      BY <1>8 DEF l
    <3> QED BY <3>1, <3>2
  <2>3. \A i \in 1 .. l : out[i].d <= ((LongestSegment(out) + scale - 1) \div scale) * scale
    <3> HIDE DEF l, out, scale
    <3> QED BY <1>3, <2>1, <2>2, LongestCovers
  <2>4. p.targetDuration = (LongestSegment(out) + scale - 1) \div scale
    <3> HIDE DEF p, out, scale, start
    <3> QED BY <1>7
  <2> TAKE n \in from .. shown
  <2>5. n - from + 1 \in 1 .. l /\ from + (n - from + 1) - 1 = n
    <3> HIDE DEF from, shown
    <3> QED BY <1>1
  <2> HIDE DEF out, scale, from, shown, p, l
  <2> QED BY <2>2, <2>3, <2>4, <2>5
<1>10. \A r \in Representations(doc.sets) : doc.sets[r[1]].video =>
         /\ doc.sets[c[1]].video
         /\ doc.sets[r[1]].reps[r[2]].bandwidth <= doc.sets[c[1]].reps[c[2]].bandwidth
  BY BestChosen DEF IsDocument
<1>11. LET base == ResolveDASHBase(url, doc.bases)
       IN  IF roots = {} THEN base[1] = url
           ELSE \E i \in roots : base[1] = doc.bases[i] /\ \A j \in roots : j <= i
  BY BaseExact DEF IsDocument
<1> HIDE DEF from, shown, start, scale, out, p, c, roots
<1>12. /\ p.representation = c /\ p.mediaSequence = start /\ p.segments = out
       /\ p.base = ResolveDASHBase(url, doc.bases)
  BY <1>7
<1> QED BY <1>6, <1>8, <1>9, <1>10, <1>11, <1>12
        DEF ConvertsWindow, from, shown, start, scale, p, roots

(* What is asked about a manifest: any window of any stream, in any        *)
(* adaptation sets under any BaseURLs.                                     *)
IsManifestCall(c) ==
  /\ IsStream(c.stream) /\ c.runs \in Seq(Nat \ {0}) /\ c.last \in Nat
  /\ DividesWindow(c.runs, c.last, c.stream)
  /\ c.spelled \in BOOLEAN /\ c.open \in BOOLEAN /\ c.bases \in Seq(Bases)
  /\ c.sets \in Seq([video : BOOLEAN, rates : Seq(Nat)])
  /\ c.sets # <<>> => \E i \in 1 .. Len(c.sets) : c.sets[i].rates # <<>>

(* Both of a call's templates are templates, and so neither is Absent.     *)
LEMMA TemplatesAreThere ==
  ASSUME NEW c, IsManifestCall(c)
  PROVE  Template(c) \in Templates /\ Other \in Templates /\ Template(c) # Absent
<1> DEFINE stream == c.stream
           runs == c.runs
           n == Len(runs)
           timeline == Timeline(stream, runs, c.last, c.spelled, c.open)
<1>1. IsStream(stream) /\ runs \in Seq(Nat \ {0}) /\ c.last \in Nat /\ DividesWindow(runs, c.last, stream)
  BY DEF IsManifestCall
<1>2. /\ n \in Nat \ {0}
      /\ \A i \in 1 .. n : /\ runs[i] \in Nat \ {0} /\ EndOf(runs, c.last, i) \in Nat
                           /\ runs[i] <= EndOf(runs, c.last, i) /\ EndOf(runs, c.last, i) <= Len(stream.d)
  <2> HIDE DEF stream, runs
  <2> QED BY <1>1, RunsInOrder DEF n
<1>3. Len(stream.d) \in Nat /\ \A k \in 1 .. Len(stream.d) : stream.at[k] \in Nat /\ stream.d[k] \in Nat
  <2> HIDE DEF stream
  <2> QED BY <1>1, StreamShape
<1>4. stream.numbered \in BOOLEAN /\ stream.timescale \in Nat
  BY <1>1 DEF IsStream
<1> HIDE DEF stream, runs, n
<1>5. \A i \in 1 .. n : stream.at[runs[i]] \in Nat /\ stream.d[runs[i]] \in Nat
  <2> TAKE i \in 1 .. n
  <2>1. runs[i] \in 1 .. Len(stream.d)
    BY <1>2, <1>3
  <2> QED BY <1>3, <2>1
<1>6. timeline \in Seq(SegmentEntries)
  <2> DEFINE e(i) == [t |-> IF c.spelled \/ i = 1 \/ ~Contiguous(stream, runs[i]) THEN stream.at[runs[i]] ELSE Absent,
                      d |-> stream.d[runs[i]],
                      r |-> IF c.open /\ i = n THEN -1 ELSE EndOf(runs, c.last, i) - runs[i]]
  <2>1. \A i \in 1 .. n : e(i) \in SegmentEntries
    BY <1>2, <1>5 DEF SegmentEntries
  <2>2. timeline = [i \in 1 .. n |-> e(i)]
    BY DEF Timeline, n
  <2> HIDE DEF e, timeline
  <2> QED BY <1>2, <2>1, <2>2
<1>7. Template(c) = [media |-> TRUE, start |-> IF stream.numbered THEN runs[1] ELSE Absent,
                     timescale |-> stream.timescale, timeline |-> timeline]
  BY DEF Template, TemplateOf, stream, runs
<1>8. runs[1] \in Nat
  BY <1>2
<1> HIDE DEF timeline
<1>9. Template(c) \in Templates
  BY <1>4, <1>6, <1>7, <1>8 DEF Templates
<1>10. Other \in Templates
  <2>1. <<>> \in Seq(SegmentEntries)
    OBVIOUS
  <2> QED BY <2>1 DEF Other, Templates
<1> QED BY <1>9, <1>10, DashAssumption

(* The first template is found, at whatever level it is.                   *)
LEMMA FirstTemplateFound ==
  ASSUME NEW a, NEW b, NEW d
  PROVE  /\ a # Absent => FirstSegmentTemplate(<<a, b, d>>) = a
         /\ a = Absent /\ b # Absent => FirstSegmentTemplate(<<a, b, d>>) = b
         /\ a = Absent /\ b = Absent /\ d # Absent => FirstSegmentTemplate(<<a, b, d>>) = d
<1> DEFINE t == <<a, b, d>>
           given == {i \in DOMAIN t : t[i] # Absent}
<1>1. DOMAIN t = 1 .. 3 /\ t[1] = a /\ t[2] = b /\ t[3] = d
  OBVIOUS
<1>2. FirstSegmentTemplate(t) = IF given = {} THEN Absent ELSE t[CHOOSE i \in given : \A j \in given : i <= j]
  BY DEF FirstSegmentTemplate
<1> HIDE DEF t
<1>3. given \subseteq 1 .. 3 /\ (1 \in given <=> a # Absent) /\ (2 \in given <=> b # Absent) /\ (3 \in given <=> d # Absent)
  BY <1>1
<1> HIDE DEF given
<1>4. ASSUME NEW k \in given, \A j \in given : k <= j PROVE FirstSegmentTemplate(t) = t[k]
  <2>1. \A i \in given : (\A j \in given : i <= j) => i = k
    BY <1>3, <1>4
  <2>2. (CHOOSE i \in given : \A j \in given : i <= j) = k
    BY <1>4, <2>1
  <2> QED BY <1>2, <2>2
<1>5. CASE a # Absent
  BY <1>1, <1>3, <1>4, <1>5 DEF t
<1>6. CASE a = Absent /\ b # Absent
  <2>1. 2 \in given /\ \A j \in given : 2 <= j
    BY <1>3, <1>6
  <2> QED BY <1>1, <1>4, <1>6, <2>1 DEF t
<1>7. CASE a = Absent /\ b = Absent /\ d # Absent
  <2>1. 3 \in given /\ \A j \in given : 3 <= j
    BY <1>3, <1>7
  <2> QED BY <1>1, <1>4, <1>7, <2>1 DEF t
<1> QED BY <1>5, <1>6, <1>7

(* The document of a call has its template where it is looked for.         *)
LEMMA DocumentOfCall ==
  ASSUME NEW c, IsManifestCall(c)
  PROVE  /\ IsDocument(Document(c)) /\ Representations(Document(c).sets) # {}
         /\ ChosenTemplate(Document(c)) = Template(c)
<1> DEFINE doc == Document(c)
           t == Template(c)
           T == [bandwidth : Nat, template : Places]
<1>1. t \in Places /\ Other \in Places /\ Absent \in Places /\ t # Absent
  BY TemplatesAreThere DEF Places
<1>2. c.bases \in Seq(Bases) /\ c.sets \in Seq([video : BOOLEAN, rates : Seq(Nat)])
  BY DEF IsManifestCall
<1> HIDE DEF t
<1>3. CASE c.sets = <<>>
  <2> DEFINE rep == [bandwidth |-> 1, template |-> Absent]
             set == [video |-> TRUE, template |-> t, reps |-> <<rep>>]
  <2>1. doc = [sets |-> <<set>>, template |-> Other, bases |-> c.bases]
    BY <1>3 DEF Document, t
  <2>2. rep \in T /\ rep.template = Absent
    BY <1>1
  <2> HIDE DEF rep, T
  <2>3. <<rep>> \in Seq(T)
    BY <2>2
  <2>4. set \in AdaptationSets
    BY <1>1, <2>3 DEF AdaptationSets, T
  <2>5. set.template = t /\ set.reps = <<rep>>
    OBVIOUS
  <2> HIDE DEF doc, set
  <2>6. <<set>> \in Seq(AdaptationSets) /\ Len(<<set>>) = 1 /\ <<set>>[1] = set /\ Len(<<rep>>) = 1 /\ <<rep>>[1] = rep
    BY <2>4
  <2>7. doc.sets = <<set>> /\ doc.bases = c.bases /\ doc.template = Other
    BY <2>1
  <2>8. <<1, 1>> \in Representations(<<set>>)
    BY <2>5, <2>6, PlacesOfRepresentations
  <2>9. LET p == SelectVideoRepresentation(<<set>>) IN p[1] = 1 /\ p[2] = 1
    <3> DEFINE p == SelectVideoRepresentation(<<set>>)
    <3>1. p \in Representations(<<set>>)
      BY <2>6, <2>8, BestChosen
    <3>2. p[1] \in 1 .. 1
      BY <2>6, <3>1, PlacesOfRepresentations
    <3>3. p[2] \in 1 .. Len(<<set>>[p[1]].reps)
      BY <2>6, <3>1, PlacesOfRepresentations
    <3> HIDE DEF p
    <3>4. p[1] = 1
      BY <3>2
    <3>5. p[2] \in 1 .. 1
      BY <2>5, <2>6, <3>3, <3>4
    <3>6. p[2] = 1
      BY <3>5
    <3> QED BY <3>4, <3>6 DEF p
  <2>10. ChosenTemplate(doc) = FirstSegmentTemplate(<<Absent, t, Other>>)
    BY <2>2, <2>5, <2>6, <2>7, <2>9 DEF ChosenTemplate
  <2>11. ChosenTemplate(doc) = t
    BY <1>1, <2>10, FirstTemplateFound
  <2>12. IsDocument(doc)
    BY <1>2, <2>6, <2>7 DEF IsDocument
  <2> QED BY <2>7, <2>8, <2>11, <2>12 DEF doc, t
<1>4. CASE c.sets # <<>>
  <2> DEFINE n == Len(c.sets)
             rates(i) == c.sets[i].rates
             place(i) == IF i = 1 THEN t ELSE Absent
             reps(i) == [j \in DOMAIN rates(i) |-> [bandwidth |-> rates(i)[j], template |-> place(i)]]
             set(i) == [video |-> c.sets[i].video, template |-> IF i = 1 THEN Other ELSE Absent, reps |-> reps(i)]
             sets == [i \in DOMAIN c.sets |-> set(i)]
  <2>1. doc = [sets |-> sets, template |-> t, bases |-> c.bases]
    BY <1>4 DEF Document, t
  <2>2. n \in Nat /\ DOMAIN c.sets = 1 .. n /\ \A i \in 1 .. n : c.sets[i].video \in BOOLEAN /\ rates(i) \in Seq(Nat)
    <3> DEFINE C == [video : BOOLEAN, rates : Seq(Nat)]
    <3>1. \A x \in C : x.video \in BOOLEAN /\ x.rates \in Seq(Nat)
      OBVIOUS
    <3>2. c.sets \in Seq(C)
      BY <1>2
    <3> HIDE DEF C
    <3>3. n \in Nat /\ DOMAIN c.sets = 1 .. n /\ \A i \in 1 .. n : c.sets[i] \in C
      BY <3>2
    <3> QED BY <3>1, <3>3
  <2>3. ASSUME NEW i \in 1 .. n
        PROVE  /\ set(i) \in AdaptationSets /\ Len(set(i).reps) = Len(rates(i)) /\ Len(rates(i)) \in Nat
               /\ \A j \in 1 .. Len(rates(i)) : set(i).reps[j].template = place(i)
               /\ set(i).template = IF i = 1 THEN Other ELSE Absent
    <3> DEFINE r == rates(i)
               m == Len(r)
    <3>1. r \in Seq(Nat) /\ c.sets[i].video \in BOOLEAN
      BY <2>2
    <3>2. m \in Nat /\ DOMAIN r = 1 .. m /\ \A j \in 1 .. m : r[j] \in Nat
      <4> HIDE DEF r
      <4> QED BY <3>1
    <3> HIDE DEF r, m
    <3>3. place(i) \in Places
      BY <1>1
    <3>4. reps(i) = [j \in 1 .. m |-> [bandwidth |-> r[j], template |-> place(i)]]
      BY <3>2 DEF r
    <3>5. \A j \in 1 .. m : [bandwidth |-> r[j], template |-> place(i)] \in T
      <4> HIDE DEF place
      <4> QED BY <3>2, <3>3
    <3> HIDE DEF reps, T, place
    <3>6. reps(i) \in Seq(T) /\ Len(reps(i)) = m
      <4>1. reps(i) \in [1 .. m -> T]
        BY <3>4, <3>5
      <4> QED BY <3>2, <4>1, ListOf
    <3>7. \A j \in 1 .. m : reps(i)[j].template = place(i)
      BY <3>4
    <3>8. (IF i = 1 THEN Other ELSE Absent) \in Places
      BY <1>1
    <3>9. set(i) \in AdaptationSets
      BY <3>1, <3>6, <3>8 DEF AdaptationSets, T
    <3> QED BY <3>2, <3>6, <3>7, <3>9 DEF m, r
  <2> HIDE DEF n, rates, place, reps, set
  <2>4. /\ sets \in Seq(AdaptationSets) /\ Len(sets) = n /\ \A i \in 1 .. n : sets[i] = set(i)
    <3>1. sets \in [1 .. n -> AdaptationSets]
      BY <2>2, <2>3
    <3> QED BY <2>2, <3>1, ListOf
  <2> HIDE DEF sets, doc
  <2>5. doc.sets = sets /\ doc.bases = c.bases /\ doc.template = t
    BY <2>1
  <2>6. Representations(sets) # {}
    <3>1. PICK i \in 1 .. n : rates(i) # <<>>
      BY <1>4 DEF IsManifestCall, n, rates
    <3>2. 1 \in 1 .. Len(rates(i))
      <4>1. rates(i) \in Seq(Nat)
        BY <2>2
      <4> QED BY <3>1, <4>1
    <3>3. <<i, 1>> \in Representations(sets)
      BY <2>3, <2>4, <3>2, PlacesOfRepresentations
    <3> QED BY <3>3
  <2> DEFINE p == SelectVideoRepresentation(sets)
             i == p[1]
             j == p[2]
  <2>7. i \in 1 .. n /\ j \in 1 .. Len(rates(i))
    <3>1. p \in Representations(sets)
      BY <2>4, <2>6, BestChosen
    <3> HIDE DEF p
    <3>2. p[1] \in 1 .. Len(sets) /\ p[2] \in 1 .. Len(sets[p[1]].reps)
      BY <2>4, <3>1, PlacesOfRepresentations
    <3> QED BY <2>3, <2>4, <3>2
  <2>8. ChosenTemplate(doc) = FirstSegmentTemplate(<<sets[i].reps[j].template, sets[i].template, doc.template>>)
    BY <2>5 DEF ChosenTemplate
  <2> HIDE DEF i, j
  <2>9. ChosenTemplate(doc) = FirstSegmentTemplate(<<place(i), IF i = 1 THEN Other ELSE Absent, t>>)
    BY <2>3, <2>4, <2>5, <2>7, <2>8
  <2>10. ChosenTemplate(doc) = t
    <3>1. CASE i = 1
      <4>1. place(i) = t
        BY <3>1 DEF place
      <4> QED BY <1>1, <2>9, <4>1, FirstTemplateFound
    <3>2. CASE i # 1
      <4>1. ChosenTemplate(doc) = FirstSegmentTemplate(<<Absent, Absent, t>>)
        BY <2>9, <3>2 DEF place
      <4> QED BY <1>1, <4>1, FirstTemplateFound
    <3> QED BY <3>1, <3>2
  <2>11. IsDocument(doc)
    BY <1>2, <2>4, <2>5 DEF IsDocument
  <2> QED BY <2>5, <2>6, <2>10, <2>11 DEF doc, t
<1> QED BY <1>3, <1>4

(* Every manifest that is asked about is converted to its window.          *)
LEMMA EveryPlaylistIsExact ==
  ASSUME NEW c, IsManifestCall(c)
  PROVE  ConvertsWindow(Document(c), "manifest", c.stream, c.runs[1], LastShown(c.runs, c.last, c.open))
<1>1. /\ IsStream(c.stream) /\ c.runs \in Seq(Nat \ {0}) /\ c.last \in Nat
      /\ DividesWindow(c.runs, c.last, c.stream) /\ c.spelled \in BOOLEAN /\ c.open \in BOOLEAN
  BY DEF IsManifestCall
<1>2. Template(c) = TemplateOf(c.stream, c.runs, c.last, c.spelled, c.open) /\ Template(c) # Absent
  BY TemplatesAreThere DEF Template
<1>3. /\ IsDocument(Document(c)) /\ Representations(Document(c).sets) # {}
      /\ ChosenTemplate(Document(c)) = Template(c)
  BY DocumentOfCall
<1> QED BY <1>1, <1>2, <1>3, EveryWindowIsConverted

(***************************************************************************)
(* Calls                                                                   *)
(***************************************************************************)

(* A call has arguments of the kinds that the lemmas above are about.      *)
CallInv ==
  /\ asked = "range" => call.header \in HeadersOver(Int) /\ call.size \in Nat \ {0}
  /\ asked = "route" => IsInfo(call.info)
  /\ asked = "wrapper" => IsWrapperCall(call)
  /\ asked = "config" => call.build \in Builds /\ IsSource(Fill(call.env)) /\ IsSource(Fill(call.flag))
  /\ asked = "command" => /\ IsCommandFlags(Fill(call.flag))
                          /\ call.headers.agent \notin Options \cup Switches
  /\ asked = "playlist" => IsManifestCall(call)

(* Every setting that is written is a text, and the others are absent.     *)
LEMMA ConfigAsked == AskConfig => CallInv'
<1>1. \A s \in Setting : \A t \in WrittenTexts(s) : t = Absent \/ IsText(s, t)
  <2> TAKE s \in Setting
  <2> TAKE t \in WrittenTexts(s)
  <2>1. CASE s \in Numbers
    <3>1. t \in {Absent, Empty, Spaces, Garbage} \cup EdgeAmounts(s)
      BY <2>1 DEF WrittenTexts, Numbers, Durations
    <3>2. EdgeAmounts(s) \subseteq Amounts
      BY SettingsAssumption DEF EdgeAmounts, Amounts, Units
    <3> QED BY <2>1, <3>1, <3>2 DEF IsText, Blank
  <2>2. CASE s \notin Numbers /\ s = "FfmpegHWAccel"
    BY <2>2 DEF WrittenTexts, IsText, Blank
  <2>3. CASE s \notin Numbers /\ s # "FfmpegHWAccel"
    <3>1. t \in {Absent, Empty, Spaces, Garbage, "word"}
      BY <2>3 DEF WrittenTexts
    <3> QED BY <2>3, <3>1, SettingsAssumption DEF IsText
  <2> QED BY <2>1, <2>2, <2>3
<1>2. ASSUME NEW s \in Setting, NEW t \in WrittenTexts(s) PROVE IsSource(Fill([x \in {s} |-> t]))
  BY <1>1, <1>2 DEF IsSource, Fill
<1> SUFFICES ASSUME AskConfig PROVE CallInv'
  OBVIOUS
<1>3. PICK build \in Builds :
        \/ \E s \in Setting : \E e, f \in WrittenTexts(s) :
             call' = [build |-> build, env |-> [x \in {s} |-> e], flag |-> [x \in {s} |-> f]]
        \/ \E b \in {Absent, Empty, "vaapi", "qsv"}, c \in {Absent, "vaapi"}, d, e \in WrittenTexts("FfmpegHWDevice") :
             call' = [build |-> build,
                      env  |-> [FfmpegHWAccel |-> b, FfmpegHWDevice |-> d],
                      flag |-> [FfmpegHWAccel |-> c, FfmpegHWDevice |-> e]]
  BY DEF AskConfig, Builds
<1>4. asked' = "config"
  BY DEF AskConfig
<1>5. CASE \E s \in Setting : \E e, f \in WrittenTexts(s) :
             call' = [build |-> build, env |-> [x \in {s} |-> e], flag |-> [x \in {s} |-> f]]
  <2>0. PICK s \in Setting : \E e, f \in WrittenTexts(s) :
          call' = [build |-> build, env |-> [x \in {s} |-> e], flag |-> [x \in {s} |-> f]]
    BY <1>5
  <2>1. PICK e \in WrittenTexts(s), f \in WrittenTexts(s) :
          call' = [build |-> build, env |-> [x \in {s} |-> e], flag |-> [x \in {s} |-> f]]
    BY <2>0
  <2>2. call'.build = build /\ call'.env = [x \in {s} |-> e] /\ call'.flag = [x \in {s} |-> f]
    BY <2>1
  <2>3. IsSource(Fill(call'.env)) /\ IsSource(Fill(call'.flag))
    BY <1>2, <2>2
  <2> QED BY <1>4, <2>2, <2>3 DEF CallInv
<1>6. ASSUME NEW b \in {Absent, Empty, "vaapi", "qsv"}, NEW c \in {Absent, "vaapi"},
             NEW d \in WrittenTexts("FfmpegHWDevice"), NEW e \in WrittenTexts("FfmpegHWDevice"),
             call' = [build |-> build,
                      env  |-> [FfmpegHWAccel |-> b, FfmpegHWDevice |-> d],
                      flag |-> [FfmpegHWAccel |-> c, FfmpegHWDevice |-> e]]
      PROVE  CallInv'
  <2>1. ASSUME NEW x \in {Absent, Empty, "vaapi", "qsv"}, NEW y \in WrittenTexts("FfmpegHWDevice")
        PROVE  IsSource(Fill([FfmpegHWAccel |-> x, FfmpegHWDevice |-> y]))
    <3>1. /\ "FfmpegHWAccel" \notin Numbers /\ "FfmpegHWAccel" \in Setting /\ "FfmpegHWDevice" \in Setting
      BY DEF Numbers, Durations, Setting, Words
    <3>2. y = Absent \/ IsText("FfmpegHWDevice", y)
      BY <1>1, <3>1
    <3>3. x = Absent \/ IsText("FfmpegHWAccel", x)
      BY <3>1 DEF IsText, Blank, Backends
    <3>4. \A s \in Setting : Fill([FfmpegHWAccel |-> x, FfmpegHWDevice |-> y])[s]
            = IF s = "FfmpegHWAccel" THEN x ELSE IF s = "FfmpegHWDevice" THEN y ELSE Absent
      BY DEF Fill
    <3> QED BY <3>2, <3>3, <3>4 DEF IsSource
  <2>2. \A x \in {Absent, "vaapi"} : x \in {Absent, Empty, "vaapi", "qsv"}
    OBVIOUS
  <2> QED BY <1>4, <1>6, <2>1, <2>2 DEF CallInv
<1> QED BY <1>3, <1>5, <1>6

(* The flags of every command that is asked for are readable words.        *)
LEMMA CommandAsked == AskCommand => CallInv'
<1> SUFFICES ASSUME AskCommand
             PROVE  IsCommandFlags(Fill(call'.flag)) /\ call'.headers.agent \notin Options \cup Switches
  BY DEF AskCommand, CallInv
<1>1. PICK b \in Backends, preset, crf, video, audio \in {Empty, "word"}, rate, buf \in {Empty, Spaces},
         agent \in {Absent, Empty, "agent"}, others \in BOOLEAN :
        call' = [headers |-> [agent |-> agent, others |-> others],
                 flag |-> [FfmpegHWAccel |-> b, FfmpegHWDevice |-> "device", TranscodePreset |-> preset,
                           TranscodeCRF |-> crf, TranscodeVideoBitrate |-> video, TranscodeMaxrate |-> rate,
                           TranscodeBufsize |-> buf, TranscodeAudioBitrate |-> audio]]
  BY Zenon DEF AskCommand
<1> DEFINE flag == Fill(call'.flag)
<1>2. call'.headers.agent \in {Absent, Empty, "agent"}
  BY <1>1
<1>3. \A s \in Setting :
        \/ s = "FfmpegHWAccel" /\ flag[s] = b
        \/ s = "FfmpegHWDevice" /\ flag[s] = "device"
        \/ s \in Repeated /\ flag[s] \in {Empty, Spaces, "word"}
        \/ flag[s] = Absent
  <2>1. flag = [s \in Setting |->
                 IF s = "FfmpegHWAccel" THEN b
                 ELSE IF s = "FfmpegHWDevice" THEN "device"
                 ELSE IF s = "TranscodePreset" THEN preset
                 ELSE IF s = "TranscodeCRF" THEN crf
                 ELSE IF s = "TranscodeVideoBitrate" THEN video
                 ELSE IF s = "TranscodeMaxrate" THEN rate
                 ELSE IF s = "TranscodeBufsize" THEN buf
                 ELSE IF s = "TranscodeAudioBitrate" THEN audio
                 ELSE Absent]
    BY <1>1 DEF Fill
  <2> QED BY <2>1 DEF Repeated
<1>4. /\ "FfmpegHWAccel" \in Setting /\ "FfmpegHWDevice" \in Setting /\ Repeated \subseteq Words
      /\ "FfmpegHWAccel" \in Words /\ "FfmpegHWDevice" \in Words
      /\ "Listen" \notin Repeated /\ "CacheDir" \notin Repeated
      /\ "FfmpegHWAccel" \notin Repeated /\ "FfmpegHWDevice" \notin Repeated
  BY DEF Setting, Words, Repeated
<1>5. /\ "agent" \notin Options \cup Switches /\ "device" \notin Options \cup Switches
      /\ "word" \notin Options \cup Switches /\ \A t \in Backends : t \notin Options \cup Switches
  BY DEF Options, Switches, Backends
<1>6. \A t \in {Absent, Empty, Spaces, Garbage} : t \notin Options \cup Switches \cup Backends \cup {"device"}
  BY CommandAssumption
<1>7. /\ Rejected \notin Backends \cup {"device", "word", Empty, Spaces}
      /\ Garbage \notin {Empty, Spaces, "word"}
  BY SettingsAssumption, CommandAssumption
<1>8. flag["FfmpegHWAccel"] = b /\ flag["FfmpegHWDevice"] = "device"
  BY <1>1, <1>4 DEF Fill
<1> HIDE DEF flag
<1>9. ASSUME NEW s \in Setting, flag[s] # Absent
      PROVE  /\ s \in Words /\ flag[s] \notin {Garbage, Rejected} /\ flag[s] \notin Options \cup Switches
             /\ s \in {"Listen", "CacheDir"} => flag[s] \notin Blank
             /\ s = "FfmpegHWAccel" => flag[s] \in Backends
  <2>1. CASE s = "FfmpegHWAccel"
    BY <1>4, <1>5, <1>6, <1>7, <1>8, <2>1
  <2>2. CASE s = "FfmpegHWDevice"
    BY <1>4, <1>5, <1>6, <1>7, <1>8, <2>2
  <2>3. CASE s \in Repeated /\ flag[s] \in {Empty, Spaces, "word"}
    BY <1>4, <1>5, <1>6, <1>7, <2>3
  <2> QED BY <1>3, <1>9, <2>1, <2>2, <2>3
<1>10. flag["FfmpegHWDevice"] \notin Blank \cup {Absent}
  BY <1>6, <1>8 DEF Blank
<1>11. IsCommandFlags(flag)
  BY <1>8, <1>9, <1>10 DEF IsCommandFlags
<1>12. call'.headers.agent \notin Options \cup Switches
  BY <1>2, <1>5, <1>6
<1> QED BY <1>11, <1>12 DEF flag

(* Every answer of yt-dlp that is asked about has that shape.              *)
LEMMA RouteAsked == AskRoute => CallInv'
<1>1. SomeAddresses \subseteq Addresses
  BY DEF SomeAddresses
<1>2. Protocols \subseteq {Absent} \cup SUBSET {"m3u8", "dash", "http"}
  BY DEF Protocols
<1>3. \A f \in Formats : f \in [address : Addresses \cup {Absent}, muxed : BOOLEAN]
  BY <1>1 DEF Formats
<1>4. ASSUME NEW url \in Addresses \cup {Absent}, NEW downloads \in Seq(Addresses \cup {Absent}),
             NEW formats \in Seq(Formats), NEW protocol \in Protocols, NEW isLive \in BOOLEAN, NEW v, NEW c
      PROVE  IsInfo(Info(url, downloads, formats, protocol, isLive, v, c))
  <2>1. formats \in Seq([address : Addresses \cup {Absent}, muxed : BOOLEAN])
    <3> DEFINE Entries == [address : Addresses \cup {Absent}, muxed : BOOLEAN]
    <3>1. \A f \in Formats : f \in Entries
      BY <1>3
    <3> HIDE DEF Entries
    <3>2. formats \in Seq(Entries)
      BY <3>1
    <3> QED BY <3>2 DEF Entries
  <2> QED BY <1>2, <2>1 DEF IsInfo, Info
<1>5. <<>> \in Seq(Formats) /\ [1 .. 1 -> Formats] \subseteq Seq(Formats) /\ [1 .. 2 -> Formats] \subseteq Seq(Formats)
  <2>1. \A n \in Nat : [1 .. n -> Formats] \subseteq Seq(Formats)
    OBVIOUS
  <2>2. [1 .. 1 -> Formats] \subseteq Seq(Formats) /\ [1 .. 2 -> Formats] \subseteq Seq(Formats)
    <3>1. 1 \in Nat /\ 2 \in Nat
      OBVIOUS
    <3> QED BY <2>1, <3>1, Zenon
  <2>3. <<>> \in Seq(Formats)
    OBVIOUS
  <2> QED BY <2>2, <2>3
<1>6. <<>> \in Seq(Addresses \cup {Absent}) /\ \A d \in Addresses : <<d>> \in Seq(Addresses \cup {Absent})
  OBVIOUS
<1> SUFFICES ASSUME AskRoute PROVE IsInfo(call'.info)
  BY DEF AskRoute, CallInv
<1>7. PICK protocol \in Protocols, isLive \in BOOLEAN :
        \/ \E a \in SomeAddresses, v, c, pv, pc \in Codecs :
             call' = [info |-> Info(a, <<>>, <<>>, protocol, isLive, v, c),
                      probe |-> [vcodec |-> pv, acodec |-> pc]]
        \/ \E a \in {Absent} \cup {b \in SomeAddresses : ~b.http}, d \in {Absent} \cup SomeAddresses,
              formats \in {<<>>} \cup [1 .. 1 -> Formats] \cup [1 .. 2 -> Formats] :
             call' = [info |-> Info(a, IF d = Absent THEN <<>> ELSE <<d>>, formats, protocol,
                                                    isLive, "mp4", "mp4"),
                      probe |-> [vcodec |-> Absent, acodec |-> Absent]]
  BY DEF AskRoute
<1>8. ASSUME NEW a \in SomeAddresses, NEW v \in Codecs, NEW c \in Codecs, NEW pv, NEW pc,
             call' = [info |-> Info(a, <<>>, <<>>, protocol, isLive, v, c),
                      probe |-> [vcodec |-> pv, acodec |-> pc]]
      PROVE  IsInfo(call'.info)
  <2>1. call'.info = Info(a, <<>>, <<>>, protocol, isLive, v, c) /\ a \in Addresses \cup {Absent}
    BY <1>1, <1>8
  <2>2. IsInfo(Info(a, <<>>, <<>>, protocol, isLive, v, c))
    BY <1>4, <1>5, <1>6, <2>1
  <2> QED BY <2>1, <2>2
<1>9. ASSUME NEW a \in {Absent} \cup {b \in SomeAddresses : ~b.http}, NEW d \in {Absent} \cup SomeAddresses,
             NEW formats \in {<<>>} \cup [1 .. 1 -> Formats] \cup [1 .. 2 -> Formats],
             call' = [info |-> Info(a, IF d = Absent THEN <<>> ELSE <<d>>, formats, protocol,
                                                    isLive, "mp4", "mp4"),
                      probe |-> [vcodec |-> Absent, acodec |-> Absent]]
      PROVE  IsInfo(call'.info)
  <2> DEFINE downloads == IF d = Absent THEN <<>> ELSE <<d>>
  <2>1. call'.info = Info(a, downloads, formats, protocol, isLive, "mp4", "mp4")
    BY <1>9
  <2>2. a \in Addresses \cup {Absent} /\ downloads \in Seq(Addresses \cup {Absent}) /\ formats \in Seq(Formats)
    BY <1>1, <1>5, <1>6
  <2> HIDE DEF downloads
  <2>3. IsInfo(Info(a, downloads, formats, protocol, isLive, "mp4", "mp4"))
    BY <1>4, <2>2
  <2> QED BY <2>1, <2>3
<1> QED BY <1>7, <1>8, <1>9

(* Every call of the wrapper has the arguments and times of one.           *)
LEMMA WrapperAsked == AskWrapper => CallInv'
<1> SUFFICES ASSUME AskWrapper PROVE IsWrapperCall(call')
  BY DEF AskWrapper, CallInv
<1>1. PICK args \in UNION {[1 .. n -> Arguments] : n \in 0 .. 3},
           server \in [address : {Empty, "address", Garbage}, answers : BOOLEAN], cached \in BOOLEAN,
           a \in {Absent, [kind |-> "file", suffix |-> "other", http |-> TRUE]}, codec \in {Absent, "mp4"},
           ytdlp \in 0 .. 3, probe \in 0 .. 2 :
        /\ Len(args) = 3 => ytdlp = 0 /\ probe = 0
        /\ call' = [args |-> args, server |-> server, cached |-> cached,
                    info |-> Info(a, <<>>, <<>>, Absent, FALSE, codec, "mp4"),
                    took |-> [ytdlp |-> ytdlp, probe |-> probe]]
  BY Zenon DEF AskWrapper
<1>2. args \in Seq(Arguments)
  <2>1. PICK n \in 0 .. 3 : args \in [1 .. n -> Arguments]
    OBVIOUS
  <2> QED BY <2>1
<1>3. a \in Addresses \cup {Absent}
  <2>1. [kind |-> "file", suffix |-> "other", http |-> TRUE] \in Addresses
    BY DEF Addresses, Kinds
  <2> QED BY <2>1
<1>4. IsInfo(Info(a, <<>>, <<>>, Absent, FALSE, codec, "mp4"))
  BY <1>3 DEF IsInfo, Info
<1>5. /\ call'.args = args /\ call'.server.answers \in BOOLEAN /\ call'.cached \in BOOLEAN
      /\ call'.info = Info(a, <<>>, <<>>, Absent, FALSE, codec, "mp4")
      /\ call'.took.ytdlp \in Nat /\ call'.took.probe \in Nat
  BY <1>1
<1> QED BY <1>2, <1>4, <1>5 DEF IsWrapperCall

(* A window that is asked about is one of a stream.                        *)
LEMMA WindowAsked == AskPlaylist => IsManifestCall(call')
<1> SUFFICES ASSUME AskPlaylist PROVE IsManifestCall(call')
  OBVIOUS
<1>1. PICK d \in [1 .. 4 -> {2, 3}], gap \in 0 .. 1, numbered \in BOOLEAN, spelled \in BOOLEAN, open \in BOOLEAN,
           runs \in UNION {[1 .. n -> 1 .. 4] : n \in 1 .. 4}, last \in 1 .. 4 :
        LET stream == [d |-> d, at |-> <<0, d[1], d[1] + d[2] + gap, d[1] + d[2] + gap + d[3]>>,
                       numbered |-> numbered, timescale |-> 2]
        IN  /\ DividesWindow(runs, last, stream)
            /\ call' = [stream |-> stream, runs |-> runs, last |-> last, spelled |-> spelled,
                        open |-> open, sets |-> <<>>, bases |-> <<>>]
  BY DEF AskPlaylist
<1> DEFINE at == <<0, d[1], d[1] + d[2] + gap, d[1] + d[2] + gap + d[3]>>
           stream == [d |-> d, at |-> at, numbered |-> numbered, timescale |-> 2]
           C == [video : BOOLEAN, rates : Seq(Nat)]
<1>2. d \in Seq(Nat) /\ Len(d) = 4 /\ \A i \in 1 .. 4 : d[i] \in Nat
  <2>1. d \in [1 .. 4 -> Nat] /\ \A i \in 1 .. 4 : d[i] \in Nat
    OBVIOUS
  <2> QED BY <2>1, ListOf
<1>3. at \in Seq(Nat) /\ Len(at) = 4
  <2> DEFINE b == d[1]
             e == d[1] + d[2] + gap
             f == d[1] + d[2] + gap + d[3]
  <2>1. b \in Nat /\ e \in Nat /\ f \in Nat /\ 0 \in Nat
    BY <1>2
  <2> HIDE DEF b, e, f
  <2>2. <<0, b, e, f>> \in Seq(Nat) /\ Len(<<0, b, e, f>>) = 4
    BY <2>1
  <2> QED BY <2>2 DEF b, e, f
<1> HIDE DEF at
<1>4. IsStream(stream)
  BY <1>2, <1>3 DEF IsStream
<1>5. runs \in Seq(Nat \ {0})
  <2>1. PICK n \in 1 .. 4 : runs \in [1 .. n -> 1 .. 4]
    OBVIOUS
  <2>2. runs \in [1 .. n -> Nat \ {0}]
    BY <2>1
  <2> QED BY <2>2, ListOf
<1>6. <<>> \in Seq(Bases) /\ <<>> \in Seq(C)
  OBVIOUS
<1> HIDE DEF stream, C
<1>7. /\ DividesWindow(runs, last, stream)
      /\ call' = [stream |-> stream, runs |-> runs, last |-> last, spelled |-> spelled,
                  open |-> open, sets |-> <<>>, bases |-> <<>>]
  BY <1>1 DEF stream, at
<1> QED BY <1>4, <1>5, <1>6, <1>7 DEF IsManifestCall, C

(* A manifest that is asked about has a representation.                    *)
LEMMA ManifestAsked == AskManifest => IsManifestCall(call')
<1> SUFFICES ASSUME AskManifest PROVE IsManifestCall(call')
  OBVIOUS
<1>1. PICK r1 \in {<<>>, <<1>>, <<1, 2>>, <<2, 2>>}, r2 \in {<<>>, <<1>>, <<1, 2>>, <<2, 2>>},
           v1 \in BOOLEAN, v2 \in BOOLEAN,
           bases \in [1 .. 2 -> {Absent, Garbage, [absolute |-> TRUE], [absolute |-> FALSE]}] :
        /\ r1 # <<>> \/ r2 # <<>>
        /\ call' = [stream |-> [d |-> <<2, 2, 1>>, at |-> <<0, 2, 4>>, numbered |-> TRUE, timescale |-> 0],
                    runs |-> <<2, 3>>, last |-> 3, spelled |-> FALSE, open |-> FALSE,
                    sets |-> <<[video |-> v1, rates |-> r1], [video |-> v2, rates |-> r2]>>, bases |-> bases]
  BY DEF AskManifest
<1> DEFINE d == <<2, 2, 1>>
           at == <<0, 2, 4>>
           stream == [d |-> d, at |-> at, numbered |-> TRUE, timescale |-> 0]
           runs == <<2, 3>>
           C == [video : BOOLEAN, rates : Seq(Nat)]
           a == [video |-> v1, rates |-> r1]
           b == [video |-> v2, rates |-> r2]
           sets == <<a, b>>
<1>2. d \in Seq(Nat) /\ at \in Seq(Nat) /\ Len(at) = 3 /\ Len(d) = 3
  OBVIOUS
<1>3. IsStream(stream)
  BY <1>2 DEF IsStream
<1>4. runs \in Seq(Nat \ {0}) /\ Len(runs) = 2 /\ runs[1] = 2 /\ runs[2] = 3 /\ runs # <<>> /\ DOMAIN runs = 1 .. 2
  OBVIOUS
<1>5. DividesWindow(runs, 3, stream)
  <2>1. EndOf(runs, 3, 1) = 2 /\ EndOf(runs, 3, 2) = 3
    BY <1>4 DEF EndOf
  <2>2. Len(stream.d) = 3
    BY <1>2
  <2> HIDE DEF runs, stream
  <2>3. ASSUME NEW i \in DOMAIN runs PROVE runs[i] = EndOf(runs, 3, i) /\ runs[i] \in Nat
    BY <1>4, <2>1
  <2>4. \A i \in DOMAIN runs : runs[i] <= EndOf(runs, 3, i) /\ runs[i] + 1 .. EndOf(runs, 3, i) = {}
    BY <2>3
  <2> QED BY <1>4, <2>2, <2>4 DEF DividesWindow
<1>6. r1 \in Seq(Nat) /\ r2 \in Seq(Nat)
  <2>1. <<>> \in Seq(Nat) /\ <<1>> \in Seq(Nat) /\ <<1, 2>> \in Seq(Nat) /\ <<2, 2>> \in Seq(Nat)
    OBVIOUS
  <2> QED BY <2>1
<1>7. a \in C /\ b \in C
  BY <1>6
<1>8. sets \in Seq(C) /\ Len(sets) = 2 /\ sets[1] = a /\ sets[2] = b
  <2> HIDE DEF a, b, C
  <2> QED BY <1>7
<1>9. bases \in Seq(Bases)
  <2>1. bases \in [1 .. 2 -> Bases]
    <3>1. {Absent, Garbage, [absolute |-> TRUE], [absolute |-> FALSE]} \subseteq Bases
      BY DEF Bases
    <3> QED BY <3>1
  <2> QED BY <2>1, ListOf
<1>10. \E i \in 1 .. Len(sets) : sets[i].rates # <<>>
  <2>1. a.rates = r1 /\ b.rates = r2
    OBVIOUS
  <2>2. 1 \in 1 .. 2 /\ 2 \in 1 .. 2
    OBVIOUS
  <2> HIDE DEF a, b, sets
  <2> QED BY <1>1, <1>8, <2>1, <2>2
<1> HIDE DEF stream, runs, sets, C
<1>11. call' = [stream |-> stream, runs |-> runs, last |-> 3, spelled |-> FALSE, open |-> FALSE,
                sets |-> sets, bases |-> bases]
  BY <1>1 DEF stream, runs, sets
<1> QED BY <1>3, <1>4, <1>5, <1>8, <1>9, <1>10, <1>11 DEF IsManifestCall, C

(* Only a call changes what is asked, and each asks what it may.           *)
LEMMA CallInvStep == CallInv /\ [SmallNext]_<<vars, live, small>> => CallInv'
<1>1. SUFFICES ASSUME CallInv, [SmallNext]_<<vars, live, small>> PROVE CallInv'
  OBVIOUS
<1>2. CASE UNCHANGED <<asked, call>>
  BY <1>1, <1>2 DEF CallInv
<1>3. CASE AskRange
  <2>1. HeadersOver(-1 .. 5) \subseteq HeadersOver(Int)
    BY DEF HeadersOver
  <2> QED BY <1>3, <2>1 DEF AskRange, CallInv
<1>4. CASE AskPlaylist \/ AskManifest
  <2>1. asked' = "playlist" /\ IsManifestCall(call')
    BY <1>4, WindowAsked, ManifestAsked DEF AskPlaylist, AskManifest
  <2> QED BY <2>1 DEF CallInv
<1>5. CASE Return
  BY <1>5 DEF Return, CallInv
<1> QED BY <1>1, <1>2, <1>3, <1>4, <1>5, ConfigAsked, CommandAsked, RouteAsked, WrapperAsked DEF SmallNext, small

(* The calls of the specification are among those the lemmas are about.    *)
LEMMA CallsKnown == SmallSpec => []CallInv
<1>1. SmallInit => CallInv
  BY DEF SmallInit, CallInv
<1> QED BY <1>1, CallInvStep, PTL DEF SmallSpec

(* Seeking during the download gets the bytes it would get afterwards, for *)
(* every size and every header (parseSingleRange, serveSparse), and so for *)
(* those that the specification asks about.                                *)
THEOREM RangesAnswered ==
  /\ SmallSpec => []LiveAnswersAsCached
  /\ \A h \in HeadersOver(Int), size \in Nat \ {0} : AnsweredAsAsked(h, size)
<1>1. \A h \in HeadersOver(Int), size \in Nat \ {0} : AnsweredAsAsked(h, size)
  BY WellFormedAnswered, AnswerInFile DEF AnsweredAsAsked
<1>2. CallInv => LiveAnswersAsCached
  BY <1>1 DEF CallInv, LiveAnswersAsCached
<1>3. SmallSpec => []LiveAnswersAsCached
  BY <1>2, CallsKnown, PTL
<1> QED BY <1>1, <1>3

(* A stream is found if there is one; if what yt-dlp says of it is true,   *)
(* it is downloaded exactly if it is a file; a playlist keeps the headers, *)
(* and is re-encoded as its codecs say.  For lists of any length           *)
(* (findStreamURL, classifyEndpoint, decideTranscode).                     *)
THEOREM RoutesFit ==
  /\ SmallSpec => []RouteFits
  /\ \A info, probe : IsInfo(info) => RouteIsFit(info, probe)
<1>1. \A info, probe : IsInfo(info) => RouteIsFit(info, probe)
  BY EveryRouteFits
<1>2. CallInv => RouteFits
  BY <1>1 DEF CallInv, RouteFits
<1>3. SmallSpec => []RouteFits
  BY <1>2, CallsKnown, PTL
<1> QED BY <1>1, <1>3

(* The game finds on stdout what it can read, for any arguments and any    *)
(* time taken (run in src/wrapper/main.go).                                *)
THEOREM CallersServed ==
  /\ SmallSpec => []CallerUnderstands
  /\ \A c : IsWrapperCall(c) => CallerIsServed(c.args, c.server, c.cached, c.info, c.took)
<1>1. \A c : IsWrapperCall(c) => CallerIsServed(c.args, c.server, c.cached, c.info, c.took)
  BY EveryCallerIsServed
<1>2. CallInv => CallerUnderstands
  BY <1>1 DEF CallInv, CallerUnderstands
<1>3. SmallSpec => []CallerUnderstands
  BY <1>2, CallsKnown, PTL
<1> QED BY <1>1, <1>3

(* What is accepted is what was written, and what can be read is accepted, *)
(* with any text in every setting at once and for any width of integers    *)
(* (LoadConfig), and so for the texts that the specification tries.        *)
THEOREM ConfigAsWritten ==
  /\ SmallSpec => []AcceptedAsWritten
  /\ \A env, flag : \A build \in Builds : IsSource(env) /\ IsSource(flag) =>
       AcceptedIsWritten(env, flag, build) /\ ReadableIsAccepted(env, flag, build)
<1>1. \A env, flag : \A build \in Builds : IsSource(env) /\ IsSource(flag) =>
        AcceptedIsWritten(env, flag, build) /\ ReadableIsAccepted(env, flag, build)
  BY EveryConfigIsWritten, EveryReadableIsAccepted
<1>2. CallInv => AcceptedAsWritten
  BY <1>1 DEF CallInv, AcceptedAsWritten
<1>3. SmallSpec => []AcceptedAsWritten
  BY <1>2, CallsKnown, PTL
<1> QED BY <1>1, <1>3

(* ffmpeg can read every command that flags lead to which are no options   *)
(* themselves, and it encodes as they say (openRemux, openTranscode).      *)
THEOREM CommandsWhole ==
  /\ SmallSpec => []CommandWhole
  /\ \A flag, headers :
       IsCommandFlags(flag) /\ headers.agent \notin Options \cup Switches =>
         /\ Accepted(Fill(<<>>), flag, "amd64")
         /\ EncodesAsConfigured(LoadConfig(Fill(<<>>), flag, "amd64"), headers)
<1>1. ASSUME NEW flag, NEW headers, IsCommandFlags(flag), headers.agent \notin Options \cup Switches
      PROVE  /\ Accepted(Fill(<<>>), flag, "amd64")
             /\ EncodesAsConfigured(LoadConfig(Fill(<<>>), flag, "amd64"), headers)
  <2>1. "amd64" \in Builds
    BY DEF Builds
  <2>2. /\ Accepted(Fill(<<>>), flag, "amd64")
        /\ IsCommandConfig(LoadConfig(Fill(<<>>), flag, "amd64"))
    BY <1>1, <2>1, CommandLoaded
  <2> QED BY <1>1, <2>2, EveryCommandIsWhole
<1>2. CallInv => CommandWhole
  BY <1>1 DEF CallInv, CommandWhole
<1>3. SmallSpec => []CommandWhole
  BY <1>2, CallsKnown, PTL
<1> QED BY <1>1, <1>3

(* A live manifest becomes a playlist of the segments it shows, each with  *)
(* the number, time and duration it has in the stream, for every stream,   *)
(* window and way to write it (dashToHLS).                                 *)
THEOREM PlaylistsExact ==
  /\ SmallSpec => []PlaylistExact
  /\ \A c : IsManifestCall(c) =>
       ConvertsWindow(Document(c), "manifest", c.stream, c.runs[1], LastShown(c.runs, c.last, c.open))
<1>1. \A c : IsManifestCall(c) =>
        ConvertsWindow(Document(c), "manifest", c.stream, c.runs[1], LastShown(c.runs, c.last, c.open))
  BY EveryPlaylistIsExact
<1>2. CallInv => PlaylistExact
  BY <1>1 DEF CallInv, PlaylistExact
<1>3. SmallSpec => []PlaylistExact
  BY <1>2, CallsKnown, PTL
<1> QED BY <1>1, <1>3

(***************************************************************************)
(* The file                                                                *)
(***************************************************************************)

(* A behaviour of the parts is one of the sparse file, which the others    *)
(* leave alone; so all that is proved of the file's slices holds here.     *)
THEOREM FileInside == SmallSpec => Spec /\ [](SlicesExact /\ ReservesFreeOffsets /\ QueriesAgree)
<1>1. SmallInit => Init
  BY DEF SmallInit
<1>2. [SmallNext]_<<vars, live, small>> => [Next]_vars
  BY DEF SmallNext, vars
<1>3. SmallSpec => Spec
  BY <1>1, <1>2, PTL DEF SmallSpec, Spec
<1> QED BY <1>3, FileSlicesExact, FileReservesFreeOffsets, FileQueriesAgree, PTL

(***************************************************************************)
(* Links                                                                   *)
(***************************************************************************)

(* A link made at some time until now, under this key or an earlier one.   *)
IsLink(link) ==
  /\ link.at \in Nat /\ link.at <= clock /\ link.expiry = Unix(link.at + TTL)
  /\ link.key \in Nat /\ link.key <= key

LiveInv ==
  /\ clock \in Nat /\ key \in Nat /\ (secret => key = 0)
  /\ IsPlaylist(source)
  /\ manifest # Absent => IsLink(manifest) /\ IsPlaylist(manifest.address)
  /\ \A i \in DOMAIN playlist : IsLink(playlist[i])
  /\ \A link \in refused : IsLink(link) /\ (link.key # key \/ clock > link.at + TTL)
  /\ LinksFit

(* A playlist made of an upstream document fits it.                        *)
LEMMA RewriteFits ==
  ASSUME NEW address, IsPlaylist(address)
  PROVE  LET doc == Upstream(address)
         IN  /\ Len(Rewrite(doc)) = Len(doc) /\ DOMAIN Rewrite(doc) = DOMAIN doc
             /\ \A i \in DOMAIN doc :
                  /\ Rewrite(doc)[i].address = doc[i].address
                  /\ Rewrite(doc)[i].endpoint = "manifest" <=> IsPlaylist(doc[i].address)
                  /\ Rewrite(doc)[i] = Sign(Endpoint(doc[i], doc), doc[i].address, TTL)
<1> DEFINE doc == Upstream(address)
<1>1. CASE address.kind = "master"
  <2>1. doc = <<L("EXT-X-SESSION-KEY", Address("key", 0)), L("EXT-X-MEDIA", Address("audio", 0)),
                L("uri", Address("variant", 0)), L("EXT-X-I-FRAME-STREAM-INF", Address("variant", 1))>>
    BY <1>1 DEF Upstream
  <2>2. IsMaster(doc) /\ Len(doc) = 4 /\ DOMAIN doc = 1 .. 4
    BY <2>1 DEF IsMaster, L, Address
  <2>3. \A i \in 1 .. 4 : Endpoint(doc[i], doc) = "manifest" <=> IsPlaylist(doc[i].address)
    BY <2>1, <2>2 DEF Endpoint, IsPlaylist, L, Address
  <2> HIDE DEF doc
  <2> QED BY <2>2, <2>3 DEF Rewrite, Sign, doc
<1>2. CASE address.kind \in {"variant", "audio"}
  <2>1. doc = <<L("EXT-X-KEY", Address("key", 0)), L("EXT-X-MAP", Address("init", 0)),
                L("uri", Segment(first)), L("uri", Segment(first + 1)),
                L("EXT-X-PRELOAD-HINT", Segment(first + 2))>>
    BY <1>2 DEF Upstream
  <2>2. ~IsMaster(doc) /\ Len(doc) = 5 /\ DOMAIN doc = 1 .. 5
    BY <2>1 DEF IsMaster, L, Address, Segment
  <2>3. \A i \in 1 .. 5 : Endpoint(doc[i], doc) = "manifest" <=> IsPlaylist(doc[i].address)
    BY <2>1, <2>2 DEF Endpoint, IsPlaylist, L, Address, Segment
  <2> HIDE DEF doc
  <2> QED BY <2>2, <2>3 DEF Rewrite, Sign, doc
<1>3. CASE address.kind = "mpd"
  <2>1. doc = <<L("EXT-X-MAP", Address("init", 0)), L("uri", Segment(first)), L("uri", Segment(first + 1))>>
    BY <1>3 DEF Upstream
  <2>2. ~IsMaster(doc) /\ Len(doc) = 3 /\ DOMAIN doc = 1 .. 3
    BY <2>1 DEF IsMaster, L, Address, Segment
  <2>3. \A i \in 1 .. 3 : Endpoint(doc[i], doc) = "manifest" <=> IsPlaylist(doc[i].address)
    BY <2>1, <2>2 DEF Endpoint, IsPlaylist, L, Address, Segment
  <2> HIDE DEF doc
  <2> QED BY <2>2, <2>3 DEF Rewrite, Sign, doc
<1> QED BY <1>1, <1>2, <1>3 DEF IsPlaylist

(* Each step of the player, the stream and the server keeps the links good.*)
LEMMA LiveInvStep == LiveInv /\ [SmallNext]_<<vars, live, small>> => LiveInv'
<1>1. SUFFICES ASSUME LiveInv, [SmallNext]_<<vars, live, small>> PROVE LiveInv'
  OBVIOUS
<1> USE <1>1, LiveAssumption
<1>2. CASE UNCHANGED live
  BY <1>2 DEF LiveInv, live, IsLink, LinksFit
<1>3. CASE GetManifestLink
  <2>1. IsLink(manifest') /\ manifest'.address = source
    BY <1>3 DEF GetManifestLink, LiveInv, Sign, IsLink
  <2> QED BY <1>3, <2>1 DEF GetManifestLink, LiveInv, IsLink, LinksFit, IsPlaylist
<1>4. CASE ServeManifest
  <2> DEFINE doc == Upstream(manifest.address)
  <2>1. CASE Verify(manifest)
    <3>1. playlist' = Rewrite(doc) /\ document' = doc
          /\ UNCHANGED <<clock, secret, key, first, source, manifest, refused>>
      BY <1>4, <2>1 DEF ServeManifest
    <3>2. manifest # Absent /\ IsPlaylist(manifest.address)
      BY <1>4 DEF ServeManifest, LiveInv
    <3> HIDE DEF doc
    <3>3. LinksFit'
      BY <3>1, <3>2, RewriteFits DEF LinksFit, IsPlaylist, doc
    <3>4. \A i \in DOMAIN playlist' : IsLink(playlist'[i])
      <4> TAKE i \in DOMAIN playlist'
      <4>1. playlist'[i] = Sign(Endpoint(doc[i], doc), doc[i].address, TTL)
        BY <3>1, <3>2, RewriteFits DEF doc
      <4>2. clock \in Nat /\ key \in Nat
        BY DEF LiveInv
      <4> QED BY <4>1, <4>2 DEF IsLink, Sign
    <3>5. \A i \in DOMAIN playlist' : IsLink(playlist[i])'
      BY <3>1, <3>4 DEF IsLink
    <3>6. /\ clock' = clock /\ secret' = secret /\ key' = key /\ source' = source
          /\ manifest' = manifest /\ refused' = refused
      BY <3>1
    <3> QED BY <3>3, <3>5, <3>6 DEF LiveInv, IsLink
  <2>2. CASE ~Verify(manifest)
    <3>1. refused' = refused \cup {manifest}
          /\ UNCHANGED <<clock, secret, key, first, source, manifest, playlist, document>>
      BY <1>4, <2>2 DEF ServeManifest
    <3>2. IsLink(manifest) /\ (manifest.key # key \/ clock > manifest.at + TTL)
      BY <1>4, <2>2 DEF ServeManifest, LiveInv, IsLink, Verify, Unix
    <3> QED BY <3>1, <3>2 DEF LiveInv, IsLink, LinksFit
  <2> QED BY <2>1, <2>2
<1>5. ASSUME NEW i \in DOMAIN playlist, ServeSegment(i) PROVE LiveInv'
  <2>1. UNCHANGED <<clock, secret, key, first, source, manifest, playlist, document>>
    BY <1>5 DEF ServeSegment
  <2>2. \A link \in refused' : IsLink(link) /\ (link.key # key \/ clock > link.at + TTL)
    BY <1>5 DEF ServeSegment, LiveInv, IsLink, Verify, Unix
  <2> QED BY <2>1, <2>2 DEF LiveInv, IsLink, LinksFit
<1>6. ASSUME NEW i \in DOMAIN playlist, Follow(i) PROVE LiveInv'
  <2>1. IsPlaylist(playlist[i].address)
    BY <1>6 DEF Follow, LiveInv, LinksFit
  <2> QED BY <1>6, <2>1 DEF Follow, LiveInv, IsLink, LinksFit, IsPlaylist
<1>7. CASE Tick
  BY <1>7 DEF Tick, LiveInv, IsLink, LinksFit
<1>8. CASE Slide
  BY <1>8 DEF Slide, LiveInv, IsLink, LinksFit
<1>9. CASE Restart
  BY <1>9 DEF Restart, LiveInv, IsLink, LinksFit
<1> QED BY <1>2, <1>3, <1>4, <1>5, <1>6, <1>7, <1>8, <1>9 DEF SmallNext, LiveNext

(* A link lives as long as it should, and no player is refused one that    *)
(* does; what a playlist names is reached through the endpoint that fits   *)
(* (URLSigner, rewriteHLSPlaylist), for every lifetime.                    *)
THEOREM LinksHold == SmallSpec => []LinksGood
<1>1. SmallInit => LiveInv
  BY DEF SmallInit, LiveInit, LiveInv, LinksFit, IsPlaylist, Address
<1>2. LiveInv => LinksLast
  BY LiveAssumption DEF LiveInv, LinksLast, Held, IsLink, Verify, Unix
<1>3. LiveInv => LinksGood
  BY <1>2 DEF LiveInv, LinksGood
<1> QED BY <1>1, <1>3, LiveInvStep, PTL DEF SmallSpec
=============================================================================
