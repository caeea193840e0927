---------------------------- MODULE LivePlayback -----------------------------
(***************************************************************************)
(* A player of a live stream and the signed links it lives on (hls.go,     *)
(* token.go): getVideoHandler gives it a link to the manifest, each        *)
(* ServeManifest a playlist of new links to what that manifest names, and  *)
(* every link ends with its lifetime or with the key it was sealed by.     *)
(*                                                                         *)
(* Time passes in halves of a second, for a token's expiry is in seconds.  *)
(***************************************************************************)
EXTENDS Texts, Sequences

CONSTANTS TTL,          \* hlsTokenTTL
          MaxClock, MaxFirst, MaxRestarts   \* bounds on time, on the stream and on restarts

(* A lifetime of a second at least: an expiry of 0 would mean none.        *)
ASSUME LiveAssumption == TTL \in Nat \ {0, 1}

VARIABLES clock,      \* now
          secret,     \* VRCVP_SECRET is set
          key,        \* the signer's: a new one with each restart, unless secret
          first,      \* the upstream's window is the segments first, first + 1
          source,     \* the address yt-dlp found
          manifest,   \* the link that the player refetches
          playlist,   \* the links of the last playlist it was given
          document,   \* the upstream document that playlist was made of
          refused     \* the links that were answered 403

live == <<clock, secret, key, first, source, manifest, playlist, document, refused>>

(* An upstream document, as the lines that matter: bare addresses ("uri")  *)
(* and tags with a URI attribute.  "variant" and "audio" are media         *)
(* playlists; an MPD is converted to one.                                  *)
Address(kind, number) == [kind |-> kind, number |-> number]
Segment(number) == Address("segment", number)
L(tag, address) == [tag |-> tag, address |-> address]

Upstream(address) ==
  CASE address.kind = "master" ->
         <<L("EXT-X-SESSION-KEY", Address("key", 0)), L("EXT-X-MEDIA", Address("audio", 0)),
           L("uri", Address("variant", 0)), L("EXT-X-I-FRAME-STREAM-INF", Address("variant", 1))>>
    [] address.kind \in {"variant", "audio"} ->
         <<L("EXT-X-KEY", Address("key", 0)), L("EXT-X-MAP", Address("init", 0)),
           L("uri", Segment(first)), L("uri", Segment(first + 1)),
           L("EXT-X-PRELOAD-HINT", Segment(first + 2))>>
    [] address.kind = "mpd" ->
         <<L("EXT-X-MAP", Address("init", 0)), L("uri", Segment(first)), L("uri", Segment(first + 1))>>

(* A master playlist is told by its EXT-X-STREAM-INF, which stands before  *)
(* each bare address of a variant.                                         *)
IsMaster(doc) ==
  \E i \in DOMAIN doc : doc[i].tag = "uri" /\ doc[i].address.kind = "variant"

(* A variant with a plausible bug: the second of the expiry is too late.   *)
BugVerify(link) == link.key = key /\ clock < link.expiry * 2

(* Sign and Verify: the expiry is cut to whole seconds, and its second is  *)
(* still good.                                                             *)
Unix(time) == time \div 2
Sign(endpoint, address, ttl) ==
  [endpoint |-> endpoint, address |-> address, key |-> key, at |-> clock,
   expiry |-> IF ttl > 0 THEN Unix(clock + ttl) ELSE 0]
Verify(link) == link.key = key /\ (link.expiry = 0 \/ Unix(clock) <= link.expiry)

(* rewriteHLSPlaylist and rewriteTagLine: which endpoint a line's address  *)
(* is sent to.                                                             *)
Endpoint(line, doc) ==
  IF line.tag \in {"EXT-X-MEDIA", "EXT-X-I-FRAME-STREAM-INF"} \/ (line.tag = "uri" /\ IsMaster(doc))
  THEN "manifest" ELSE "segment"

Rewrite(doc) == [i \in DOMAIN doc |-> Sign(Endpoint(doc[i], doc), doc[i].address, TTL)]

LiveInit ==
  /\ clock = 0 /\ key = 0 /\ first = 1 /\ secret \in BOOLEAN
  /\ source \in {Address(kind, 0) : kind \in {"master", "variant", "mpd"}}
  /\ manifest = Absent /\ playlist = <<>> /\ document = <<>> /\ refused = {}

(* serveLiveManifestMiss.                                                  *)
GetManifestLink ==
  /\ manifest' = Sign("manifest", source, TTL)
  /\ playlist' = <<>> /\ document' = <<>> /\ refused' = {}
  /\ UNCHANGED <<clock, secret, key, first, source>>

ServeManifest ==
  /\ manifest # Absent
  /\ IF Verify(manifest)
     THEN /\ document' = Upstream(manifest.address)
          /\ playlist' = Rewrite(Upstream(manifest.address))
          /\ UNCHANGED refused
     ELSE /\ refused' = refused \cup {manifest}
          /\ UNCHANGED <<document, playlist>>
  /\ UNCHANGED <<clock, secret, key, first, source, manifest>>

ServeSegment(i) ==
  /\ playlist[i].endpoint = "segment"
  /\ refused' = IF Verify(playlist[i]) THEN refused ELSE refused \cup {playlist[i]}
  /\ UNCHANGED <<clock, secret, key, first, source, manifest, playlist, document>>

(* The player goes on to one of a master playlist's renditions.            *)
Follow(i) ==
  /\ playlist[i].endpoint = "manifest"
  /\ manifest' = playlist[i] /\ playlist' = <<>> /\ document' = <<>>
  /\ UNCHANGED <<clock, secret, key, first, source, refused>>

Tick ==
  /\ clock < MaxClock /\ clock' = clock + 1
  /\ UNCHANGED <<secret, key, first, source, manifest, playlist, document, refused>>

Slide ==
  /\ first < MaxFirst /\ first' = first + 1
  /\ UNCHANGED <<clock, secret, key, source, manifest, playlist, document, refused>>

Restart ==
  /\ key < MaxRestarts /\ ~secret /\ key' = key + 1
  /\ UNCHANGED <<clock, secret, first, source, manifest, playlist, document, refused>>

LiveNext ==
  \/ GetManifestLink \/ ServeManifest \/ Tick \/ Slide \/ Restart
  \/ \E i \in DOMAIN playlist : ServeSegment(i) \/ Follow(i)

-----------------------------------------------------------------------------
IsPlaylist(address) == address.kind \in {"master", "variant", "audio", "mpd"}

(* A playlist names what the upstream's document names, in its order, by   *)
(* links of ours: to the endpoint that rewrites for a playlist, to the one *)
(* that passes bytes on for anything else.                                 *)
LinksFit ==
  /\ Len(playlist) = Len(document)
  /\ \A i \in DOMAIN playlist :
       /\ playlist[i].address = document[i].address
       /\ playlist[i].endpoint = "manifest" <=> IsPlaylist(playlist[i].address)

(* Whatever link the player holds opens for its whole lifetime, and not a  *)
(* second longer, under the key it was made with and under no other.  So a *)
(* player is refused only with a link that old or after a restart without  *)
(* a secret; refetching renews the segments' links but not the manifest's, *)
(* which it goes on using.                                                 *)
Held == {playlist[i] : i \in DOMAIN playlist} \cup ({manifest} \ {Absent})

LinksLast ==
  /\ \A link \in Held :
       /\ link.key = key /\ clock <= link.at + TTL => Verify(link)
       /\ link.key # key \/ clock >= link.at + TTL + 2 => ~Verify(link)
  /\ \A link \in refused : link.key # key \/ clock > link.at + TTL
  /\ secret => \A link \in Held : link.key = key
=============================================================================
