------------------------------ MODULE Normalize ------------------------------
(***************************************************************************)
(* The canonical form of a service document (src/normalize.rs): the kind,  *)
(* the product slug and the category tags.  Every probe goes through it,   *)
(* and so does, once more, every document the maintenance commands touch.  *)
(*                                                                         *)
(* Tags are compared and stored as sets: the program sorts them.  A        *)
(* product name is a sequence of symbols: runs of letters and digits, and  *)
(* single characters between them.                                         *)
(***************************************************************************)
EXTENDS Integers, Sequences

CONSTANTS
  Lower(_),     \* lower case of a tag or of a run of letters
  Words,        \* the runs of letters and digits products are named with
  Garbage       \* lower-case tags with a device: or firmware: prefix, or with
                \* control characters

-----------------------------------------------------------------------------
(* Kinds *)

CanonicalKind(kind) == IF kind \in {"https", "camera"} THEN "http" ELSE kind

(* The base category of a kind, if it has one. *)
KindCategory(kind) ==
  CASE kind = "http"                      -> {"web"}
    [] kind \in {"ssh", "telnet"}         -> {"remote-access"}
    [] kind = "ftp"                       -> {"file-transfer"}
    [] kind \in {"smtp", "imap", "pop3"}  -> {"mail"}
    [] kind = "mysql"                     -> {"database"}
    [] kind = "mqtt"                      -> {"iot"}
    [] kind = "pptp"                      -> {"vpn"}
    [] kind = "sccp"                      -> {"voip"}
    [] kind \in {"mikrotik", "bgp"}       -> {"networking"}
    [] kind = "rtsp"                      -> {"camera"}
    [] OTHER                              -> {}

-----------------------------------------------------------------------------
(* Products *)

Space == " "

(* The overrides that differ from the slug of the name. *)
Override ==
  {<<<<"Apache", Space, "httpd">>, <<"apache">>>>,
   <<<<"Microsoft", Space, "IIS">>, <<"iis">>>>,
   <<<<"MikroTik", Space, "RouterOS">>, <<"mikrotik">>>>,
   <<<<"MikroTik", Space, "EQUINIX", Space, "SO1", Space, "CORE">>, <<"mikrotik">>>>,
   <<<<"Google", Space, "Web", Space, "Server">>, <<"gws">>>>,
   <<<<"Amazon", Space, "CloudFront">>, <<"cloudfront">>>>,
   <<<<"MOBOTIX", Space, "Camera">>, <<"mobotix">>>>}

Blank == {Space, "_", "-"}

Dropped == {"/", ".", "(", ")"}

(* to_ascii_lowercase keeps a run of letters and digits one, and has nothing
   left to do the second time; the overrides' slugs are in lower case. *)
ASSUME WordAssumption ==
  /\ Words \cap (Blank \cup Dropped) = {}
  /\ \A word \in Words : Lower(word) \in Words /\ Lower(Lower(word)) = Lower(word)
  /\ \A rule \in Override : \A k \in DOMAIN rule[2] :
       rule[2][k] \in Words /\ Lower(rule[2][k]) = rule[2][k]

Names == Seq(Words \cup Blank \cup Dropped)

EndsWithDash(s) == s # <<>> /\ s[Len(s)] = "-"

(* One character of the loop of slugify. *)
SlugStep(done, char) ==
  CASE char \in Dropped -> done
    [] char \in Blank   ->
         IF done.dash \/ EndsWithDash(done.out) THEN done
         ELSE [out |-> Append(done.out, "-"), dash |-> TRUE]
    [] char \notin Dropped \cup Blank ->
         [out |-> Append(done.out, Lower(char)), dash |-> FALSE]

(* trim_matches('-') *)
Trim(s) ==
  LET kept == {i \in DOMAIN s : s[i] # "-"}
  IN IF kept = {} THEN <<>>
     ELSE SubSeq(s, CHOOSE i \in kept : \A j \in kept : i <= j,
                    CHOOSE i \in kept : \A j \in kept : i >= j)

(* The loop of slugify: what it has after each of the characters. *)
Slugging(name) ==
  LET done[i \in 0..Len(name)] ==
        IF i = 0 THEN [out |-> <<>>, dash |-> FALSE]
        ELSE SlugStep(done[i - 1], name[i])
  IN done

Slugify(name) == Trim(Slugging(name)[Len(name)].out)

CanonicalProduct(name) ==
  IF \E rule \in Override : rule[1] = name
  THEN (CHOOSE rule \in Override : rule[1] = name)[2]
  ELSE Slugify(name)

-----------------------------------------------------------------------------
(* Tags *)

AllowedTags ==
  {"web", "mail", "camera", "surveillance", "iot", "networking", "vpn",
   "security", "monitoring", "remote-access", "file-transfer", "database",
   "voip", "erp", "cms", "cdn", "waf", "proxy", "storage", "cloud", "hosting",
   "self-hosted", "media", "streaming", "conferencing", "gaming", "rss",
   "analytics", "development", "framework", "php", "javascript", "government",
   "pki", "isp", "billing", "helpdesk", "ticketing", "dashboard",
   "api-gateway", "reverse-proxy", "discovery", "gps", "tracking",
   "fleet-management", "mesh", "power", "solar", "inverter", "smart-home",
   "home-assistant", "embedded", "accounting", "email", "control-panel",
   "router"}

(* Lower case leaves an allowed tag alone, and none of them is garbage. *)
ASSUME TagAssumption ==
  \A tag \in AllowedTags : Lower(tag) = tag /\ tag \notin Garbage

ProductTags == {"nginx", "openresty", "nvr", "dvr", "ubiquiti", "unifi",
                "mikrotik", "dropbear", "cisco", "btest"}

Alias(tag) ==
  CASE tag \in {"email", "webmail"}                        -> "mail"
    [] tag \in {"routing", "routeros"}                     -> "networking"
    [] tag = "logger"                                      -> "power"
    [] tag \in {"bigbluebutton", "greenlight"}             -> "conferencing"
    [] tag = "minecraft"                                   -> "gaming"
    [] tag \in {"aws", "amazon"}                           -> "cloud"
    [] tag = "video"                                       -> "media"
    [] tag \in {"tracking", "gps", "fleet-management"}     -> "tracking"
    [] OTHER                                               -> tag

(* The canonical tag of a raw one, as a set of at most one. *)
CanonicalTag(raw) ==
  IF Lower(raw) \in Garbage \cup ProductTags THEN {}
  ELSE {Alias(Lower(raw))} \cap AllowedTags

NormalizeTags(kind, tags) ==
  KindCategory(CanonicalKind(kind)) \cup UNION {CanonicalTag(t) : t \in tags}

NormalizeService(data) ==
  [data EXCEPT !.kind = CanonicalKind(@),
               !.product = IF @ = <<>> THEN @ ELSE CanonicalProduct(@),
               !.tags = NormalizeTags(CanonicalKind(data.kind), @)]

=============================================================================
