------------------------------ MODULE Documents ------------------------------
(***************************************************************************)
(* The life of one stored document: an endpoint is dispatched to a probe,  *)
(* the answer is identified, normalised and stored; a new corpus of        *)
(* signatures is deployed; the enricher puts another hash of the favicon   *)
(* into it; the maintenance commands normalise it or identify it again.    *)
(* Here they run one at a time; ServiceStore lets their statements         *)
(* interleave.                                                             *)
(***************************************************************************)
EXTENDS Fingerprint, ProbeDispatch

CONSTANTS
  Endpoints,     \* what may answer, see ProbeDispatch
  Pages,         \* what an endpoint shows, see Answer
  Corpora        \* sequences of signature files

NotStored == [kind |-> "not stored"]

IsSequence(s) == s \in Seq({s[k] : k \in DOMAIN s})

(* The corpora this is about; the duplicate id of the repository's own is
   a hazard of its own, and only "kind" and "tags" change once stored. *)
ASSUME CorporaAssumption ==
  \A c \in Corpora :
    LET sigs == LoadDir(c)
    IN /\ IsSequence(sigs)
       /\ \A i, j \in DOMAIN sigs : sigs[i].id = sigs[j].id => i = j
       /\ \A i \in DOMAIN sigs :
            /\ sigs[i].name \in Names
            /\ sigs[i].priority \in Nat
            /\ IsSequence(sigs[i].matchers)
            /\ \A k \in DOMAIN sigs[i].matchers :
                 /\ sigs[i].matchers[k].weight \in Nat
                 /\ sigs[i].matchers[k].field = "kind" =>
                      sigs[i].matchers[k].accepts \cap {"http", "https"} = {}

(* The products the probes themselves name. *)
ASSUME ProductAssumption ==
  /\ "mikrotik" \in Words
  /\ \A p \in Pages : p.product \in Names

VARIABLES
  endpoint,      \* the endpoint, which does not change
  page,          \* nor does what it serves
  corpus,        \* the signature files on disk now
  stored,        \* its document, or NotStored
  used,          \* history: the corpus the document was last identified with
  seen           \* history: the favicon hash it had then

vars == <<endpoint, page, corpus, stored, used, seen>>

(* The probes that read a product, and a version, from what they are told. *)
NamesProduct == {"ssh", "ftp", "smtp", "imap", "mysql", "pptp", "sccp", "rtsp"}
NamesVersion == {"ssh", "smtp", "mysql", "pptp", "sccp"}

OwnTags(kind) ==
  CASE kind = "rtsp"                -> {"camera"}
    [] kind \in {"mikrotik", "bgp"} -> {"networking"}
    [] kind = "pop3"                -> {"mail"}
    [] kind = "telnet"              -> {"remote-access"}
    [] kind = "sccp"                -> {"voip"}
    [] OTHER                        -> {}

(* Of an endpoint nothing is known of, the port. *)
PortOnly == [field \in {"port"} |-> Values(page.told, "port")]

(* ServiceData of the dispatcher.  An endpoint shows web to an HTTP request  *)
(* and tells any other probe told, product and version; tech is what its     *)
(* web page shows of technologies, favicon the hash the HTTP probe takes of  *)
(* its icon, and icon the other hash favicon.rs takes of it (each of them    *)
(* {} where there is none).                                                  *)
Answer ==
  LET kind == Dispatch(endpoint)
      http == kind \in {"http", "https"}
  IN [kind |-> kind, confidence |-> -1,
      version |-> IF kind \in NamesVersion THEN page.version ELSE None,
      product |-> CASE kind = "mikrotik"     -> <<"mikrotik">>
                    [] kind \in NamesProduct -> page.product
                    [] OTHER                 -> <<>>,
      tags |-> OwnTags(kind), http |-> http, httpTags |-> {},
      favicon |-> IF http THEN page.favicon ELSE {},
      facts |-> CASE http             -> page.web
                  [] kind = "unknown" -> PortOnly
                  [] OTHER            -> page.told,
      tech |-> page.tech]

(* The answer, had the probe taken that hash of the favicon. *)
Showing(favicon) == [Answer EXCEPT !.favicon = favicon]

Init ==
  /\ endpoint \in Endpoints
  /\ page \in Pages
  /\ corpus \in Corpora
  /\ stored = NotStored
  /\ used = corpus
  /\ seen = {}

(* An error leaves what is stored; so does a firewalled endpoint, which
   upsert_service refuses. *)
Probe ==
  /\ Dispatch(endpoint) \notin {"error", "firewalled"}
  /\ stored' = Document(LoadDir(corpus), Answer)
  /\ used' = corpus
  /\ seen' = Answer.favicon
  /\ UNCHANGED <<endpoint, page, corpus>>

Deploy ==
  /\ corpus' \in Corpora
  /\ UNCHANGED <<endpoint, page, stored, used, seen>>

(* favicon.rs: jsonb_set of http.favicon_hash, and no identification. *)
EnrichFavicon ==
  /\ stored # NotStored
  /\ stored.http
  /\ page.icon # {}
  /\ stored' = [stored EXCEPT !.favicon = page.icon]
  /\ UNCHANGED <<endpoint, page, corpus, used, seen>>

ReidentifyHttp ==
  /\ stored # NotStored
  /\ stored.http
  /\ stored' = Reidentify(LoadDir(corpus), stored)
  /\ used' = corpus
  /\ seen' = stored.favicon
  /\ UNCHANGED <<endpoint, page, corpus>>

Backfill ==
  /\ stored # NotStored
  /\ stored' = NormalizeService(stored)
  /\ UNCHANGED <<endpoint, page, corpus, used, seen>>

Next == Probe \/ Deploy \/ EnrichFavicon \/ ReidentifyHttp \/ Backfill

Spec == Init /\ [][Next]_vars

-----------------------------------------------------------------------------
(* However often the maintenance commands ran, and whatever corpora came    *)
(* and went, the document is what a fresh probe would store, by the two     *)
(* inputs of its last identification: the corpus, and the favicon hash it   *)
(* then had, which may be the enricher's and not the probe's.  Only the     *)
(* hash itself may have changed since, as no enrichment identifies anew.    *)
(* normalize_service settles at once ("Idempotent", src/normalize.rs) and   *)
(* reidentify_http forgets everything an older corpus, or an older hash,    *)
(* left ("stale signature matches are cleared").                            *)
MaintenanceForgets ==
  stored # NotStored =>
    stored = [Document(LoadDir(used), Showing(seen))
                EXCEPT !.favicon = stored.favicon]

(* The product is that of a matching signature none of the others beats in  *)
(* score, nor in priority at the same score, in whatever order the files    *)
(* were listed, on the evidence there was when it was last identified;      *)
(* without a match it is the probe's own, or none.                          *)
BestSignatureWins ==
  stored # NotStored =>
    LET sigs     == LoadDir(used)
        evidence == EvidenceFrom(MergeTech(Showing(seen)))
        Score(i) == Evaluate(sigs[i], evidence).score
        matching == {i \in DOMAIN sigs : Evaluate(sigs[i], evidence).matched}
    IN IF matching = {} THEN stored.product = NormalizeService(Answer).product
       ELSE \E best \in matching :
              /\ stored.product = CanonicalProduct(sigs[best].name)
              /\ \A i \in matching :
                   \/ Score(i) < Score(best)
                   \/ /\ Score(i) = Score(best)
                      /\ sigs[i].priority <= sigs[best].priority

(* Greetings a server of a protocol may send; the text after the reply code *)
(* of the line protocols may contain a prompt, and that of MySQL often does *)
(* not contain its name.                                                    *)
Greetings(protocol) ==
  CASE protocol = "ssh"      -> {{"SSH-"}}
    [] protocol = "ftp"      -> {{"220"}, {"220", "SMTP"}, {"220", "login:"}}
    [] protocol = "imap"     -> {{"*OK"}, {"*OK", "login:"}}
    [] protocol = "pop3"     -> {{"+OK"}, {"+OK", "login:"}}
    [] protocol = "telnet"   -> {{"0xFF"}, {"login:"}, {"0xFF", "login:"}}
    [] protocol = "mysql"    -> {{"0x0a", "MySQL"}, {"0x0a"}}
    [] protocol = "mikrotik" -> {{"btest"}}
    [] OTHER                 -> {{}}

(* The greeting of a server that does not name itself, as MySQL 8 does not. *)
Unnamed(protocol, banner) == protocol = "mysql" /\ "MySQL" \notin banner

(* A server that greets as its protocol does and answers its probe is       *)
(* stored as that kind, whatever else it answers: no other probe takes it   *)
(* away, by its priority, its place in the registry or a looser test, and   *)
(* no HTTP request does.  Where the probe waits for no greeting, the server *)
(* must answer neither HTTP nor a probe that is tried before.  A MySQL      *)
(* server that does not name itself is the exception: it is never stored as *)
(* one (detects_banner of mysql.rs).  Left out are SMTP, whose greetings    *)
(* the FTP probe takes, and a BGP speaker that greets, which the Telnet     *)
(* probe takes.                                                             *)
HonestServerIdentified ==
  \A i \in DOMAIN Probes :
    (/\ Probes[i] # "smtp"
     /\ Probes[i] \in endpoint.answers
     /\ endpoint.banner \in Greetings(Probes[i])
     /\ endpoint.reads /\ ~endpoint.secure
     /\ Probes[i] \in RequiresProbeWithoutBanner =>
          /\ endpoint.schemes = {}
          /\ \A j \in 1..(i - 1) :
               Probes[j] \notin RequiresProbeWithoutBanner \cap endpoint.answers)
    => IF Unnamed(Probes[i], endpoint.banner)
       THEN stored # NotStored => stored.kind # Probes[i]
       ELSE /\ Dispatch(endpoint) = Probes[i]
            /\ stored # NotStored => stored.kind = Probes[i]

=============================================================================
