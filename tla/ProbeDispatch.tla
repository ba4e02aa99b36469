---------------------------- MODULE ProbeDispatch ----------------------------
(***************************************************************************)
(* The banner-first dispatcher of crates/scanerr-protocol/src/engine.rs:   *)
(* which probe an endpoint is given to, and the kind its answer gets.      *)
(*                                                                         *)
(* An endpoint is [secure, reads, banner, answers, schemes, tls]: whether  *)
(* its port is 443 or 8443; whether read_banner connects and reads without *)
(* an error; what it greets with, as a set of traits, empty if it waits    *)
(* for the client; the protocols whose probe it answers; the schemes       *)
(* ("http", "https") an HTTP request succeeds with; and whether a TLS      *)
(* handshake alone does.                                                   *)
(***************************************************************************)
EXTENDS Integers, Sequences

(* The probes in the order of the registry. *)
Probes == <<"ssh", "ftp", "smtp", "imap", "pop3", "telnet", "mysql", "pptp",
            "mqtt", "sccp", "mikrotik", "rtsp", "bgp">>

RequiresProbeWithoutBanner == {"ssh", "pptp", "mqtt", "sccp", "rtsp", "bgp"}

ProbePriority(protocol) ==
  CASE protocol = "ssh"                                -> 100
    [] protocol \in {"ftp", "smtp"}                    -> 90
    [] protocol \in {"imap", "pop3", "telnet", "mysql"} -> 80
    [] protocol \in {"mikrotik", "rtsp"}               -> 70
    [] protocol \in {"pptp", "mqtt", "sccp"}           -> 60
    [] protocol = "bgp"                                -> 50

(***************************************************************************)
(* The traits of a greeting the probes look at: how it starts ("220",      *)
(* an asterisk and OK, "+OK", "SSH-", the byte 0xFF, the four bytes of a   *)
(* bandwidth test, the packet header of a MySQL handshake, "0x0a") and     *)
(* what it contains ("SMTP", a login prompt, the name of MySQL or MariaDB, *)
(* the marker of a BGP message).                                           *)
(***************************************************************************)
DetectsSsh(banner)      == "SSH-" \in banner
DetectsFtp(banner)      == "220" \in banner
DetectsSmtp(banner)     == {"220", "SMTP"} \subseteq banner
DetectsImap(banner)     == "*OK" \in banner
DetectsPop3(banner)     == "+OK" \in banner
DetectsTelnet(banner)   == {"0xFF", "login:"} \cap banner # {}
DetectsMysql(banner)    == {"0x0a", "MySQL"} \subseteq banner
DetectsMikrotik(banner) == "btest" \in banner
DetectsBgp(banner)      == "bgp" \in banner

DetectsBanner(protocol, banner) ==
  CASE protocol = "ssh"      -> DetectsSsh(banner)
    [] protocol = "ftp"      -> DetectsFtp(banner)
    [] protocol = "smtp"     -> DetectsSmtp(banner)
    [] protocol = "imap"     -> DetectsImap(banner)
    [] protocol = "pop3"     -> DetectsPop3(banner)
    [] protocol = "telnet"   -> DetectsTelnet(banner)
    [] protocol = "mysql"    -> DetectsMysql(banner)
    [] protocol = "mikrotik" -> DetectsMikrotik(banner)
    [] protocol = "bgp"      -> DetectsBgp(banner)
    [] OTHER                 -> FALSE

Detects(banner) ==
  {i \in DOMAIN Probes :
     /\ Probes[i] \notin RequiresProbeWithoutBanner
     /\ DetectsBanner(Probes[i], banner)}

(* The highest priority; among equals, the first of the registry. *)
BestProbeLast(banner) ==
  {Probes[i] : i \in {i \in Detects(banner) : \A j \in Detects(banner) :
     \/ ProbePriority(Probes[i]) > ProbePriority(Probes[j])
     \/ ProbePriority(Probes[i]) = ProbePriority(Probes[j]) /\ i >= j}}

BestProbe(banner) ==
  {Probes[i] : i \in {i \in Detects(banner) : \A j \in Detects(banner) :
     \/ ProbePriority(Probes[i]) > ProbePriority(Probes[j])
     \/ ProbePriority(Probes[i]) = ProbePriority(Probes[j]) /\ i <= j}}

(* The kind of try_http_fallback's answer.  Without HTTP there is TLS, or
   nothing, and dispatch takes neither: they carry no product and no http. *)
TryHttpFallback(endpoint) ==
  LET first  == IF endpoint.secure THEN "https" ELSE "http"
      second == IF endpoint.secure THEN "http" ELSE "https"
  IN CASE first \in endpoint.schemes -> first
       [] first \notin endpoint.schemes /\ second \in endpoint.schemes -> second
       [] endpoint.schemes = {} /\ endpoint.tls -> "tls"
       [] endpoint.schemes = {} /\ ~endpoint.tls -> "unknown"

(* The first probe that needs no banner and is answered. *)
Unprompted(endpoint) ==
  {p \in RequiresProbeWithoutBanner \cap endpoint.answers :
     \E i \in DOMAIN Probes :
       /\ Probes[i] = p
       /\ \A j \in 1..(i - 1) :
            Probes[j] \notin RequiresProbeWithoutBanner \cap endpoint.answers}

(* The kind stored, or "error": the probe a greeting chose is the last word. *)
Dispatch(endpoint) ==
  LET banner   == IF endpoint.secure THEN {} ELSE endpoint.banner
      best     == BestProbe(banner)
      fallback == TryHttpFallback(endpoint)
      probed   == Unprompted(endpoint)
  IN CASE ~endpoint.secure /\ ~endpoint.reads -> "firewalled"
       [] (endpoint.secure \/ endpoint.reads) /\ best # {} ->
            IF best \subseteq endpoint.answers
            THEN CHOOSE p \in best : TRUE ELSE "error"
       [] (endpoint.secure \/ endpoint.reads) /\ best = {} ->
            IF fallback \in {"http", "https"} THEN fallback
            ELSE IF probed # {} THEN CHOOSE p \in probed : TRUE
            ELSE "unknown"

=============================================================================
