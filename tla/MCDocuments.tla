----------------------------- MODULE MCDocuments -----------------------------
(* A small instance of Documents for TLC. *)
EXTENDS Documents, TLC

MCLower(s) ==
  CASE s = "Camera" -> "camera"  [] s = "WebMail" -> "webmail"
    [] s = "IIS" -> "iis"        [] s = "Microsoft" -> "microsoft"
    [] s = "Acme" -> "acme"      [] s = "Cam" -> "cam"
    [] s = "NGINX" -> "nginx"    [] s = "WebS" -> "webs"
    [] s = "OpenSSH" -> "openssh" [] OTHER -> s

MCWords == {"Acme", "acme", "Cam", "cam", "IIS", "iis", "Microsoft", "microsoft",
            "OpenSSH", "openssh", "apache", "cloudfront", "gws", "mikrotik",
            "mobotix", "nginx", "tagged", "web"}

MCGarbage == {"device:x"}

MCEndpoints ==
  LET All     == {Probes[i] : i \in DOMAIN Probes}
      Greeted == {<<answers, b>> :
                    answers \in {{p} : p \in All} \cup {{"sccp", "bgp"}, All},
                    b \in UNION {Greetings(p) : p \in All}}
      Mixed   == {<<{}, {}>>, <<{"bgp", "telnet"}, {"0xFF", "bgp"}>>}
  IN {[secure |-> secure, reads |-> reads, banner |-> gb[2],
       answers |-> gb[1], schemes |-> schemes, tls |-> schemes = {}] :
        secure \in BOOLEAN, reads \in BOOLEAN, gb \in Greeted \cup Mixed,
        schemes \in {{}, {"http"}, {"http", "https"}}}

Lib(marker, version) == [marker |-> marker, version |-> version]

Page(title, server, jquery, favicon, product) ==
  [web   |-> [port |-> {"80"}, title |-> {title}],
   told  |-> [port |-> {"80"}, banner |-> {title}],
   favicon |-> favicon, icon |-> {"enricher's"},
   product |-> product, version |-> "9",
   tech  |-> [server  |-> [name |-> server, version |-> "1"],
              powered |-> [name |-> "nginx", version |-> "1"],
              aspnet  |-> FALSE,
              libs    |-> [jQuery |-> jquery, Vue |-> Lib(TRUE, None)]]]

MCPages == {Page("login", "NGINX", Lib(TRUE, None), {"probe's"}, <<>>),
            Page("home", "WebS", Lib(FALSE, "3"), {}, <<"OpenSSH">>)}

Some(field, accepts, weight) ==
  [field |-> field, op |-> "some", accepts |-> accepts, weight |-> weight]
Without(field, accepts, weight) ==
  [field |-> field, op |-> "none", accepts |-> accepts, weight |-> weight]
Exists(field, weight) ==
  [field |-> field, op |-> "exists", accepts |-> {}, weight |-> weight]

Sig(id, name, condition, priority, tags, matchers) ==
  [parses |-> TRUE,
   signature |-> [id |-> id, name |-> name, condition |-> condition,
                  priority |-> priority, tags |-> tags,
                  matchers |-> matchers]]

Broken == [parses |-> FALSE, signature |-> [id |-> "broken"]]

Camera  == Sig("cam", <<"Acme", " ", "/", "-", "Cam">>, "any", 50,
               {"Camera", "device:x"}, <<Some("title", {"login"}, 2)>>)
Iis     == Sig("iis", <<"Microsoft", " ", "IIS">>, "all", 60, {"WebMail"},
               <<Some("title", {"login"}, 1), Without("banner", {"x"}, 1)>>)
Tagged  == Sig("tagged", <<"tagged">>, "any", 90, {},
               <<Some("tags", {"camera", "mail"}, 9), Exists("product", 9)>>)
Nginx   == Sig("nginx", <<"nginx">>, "any", 50, {"php", "nginx"},
               <<Some("http.tags", {<<"NGINX", "1">>, <<"nginx", "1">>}, 1),
                 Some("title", {"home"}, 1)>>)
Iconic  == Sig("iconic", <<"Acme">>, "any", 50, {},
               <<Some("http.favicon_hash", {"enricher's"}, 3),
                 Some("banner", {"login"}, 1)>>)
Default == Sig("default", <<"web">>, "all", 10, {}, <<>>)

MCCorpora ==
  {<<>>, <<Camera, Broken, Iis>>, <<Iis, Camera>>, <<Nginx, Camera, Tagged>>,
   <<Default, Nginx>>, <<Tagged, Iis>>, <<Iconic, Camera>>}

=============================================================================
