----------------------------- MODULE Fingerprint -----------------------------
(***************************************************************************)
(* What makes a probe's answer a stored document: technology detection,    *)
(* the fingerprint engine of crates/scanerr-fingerprint and normalisation, *)
(* as probe of src/probe/dispatch.rs chains them; and reidentify_http,     *)
(* which does it again from a stored document.                             *)
(*                                                                         *)
(* A document has kind, product (<<>> when None), version (None),          *)
(* confidence (None is -1), tags, http (whether it has an http part),      *)
(* httpTags, tech (what its headers and body tell about technologies),     *)
(* favicon (the hash of http.favicon_hash, as a set of at most one) and    *)
(* facts: the rest of it, flattened to field -> set of values, which       *)
(* nothing here changes.                                                   *)
(***************************************************************************)
EXTENDS Normalize, FiniteSetsExt

None == ""

-----------------------------------------------------------------------------
(* Signature files.  A file is [parses, signature], in the unspecified     *)
(* order read_dir lists them; those that do not parse are skipped.         *)

Valid(file) == file.parses

LoadDir(files) ==
  LET kept == SelectSeq(files, Valid)
  IN [i \in DOMAIN kept |-> kept[i].signature]

(***************************************************************************)
(* A matcher is [field, op, accepts, weight].  The fourteen operators are  *)
(* three: "some" value passes the test, "none" does, or one "exists".  The *)
(* test itself, a comparison, a search or a hash, is the set of values it  *)
(* accepts; a regular expression that does not compile accepts none.       *)
(***************************************************************************)
Matches(m, values) ==
  CASE m.op = "some"   -> values \cap m.accepts # {}
    [] m.op = "none"   -> values \cap m.accepts = {}
    [] m.op = "exists" -> values # {}

Values(evidence, field) ==
  IF field \in DOMAIN evidence THEN evidence[field] ELSE {}

Present(value) == IF value = None THEN {} ELSE {value}

(* Evidence::from: the flat view of a document that matchers look at. *)
EvidenceFrom(data) ==
  LET own == [kind    |-> {data.kind},
              product |-> IF data.product = <<>> THEN {} ELSE {data.product},
              version |-> Present(data.version),
              tags    |-> data.tags]
      Http(values) == IF data.http THEN values ELSE {}
      parts == {"http.tags", "http.favicon_hash"}
  IN [field \in DOMAIN data.facts \cup DOMAIN own \cup parts |->
        CASE field \in DOMAIN own         -> own[field]
          [] field = "http.tags"         -> Http(data.httpTags)
          [] field = "http.favicon_hash" -> Http(data.favicon)
          [] OTHER                       -> data.facts[field]]

-----------------------------------------------------------------------------
(* Scores *)

(* The loop over the matchers: the weight of the hits among the first of them. *)
Weighing(sig, hits) ==
  LET sum[i \in 0..Len(sig.matchers)] ==
        IF i = 0 THEN 0
        ELSE sum[i - 1] + (IF i \in hits THEN sig.matchers[i].weight ELSE 0)
  IN sum

TotalWeight(sig, hits) == Weighing(sig, hits)[Len(sig.matchers)]

BestWeight(sig, hits) == Max({0} \cup {sig.matchers[i].weight : i \in hits})

(* Rounded down; the program computes in f64, one less in a few cases such
   as 29 of 100, which no comparison depends on. *)
Percent(part, whole) == IF whole = 0 THEN 0 ELSE (100 * part) \div whole

Hits(sig, evidence) ==
  {i \in DOMAIN sig.matchers :
     Matches(sig.matchers[i], Values(evidence, sig.matchers[i].field))}

(* A signature without matchers matches everything under "all". *)
Evaluate(sig, evidence) ==
  LET all  == DOMAIN sig.matchers
      hits == Hits(sig, evidence)
      matched == IF sig.condition = "any" THEN hits # {} ELSE hits = all
  IN [id |-> sig.id, matched |-> matched, score |-> TotalWeight(sig, hits),
      confidence |->
        CASE ~matched -> 0
          [] matched /\ sig.condition = "any" ->
               Percent(BestWeight(sig, hits), BestWeight(sig, all))
          [] matched /\ sig.condition = "all" ->
               Percent(TotalWeight(sig, hits), TotalWeight(sig, all))]

(* find(|s| s.id == id): the first signature of that name *)
FirstNamed(sigs, id) ==
  sigs[CHOOSE i \in DOMAIN sigs :
         /\ sigs[i].id = id
         /\ \A j \in 1..(i - 1) : sigs[j].id # id]

BetterByScore(sigs, result, best) ==
  best = <<>> \/ result.score > best[1].score

Better(sigs, result, best) ==
  \/ best = <<>>
  \/ result.score > best[1].score
  \/ /\ result.score = best[1].score
     /\ FirstNamed(sigs, result.id).priority
          > FirstNamed(sigs, best[1].id).priority

Consider(sigs, best, result) ==
  IF result.matched /\ Better(sigs, result, best) THEN <<result>> ELSE best

(* The loop of resolve: the best match among the first of the results, as a
   sequence of at most one. *)
Resolving(sigs, results) ==
  LET best[i \in 0..Len(sigs)] ==
        IF i = 0 THEN <<>> ELSE Consider(sigs, best[i - 1], results[i])
  IN best

Resolve(sigs, evidence) ==
  Resolving(sigs, [i \in DOMAIN sigs |-> Evaluate(sigs[i], evidence)])[Len(sigs)]

(* The engine never sets a version; tags are merged ignoring case. *)
Merge(tags, new) ==
  tags \cup {tag \in new : \A old \in tags : Lower(old) # Lower(tag)}

Identify(sigs, data) ==
  LET best == Resolve(sigs, EvidenceFrom(data))
      sig  == FirstNamed(sigs, best[1].id)
  IN IF best = <<>> THEN data
     ELSE [data EXCEPT !.product = sig.name,
                       !.confidence = best[1].confidence,
                       !.tags = Merge(@, sig.tags)]

-----------------------------------------------------------------------------
(***************************************************************************)
(* Technology tags, <<name, version>>, from tech = [server, powered,       *)
(* aspnet, libs]: the first two are [name, version] of a header, libs maps *)
(* a library to [marker, version]: whether the body names one of its       *)
(* files, and the version found beside its name.                           *)
(***************************************************************************)
GenericServers == {"webs", "httpd", "web", "server"}

SameTag(old, tag) == Lower(old[1]) = Lower(tag[1]) /\ Lower(old[2]) = Lower(tag[2])

(* Pushes tags that differ among themselves. *)
PushUnique(out, tags) ==
  out \cup {tag \in tags : \A old \in out : ~SameTag(old, tag)}

HeaderTag(header) ==
  IF header.name = None THEN {} ELSE {<<header.name, header.version>>}

ParseServerHeader(header) ==
  IF Lower(header.name) \in GenericServers THEN {} ELSE HeaderTag(header)

(* jQuery is reported with a version only. *)
DetectVersionsFromBody(libs) ==
  {<<lib, libs[lib].version>> :
     lib \in {l \in DOMAIN libs : IF l = "jQuery" THEN libs[l].version # None
                                  ELSE libs[l].marker}}

(* Detect, and the loop that pushes what it returns: of tags that differ in
   case only, the one the document had, or else the first found, stays. *)
Detect(out, tech) ==
  LET server  == PushUnique(out, ParseServerHeader(tech.server))
      powered == PushUnique(server, HeaderTag(tech.powered))
      aspnet  == PushUnique(powered,
                            IF tech.aspnet THEN {<<"ASP.NET", None>>} ELSE {})
  IN PushUnique(aspnet, DetectVersionsFromBody(tech.libs))

MergeTech(data) ==
  IF data.http THEN [data EXCEPT !.httpTags = Detect(@, data.tech)] ELSE data

-----------------------------------------------------------------------------
(* probe (and probe_standalone), from the answer of the dispatcher on. *)
Document(sigs, data) ==
  NormalizeService(Identify(sigs, MergeTech(data)))

ResetKeepsTags(data) ==
  [data EXCEPT !.product = <<>>, !.version = None, !.confidence = -1]

Reset(data) ==
  [data EXCEPT !.product = <<>>, !.version = None, !.confidence = -1,
               !.tags = {}]

(* reidentify_http, for one row; others are not selected. *)
Reidentify(sigs, data) ==
  IF data.http
  THEN NormalizeService(Identify(sigs, MergeTech(Reset(data))))
  ELSE data

=============================================================================
