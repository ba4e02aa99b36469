------------------------------- MODULE MCSearch -------------------------------
(* Small instances of Search for TLC. *)
EXTENDS SearchMeaning

MCPortNumber == {<<"80">>, <<"443">>}
MCUpper(value) == IF value = <<"de">> THEN <<"DE">> ELSE value

Title     == <<<<"http">>, <<"title">>>>
Camera    == Term(<<<<"tag">>>>, "default", <<"camera">>)
Bens      == Term(<<<<"tag">>>>, "default", <<"ben", Apostrophe, "s">>)
Bens_     == Term(<<>>, "default", <<"ben", Apostrophe, "s">>)
Port(p)   == Term(<<<<"port">>>>, "default", <<p>>)
Country   == Term(<<<<"country">>>>, "default", <<"de">>)
Titled    == Term(Title, "contains", <<"a", Quote, Space, Escape>>)
Nginx     == Term(<<>>, "default", <<"nginx">>)
Or_       == Term(<<>>, "default", <<"or">>)
Ssh       == Term(<<<<"kind">>>>, "default", <<"ssh">>)

MCTerms == {Camera, Port("80"), Port("x"), Country, Titled, Nginx, Or_, Ssh,
            Bens, Bens_, EmptyTerm}

(* The trees of up to two operators, and some of three, over the terms. *)
Joined(lefts, rights) ==
  UNION {{And(l, r), Or(l, r)} : l \in lefts, r \in rights}
OneDeep(terms) ==
  terms \cup Joined(terms, terms) \cup {Not(t) : t \in terms}
TwoDeep(terms) ==
  OneDeep(terms) \cup Joined(OneDeep(terms), terms)
    \cup Joined(terms, OneDeep(terms)) \cup {Not(t) : t \in OneDeep(terms)}

MCWritten(t) == Write(t, {"or", "and", "not"})
MCTrees == TwoDeep(MCTerms)
MCPortTrees == TwoDeep({Port("80"), Port("443")})

(* All the texts of up to five symbols. *)
MCTexts == UNION {[1..n -> {"a", "or", "and", "-", "(", ")", Space, ":",
                     Apostrophe}] :
                    n \in 0..5}

Row(null, passes) == [null |-> null, passes |-> passes]

(* A service on one port, of a host in some country or in none that is known,
   that has a page title or none. *)
MCRows ==
  LET On(p)   == <<PortColumn, "equals", <<p>>>>
      Tagged  == <<Tags, "has", <<"camera">>>>
      German  == <<CountryColumn, "equals", <<"DE">>>>
      Title_  == <<Title, "contains", Titled.value>>
      Banner  == <<FullTextFields[1], "icontains", <<"nginx">>>>
      Kind    == <<FullTextFields[6], "icontains", <<"nginx">>>>
      Bens__  == <<FullTextFields[1], "icontains", Bens_.value>>
      IsSsh   == <<<<<<"kind">>>>, "holds", <<"ssh">>>>
      Columns == {CountryColumn, Title}
  IN {Row(null, {On(p)} \cup {t \in some : t[1] \notin null}) :
        null \in SUBSET Columns, p \in {"80", "443"},
        some \in SUBSET {Tagged, German, Title_, Banner, Kind}}
     \cup {Row({}, {On("80"), IsSsh, Bens__}), Row({Title}, {On("443"), IsSsh})}

=============================================================================
