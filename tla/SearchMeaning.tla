----------------------------- MODULE SearchMeaning -----------------------------
(***************************************************************************)
(* What a search is to mean: how a tree is written out as a text, which    *)
(* rows a tree means, and which rows Postgres finds with the clause and    *)
(* the parameters of Search.                                               *)
(***************************************************************************)
EXTENDS Search, SequencesExt

CONSTANT Rows   \* the rows a search may meet

-----------------------------------------------------------------------------
(* Writing a tree as a text: a value in quotes where it needs them, quotes  *)
(* and backslashes escaped, parentheses where the grammar needs them.       *)

Quoted(value) ==
  LET Escaped(s, symbol) ==
        s \o (IF symbol \in {Quote, Escape} THEN <<Escape>> ELSE <<>>)
          \o <<symbol>>
  IN <<Quote>> \o FoldLeft(Escaped, <<>>, value) \o <<Quote>>

Plain(value) ==
  /\ value # <<>>
  /\ \A i \in DOMAIN value : value[i] \notin Punctuation
  /\ value \notin {<<k>> : k \in Keywords}

WriteValue(value) == IF Plain(value) THEN value ELSE Quoted(value)

WriteTerm(term) ==
  LET Dotted(s, word) == s \o <<".">> \o word
      key == FoldLeft(Dotted, Head(term.key), Tail(term.key))
      op  == IF term.op = "default" THEN <<>> ELSE <<".", term.op>>
  IN IF term.key = <<>>
     THEN WriteValue(term.value)
     ELSE key \o op \o <<":">> \o WriteValue(term.value)

RECURSIVE Write(_, _)
(* bare: the kinds of node that need no parentheses here *)
Write(node, bare) ==
  LET body ==
        CASE node.is = "filter" -> WriteTerm(node)
          [] node.is = "and" -> Write(node.left, {"and", "not"})
                                \o <<Space>> \o Write(node.right, {"not"})
          [] node.is = "or" -> Write(node.left, {"or", "and", "not"})
                               \o <<Space, "or", Space>>
                               \o Write(node.right, {"and", "not"})
          [] node.is = "not" -> <<"-">> \o Write(node.inner, {})
  IN IF node.is \in bare \cup {"filter"} THEN body
     ELSE <<"(">> \o body \o <<")">>

-----------------------------------------------------------------------------
(* What Postgres answers.  A row (a service joined with its host) has null  *)
(* columns and passes tests <<column, how, value>> on the others; the tests *)
(* that take no parameter are containments in data, which is never null.    *)

AllOf(answers) ==
  CASE "false" \in answers -> "false"
    [] "null" \in answers /\ "false" \notin answers -> "null"
    [] OTHER -> "true"

AnyOf(answers) ==
  CASE "true" \in answers -> "true"
    [] "null" \in answers /\ "true" \notin answers -> "null"
    [] OTHER -> "false"

Opposite == [true |-> "false", false |-> "true", null |-> "null"]

(* A clause as Postgres reads it: alternatives (OR), each of them tests      *)
(* (AND).  open holds what has been read inside each open parenthesis.       *)
ReadSql(where) ==
  LET Add(open, test) ==
        Front(open) \o <<Front(Last(open)) \o <<Append(Last(Last(open)), test)>>>>
      Read(open, word) ==
        CASE word.is = "("   -> Append(open, <<<<>>>>)
          [] word.is = ")"   -> Add(Front(open), [is |-> "group", of |-> Last(open)])
          [] word.is = "or"  -> Front(open) \o <<Append(Last(open), <<>>)>>
          [] word.is = "and" -> open
          [] word.is \in {"test", "false", "not"} -> Add(open, word)
  IN Head(FoldLeft(Read, <<<<<<>>>>>>, where))

RECURSIVE Evaluate(_, _, _)
Evaluate(sql, params, row) ==
  LET Answer(test) ==
        CASE test.is = "false" -> "false"
          [] test.is = "group" -> Evaluate(test.of, params, row)
          [] test.is = "test" ->
               LET value == IF test.param = 0 THEN test.literal
                            ELSE params[test.param]
               IN CASE test.col \in row.null ->
                         IF test.param = 0 THEN "false" ELSE "null"
                    [] <<test.col, test.how, value>> \in row.passes -> "true"
                    [] OTHER -> "false"
      Signed(tests, i) ==
        IF i > 1 /\ tests[i - 1].is = "not" THEN Opposite[Answer(tests[i])]
        ELSE Answer(tests[i])
      Every(tests) ==
        AllOf({Signed(tests, i) : i \in {i \in DOMAIN tests : tests[i].is # "not"}})
  IN AnyOf({Every(sql[i]) : i \in DOMAIN sql})

(* compile_port compares with $n::int: the statement fails when what is bound
   there is no number. *)
Fails(asked) ==
  \E i \in DOMAIN asked.where :
    /\ asked.where[i].is = "test" /\ asked.where[i].col = PortColumn
    /\ asked.params[asked.where[i].param] \notin PortNumber

(* A query as Postgres takes it. *)
Asked(asked) ==
  [sql |-> ReadSql(asked.where), params |-> asked.params, fails |-> Fails(asked)]

(* build_search_query and fetch_service_rows, without the limit of 100: a
   statement that fails finds nothing. *)
Found(asked, row) ==
  /\ ~ asked.fails
  /\ asked.sql = <<<<>>>> \/ Evaluate(asked.sql, asked.params, row) = "true"

-----------------------------------------------------------------------------
(* What a tree means, whatever it is compiled to.                           *)

Holds(term, row) ==
  LET Passes(col, how, value) ==
        col \notin row.null /\ <<col, how, value>> \in row.passes
      kind == ClassifyFilter(term)
  IN CASE term = EmptyTerm    -> TRUE
       [] kind = "fulltext" /\ term # EmptyTerm ->
            \E col \in Range(FullTextFields) : Passes(col, "icontains", term.value)
       [] kind = "tag"        -> Passes(Tags, "has", term.value)
       [] kind = "port"       -> Passes(PortColumn, "equals", term.value)
       [] kind = "country"    ->
            Passes(CountryColumn, "equals", Upper(term.value))
       [] kind = "jsoncontains" -> Passes(term.key, "holds", term.value)
       [] kind = "jsontext"   -> Passes(term.key, term.op, term.value)

(* A node that sets no condition; a NOT of one sets none either. *)
RECURSIVE Vacuous(_)
Vacuous(node) ==
  CASE node.is = "filter" -> node = EmptyTerm
    [] node.is = "and" -> Vacuous(node.left) /\ Vacuous(node.right)
    [] node.is = "or"  -> Vacuous(node.left) \/ Vacuous(node.right)
    [] node.is = "not" -> Vacuous(node.inner)

RECURSIVE Means(_, _)
Means(node, row) ==
  CASE node.is = "filter" -> Holds(node, row)
    [] node.is = "and" -> Means(node.left, row) /\ Means(node.right, row)
    [] node.is = "or"  -> Means(node.left, row) \/ Means(node.right, row)
    [] node.is = "not" -> Vacuous(node.inner) \/ ~ Means(node.inner, row)

(* How many parameters a node binds. *)
RECURSIVE Binds(_)
Binds(node) ==
  CASE Vacuous(node) -> 0
    [] node.is = "filter" /\ node # EmptyTerm ->
         IF \/ ClassifyFilter(node) \in {"tag", "jsoncontains"}
            \/ ClassifyFilter(node) = "port" /\ node.value \notin PortNumber
         THEN 0 ELSE 1
    [] node.is \in {"and", "or"} /\ ~ Vacuous(node) ->
         Binds(node.left) + Binds(node.right)
    [] node.is = "not" /\ ~ Vacuous(node) -> Binds(node.inner)

(* Every placeholder is the index its parameter ends up at: numbering starts
   again at 1 on each side of an OR and under a NOT (local), while the
   parameters are appended to those already bound (overall). *)
RECURSIVE Numbered(_, _, _)
Numbered(node, local, overall) ==
  CASE node.is = "filter" -> Binds(node) = 0 \/ local = overall
    [] node.is = "and" ->
         /\ Numbered(node.left, local, overall)
         /\ Numbered(node.right, local + Binds(node.left),
                                 overall + Binds(node.left))
    [] node.is = "or" -> /\ Numbered(node.left, 0, overall)
                         /\ Numbered(node.right, 0, overall + Binds(node.left))
    [] node.is = "not" -> Numbered(node.inner, 0, overall)

RECURSIVE Conjuncts(_)
Conjuncts(node) ==
  CASE node.is = "and" -> Conjuncts(node.left) \o Conjuncts(node.right)
    [] node.is # "and" -> IF Vacuous(node) THEN <<>> ELSE <<node>>

(* No bare word shares its conjunction with another condition: its chain of
   OR is not parenthesised.  *)
RECURSIVE Separate(_)
Separate(node) ==
  LET factors == Conjuncts(node)
      Bare(n) == n.is = "filter" /\ ClassifyFilter(n) = "fulltext"
  IN /\ Len(factors) > 1 => \A i \in DOMAIN factors : ~ Bare(factors[i])
     /\ \A i \in DOMAIN factors :
          CASE factors[i].is = "or" -> /\ Separate(factors[i].left)
                                       /\ Separate(factors[i].right)
            [] factors[i].is = "not" -> Separate(factors[i].inner)
            [] factors[i].is = "filter" -> TRUE

RECURSIVE Negates(_)
Negates(node) ==
  CASE node.is = "filter" -> FALSE
    [] node.is = "not" -> TRUE
    [] node.is \in {"and", "or"} -> Negates(node.left) \/ Negates(node.right)

(* A filter whose key, tag or JSON value holds an apostrophe. *)
RECURSIVE Splices(_)
Splices(node) ==
  CASE node.is = "filter" -> EndsLiteral(node)
    [] node.is = "not" -> Splices(node.inner)
    [] node.is \in {"and", "or"} -> Splices(node.left) \/ Splices(node.right)

-----------------------------------------------------------------------------
(* The clause finds the rows the tree means, as long as every placeholder
   still has its number when the parameters of an OR or a NOT are appended, no
   apostrophe ends a literal, and no NOT meets a null column.  A bare word that
   shares its conjunction with other conditions weakens them, as its chain of
   OR is not parenthesised: the clause then finds too many rows, but none is
   missed (without a NOT, which turns too many into too few). *)
CompiledMeansParsed ==
  ( /\ stage = "compiled"
    /\ intended # Unknown
    /\ Numbered(tree, 0, 0)
    /\ ~ Splices(tree) )
  => LET asked    == Asked(query)
         negates  == Negates(tree)
         separate == Separate(tree)
     IN \A row \in Rows :
          \/ negates /\ (row.null # {} \/ ~ separate)
          \/ /\ Means(tree, row) => Found(asked, row)
             /\ separate => (Found(asked, row) => Means(tree, row))

(* What PLAN.md promises of every query: "port:443" in it is the condition
   port = 443, wherever it stands. *)
QueryMeansParsed ==
  stage = "compiled" /\ intended # Unknown =>
    LET asked == Asked(query)
    IN \A row \in Rows : Found(asked, row) <=> Means(tree, row)

===============================================================================
