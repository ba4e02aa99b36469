-------------------------------- MODULE Search --------------------------------
(***************************************************************************)
(* A search: the user types a text, the server parses it (parse_query),    *)
(* compiles the tree (compile_to_sql) and asks Postgres.  intended is the  *)
(* tree the user had in mind when the text is a tree written out, so that  *)
(* what the server reads can be compared with what was meant.              *)
(***************************************************************************)
EXTENDS QueryCompiler, FiniteSets

CONSTANTS Trees,        \* the trees users write out
          Written(_),   \* the text a tree is written out as
          Texts         \* texts typed without a tree in mind

ASSUME SearchAssumption ==
  \A typed \in Texts \cup {Written(t) : t \in Trees} :
    typed \in Seq(STRING) /\ Len(typed) <= MaxText

VARIABLES stage, intended, text, tree, unread, query

vars == <<stage, intended, text, tree, unread, query>>

Unknown == [is |-> "unknown"]

Init ==
  /\ stage = "typed"
  /\ \/ \E t \in Trees : intended = t /\ text = Written(t)
     \/ intended = Unknown /\ text \in Texts
  /\ tree = Unknown
  /\ unread = 0
  /\ query = Unknown

Parse ==
  /\ stage = "typed"
  /\ LET tokens == Tokenize(text)
         parsed == ParseTokens(tokens)
     IN /\ tree' = parsed.node
        /\ unread' = IF parsed.pos > Len(tokens) THEN 0
                     ELSE Len(tokens) + 1 - parsed.pos
  /\ stage' = "parsed"
  /\ UNCHANGED <<intended, text, query>>

Compile ==
  /\ stage = "parsed"
  /\ query' = CompileToSql(tree)
  /\ stage' = "compiled"
  /\ UNCHANGED <<intended, text, tree, unread>>

Next == Parse \/ Compile

Spec == Init /\ [][Next]_vars

-----------------------------------------------------------------------------
(* The placeholders of a clause. *)
Placeholders(where) ==
  {where[i].param : i \in {i \in DOMAIN where : where[i].is = "test"}} \ {0}

(* What the user wrote is what the parser reads (Tokenizer, Parser): no
   quote, backslash, space, keyword or parenthesis in a value or between
   values changes the tree. *)
QueryReadsBack ==
  (stage = "parsed" /\ intended # Unknown) => tree = intended

(* A text is read to its end (the trees parse_or returns to Parser::parse),
   stray operators included, unless a ")" closes what no "(" opened: what
   follows it is ignored. *)
BalancedQueryRead ==
  LET tokens == Tokenize(text)
      Count(sign, n) ==
        Cardinality({i \in 1..n : tokens[i].is = sign})
  IN ( /\ stage = "parsed"
       /\ \A n \in DOMAIN tokens : Count(")", n) <= Count("(", n) )
     => unread = 0

Torn(where) == \E i \in DOMAIN where : where[i].is = "torn"

(* Each placeholder of the clause that compile_to_sql returns names a
   parameter that routes.rs binds, so that the database does not refuse the
   statement for a missing one: whatever is typed, unless an apostrophe in a
   tag, a key or a JSON value ends the literal it is written into, after which
   the clause is not the compiler's any more.  That the number is the right
   one is not said here: see CompiledMeansParsed. *)
PlaceholdersBound ==
  (stage = "compiled" /\ ~ Torn(query.where)) =>
    Placeholders(query.where) \subseteq 1..Len(query.params)

===============================================================================
