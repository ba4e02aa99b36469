---------------------------- MODULE QueryCompiler ----------------------------
(***************************************************************************)
(* The search language of src/query.rs: the text a user types is split     *)
(* into tokens, the tokens are parsed into a tree, and the tree is         *)
(* compiled into the WHERE clause of the search and the parameters bound   *)
(* to its placeholders.                                                    *)
(*                                                                         *)
(* A text is a sequence of symbols: the punctuation the tokenizer looks    *)
(* at, and words ("port", "or", "80"), each a run of letters and digits.   *)
(* Adjacent words make one longer word, as they do in the program.  Words, *)
(* keys and values are therefore sequences too.  Case is not modelled      *)
(* (keywords are lower case) and every character is one byte.              *)
(* Recursion is over positions, or over trees that are no deeper than a    *)
(* text is long, and written as recursive functions.                       *)
(***************************************************************************)
EXTENDS Integers, Sequences

CONSTANTS PortNumber,   \* the values that parse::<u16>() accepts
          Upper(_),     \* to_uppercase, on values
          MaxText       \* bound: no text has more symbols

ASSUME CompilerAssumption == MaxText \in Nat

Space  == " "
Quote  == "\""
Escape == "\\"
Apostrophe == "'"
None   == ""            \* the end of the text, or of the tokens

(* What ends a word; a "-", a backslash or an apostrophe inside a word is   *)
(* part of it.                                                              *)
WordEnds == {Space, "(", ")", ":", Quote, "."}

Punctuation == WordEnds \cup {"-", Escape, Apostrophe}

Operators == {"contains", "icontains", "regex", "equals", "startswith",
              "endswith"}

Keywords == {"and", "or", "not"}

-----------------------------------------------------------------------------
(* A filter of the tree.  No token sets negate, so it is left out. *)
Term(key, op, value) ==
  [is |-> "filter", key |-> key, op |-> op, value |-> value]

EmptyTerm == Term(<<>>, "default", <<>>)

Word(value) == [is |-> "word", term |-> Term(<<>>, "default", value)]

KeyVal(key, op, value) == [is |-> "keyval", term |-> Term(key, op, value)]

Sign(is) == [is |-> is]

-----------------------------------------------------------------------------
(* The tokenizer.  A reader returns what it read and where it stopped. *)

Current(text, pos) == IF pos <= Len(text) THEN text[pos] ELSE None

Until(text, pos, stops) ==
  CHOOSE end \in pos..(Len(text) + 1) :
    /\ \A p \in pos..(end - 1) : text[p] \notin stops
    /\ end <= Len(text) => text[end] \in stops

SkipSpace(text, pos) ==
  CHOOSE end \in pos..(Len(text) + 1) :
    /\ \A p \in pos..(end - 1) : text[p] = Space
    /\ Current(text, end) # Space

ReadWord(text, pos) ==
  LET end == Until(text, pos, WordEnds)
  IN [read |-> SubSeq(text, pos, end - 1), pos |-> end]

(* Variant of ReadQuoted: an escaped quote ends the value. *)
ReadQuotedRaw(text, pos) ==
  LET end == Until(text, pos, {Quote})
  IN [read |-> SubSeq(text, pos, end - 1),
      pos |-> IF end <= Len(text) THEN end + 1 ELSE end]

(* After the opening quote, at p; from is the same for the places behind.   *)
(* A text that ends inside quotes is accepted.                              *)
QuotedAt(text, from, p) ==
  CASE Current(text, p) = None -> [read |-> <<>>, pos |-> p]
    [] Current(text, p) = Quote -> [read |-> <<>>, pos |-> p + 1]
    [] Current(text, p) = Escape ->
         IF Current(text, p + 1) = None
         THEN [read |-> <<>>, pos |-> p + 1]
         ELSE [from[p + 2] EXCEPT !.read = <<text[p + 1]>> \o @]
    [] OTHER -> [from[p + 1] EXCEPT !.read = <<text[p]>> \o @]

ReadQuoted(text, pos) ==
  LET from[p \in 1..(Len(text) + 1)] == QuotedAt(text, from, p)
  IN from[pos]

ReadValue(text, pos) ==
  LET start == SkipSpace(text, pos)
  IN IF Current(text, start) = Quote
     THEN ReadQuoted(text, start + 1)
     ELSE ReadWord(text, start)

(* key.op:value, key.op value; after the operator *)
ReadOperand(text, pos) ==
  LET colon == SkipSpace(text, pos)
  IN ReadValue(text, IF Current(text, colon) = ":" THEN colon + 1 ELSE colon)

(* key:value, key.op, or a longer key; at the ":" or "." at p *)
SuffixAt(text, from, p) ==
  LET suffix == ReadWord(text, p + 1)
      Rest(key, op, value) ==
        [key |-> key, op |-> op, value |-> value.read, pos |-> value.pos]
  IN IF text[p] = ":" THEN Rest(<<>>, "default", ReadValue(text, p + 1))
     ELSE IF suffix.read \in {<<op>> : op \in Operators}
     THEN Rest(<<>>, suffix.read[1], ReadOperand(text, suffix.pos))
     ELSE IF Current(text, suffix.pos) \in {".", ":"}
     THEN [from[suffix.pos] EXCEPT !.key = <<suffix.read>> \o @]
     ELSE Rest(<<suffix.read>>, "default", [read |-> <<>>, pos |-> suffix.pos])

(* What follows the key that was read before is read at pos. *)
ReadKeyVal(text, pos, key) ==
  LET from[p \in 1..Len(text)] == SuffixAt(text, from, p)
      rest == from[pos]
  IN [token |-> KeyVal(key \o rest.key, rest.op, rest.value), pos |-> rest.pos]

(* The token at pos, which is not a space. *)
NextToken(text, pos) ==
  LET char   == text[pos]
      word   == ReadWord(text, pos)
      quoted == ReadQuoted(text, pos + 1)
  IN CASE char \in {"(", ")"} -> [token |-> Sign(char), pos |-> pos + 1]
       [] char = "-" ->
            [token |-> IF Current(text, pos + 1) \in {None, Space}
                       THEN Word(<<"-">>) ELSE Sign("not"),
             pos |-> pos + 1]
       [] char = Quote -> [token |-> Word(quoted.read), pos |-> quoted.pos]
       [] char \in Punctuation \ {"(", ")", "-", Quote} ->
            [token |-> Word(<<char>>), pos |-> pos + 1]
       [] char \notin Punctuation ->
            IF word.read \in {<<k>> : k \in Keywords}
            THEN [token |-> Sign(word.read[1]), pos |-> word.pos]
            ELSE IF Current(text, word.pos) \in {":", "."}
            THEN ReadKeyVal(text, word.pos, <<word.read>>)
            ELSE [token |-> Word(word.read), pos |-> word.pos]

TokensAt(text, from, p) ==
  LET start == SkipSpace(text, p)
      next  == NextToken(text, start)
  IN IF start > Len(text) THEN <<>> ELSE <<next.token>> \o from[next.pos]

Tokenize(text) ==
  LET from[p \in 1..(Len(text) + 1)] == TokensAt(text, from, p)
  IN from[1]

-----------------------------------------------------------------------------
(* The parser.  Each rule returns its node and the position after it. *)

And(left, right) == [is |-> "and", left |-> left, right |-> right]
Or(left, right)  == [is |-> "or", left |-> left, right |-> right]
Not(inner)       == [is |-> "not", inner |-> inner]

Terms == [is: {"filter"}, key: Seq(Seq(STRING)),
          op: Operators \cup {"default"}, value: Seq(STRING)]

Over(nodes) ==
  Terms \cup [is: {"and", "or"}, left: nodes, right: nodes]
        \cup [is: {"not"}, inner: nodes]

NodesUpTo[depth \in 0..MaxText] ==
  IF depth = 0 THEN Terms ELSE Over(NodesUpTo[depth - 1])

Peek(tokens, pos) == IF pos <= Len(tokens) THEN tokens[pos].is ELSE None

(* left = And(left, right), or Or, over and over *)
Chain(kind, nodes) ==
  LET upto[i \in 1..Len(nodes)] ==
        IF i = 1 THEN nodes[1]
        ELSE [is |-> kind, left |-> upto[i - 1], right |-> nodes[i]]
  IN upto[Len(nodes)]

(* What the loops of parse_and and parse_or have read: [nodes, pos].  For   *)
(* each place, rules has what they read from there on.                      *)
ParseAnd(factors) ==
  [node |-> Chain("and", factors.nodes), pos |-> factors.pos]

ParseOr(sides) == [node |-> Chain("or", sides.nodes), pos |-> sides.pos]

(* Variant of ParseAtom: the closing parenthesis is left unread. *)
ParseAtomOpen(tokens, rules, pos) ==
  CASE Peek(tokens, pos) = "(" -> ParseOr(rules[pos + 1].sides)
    [] Peek(tokens, pos) \in {"keyval", "word"} ->
         [node |-> tokens[pos].term, pos |-> pos + 1]
    [] OTHER -> [node |-> EmptyTerm, pos |-> pos + 1]

(* A token no rule expects (and, or, a stray parenthesis, the end) is taken
   for an empty filter. *)
ParseAtom(tokens, rules, pos) ==
  CASE Peek(tokens, pos) = "(" ->
         [ParseOr(rules[pos + 1].sides) EXCEPT
            !.pos = IF Peek(tokens, @) = ")" THEN @ + 1 ELSE @]
    [] Peek(tokens, pos) \in {"keyval", "word"} ->
         [node |-> tokens[pos].term, pos |-> pos + 1]
    [] OTHER -> [node |-> EmptyTerm, pos |-> pos + 1]

ParseNot(tokens, rules, pos) ==
  IF Peek(tokens, pos) = "not"
  THEN [ParseAtom(tokens, rules, pos + 1) EXCEPT !.node = Not(@)]
  ELSE ParseAtom(tokens, rules, pos)

(* Whatever follows a factor, up to an "or" or a closing parenthesis, is one
   more factor. *)
Factors(tokens, rules, pos) ==
  LET first == ParseNot(tokens, rules, pos)
  IN IF Peek(tokens, first.pos) \in {None, "or", ")"}
     THEN [nodes |-> <<first.node>>, pos |-> first.pos]
     ELSE [rules[first.pos].factors EXCEPT !.nodes = <<first.node>> \o @]

Sides(tokens, rules, factors) ==
  LET first == ParseAnd(factors)
  IN IF Peek(tokens, first.pos) # "or"
     THEN [nodes |-> <<first.node>>, pos |-> first.pos]
     ELSE [rules[first.pos + 1].sides EXCEPT !.nodes = <<first.node>> \o @]

RulesAt(tokens, rules, pos) ==
  LET factors == Factors(tokens, rules, pos)
  IN [factors |-> factors, sides |-> Sides(tokens, rules, factors)]

Rules(tokens) ==
  LET rules[pos \in 1..(Len(tokens) + 1)] == RulesAt(tokens, rules, pos)
  IN rules

ParseTokens(tokens) ==
  IF tokens = <<>> THEN [node |-> EmptyTerm, pos |-> 1]
  ELSE ParseOr(Rules(tokens)[1].sides)

ParseQuery(text) == ParseTokens(Tokenize(text)).node

-----------------------------------------------------------------------------
(* The compiler.  SQL is a sequence of words: tests, FALSE, AND, OR, NOT    *)
(* and parentheses.  A test without a placeholder has number 0.             *)

Test(col, how, param, literal) ==
  [is |-> "test", col |-> col, how |-> how, param |-> param,
   literal |-> literal]

Parens(sql) == <<Sign("(")>> \o sql \o <<Sign(")")>>
Negated(sql) == <<Sign("not")>> \o Parens(sql)
False == <<Sign("false")>>

(* conditions.join(" AND "), fields.join(" OR ") *)
Join(pieces, sign) ==
  LET upto[i \in 0..Len(pieces)] ==
        IF i = 0 THEN <<>>
        ELSE upto[i - 1] \o (IF i = 1 THEN <<>> ELSE <<Sign(sign)>>) \o pieces[i]
  IN upto[Len(pieces)]

(* Columns are paths of words, as the keys of filters are. *)
PortColumn    == <<<<"s.port">>>>
CountryColumn == <<<<"h.country_code">>>>
Tags          == <<<<"tags">>>>

FullTextFields ==
  <<<<<<"banner">>>>, <<<<"http">>, <<"title">>>>, <<<<"http">>, <<"server">>>>,
    <<<<"product">>>>, <<<<"version">>>>, <<<<"kind">>>>>>

ClassifyFilter(term) ==
  CASE term.key = <<>>              -> "fulltext"
    [] term.key = <<<<"tag">>>>     -> "tag"
    [] term.key = <<<<"port">>>>    -> "port"
    [] term.key = <<<<"country">>>> -> "country"
    [] OTHER -> IF term.op = "default" THEN "jsoncontains" ELSE "jsontext"

(* What of a filter is written between the apostrophes of an SQL literal:    *)
(* the tag, the key and the value build_nested_json turns into JSON, or the  *)
(* words of the key json_text_col walks.                                     *)
Literals(term) ==
  CASE ClassifyFilter(term) = "tag"          -> <<term.value>>
    [] ClassifyFilter(term) = "jsoncontains" -> Append(term.key, term.value)
    [] ClassifyFilter(term) = "jsontext"     -> term.key
    [] OTHER -> <<>>

(* escape_json_string and serde_json escape quotes and backslashes and leave *)
(* an apostrophe as it is: there the database takes the literal to end.      *)
EndsLiteral(term) ==
  \E i \in DOMAIN Literals(term) :
    \E j \in DOMAIN Literals(term)[i] : Literals(term)[i][j] = Apostrophe

(* The condition of a filter with literals.  Of a literal that ends early    *)
(* the clause is torn: what it says depends on the rest of the text.         *)
Spliced(term, test) ==
  IF EndsLiteral(term) THEN <<Sign("torn")>> ELSE <<test>>

(* The condition of a filter, when the next placeholder is n. *)
CompileFullText(n) ==
  Join([i \in DOMAIN FullTextFields |->
          <<Test(FullTextFields[i], "icontains", n, <<>>)>>], "or")

CompileTag(term) == Spliced(term, Test(Tags, "has", 0, term.value))

CompilePort(term, n) ==
  IF term.value \in PortNumber
  THEN <<Test(PortColumn, "equals", n, <<>>)>> ELSE False

(* Variants of CompileCountry and CompileJsonText: params.len() taken before
   the push, and after a push too many. *)
CompileCountryEarly(n) == <<Test(CountryColumn, "equals", n - 1, <<>>)>>

CompileJsonTextLate(term, n) ==
  Spliced(term, Test(term.key, term.op, n + 1, <<>>))

CompileCountry(n) == <<Test(CountryColumn, "equals", n, <<>>)>>

(* build_nested_json and json_text_col: both walk the key's path. *)
CompileJsonContains(term) ==
  Spliced(term, Test(term.key, "holds", 0, term.value))

CompileJsonText(term, n) == Spliced(term, Test(term.key, term.op, n, <<>>))

(* A node pushes conditions and parameters behind those of its caller, of   *)
(* which it reads no more than how many parameters there are (bound).       *)
Pushes(conds, params) == [conds |-> conds, params |-> params]

Nothing == Pushes(<<>>, <<>>)

CompileFilter(term, bound) ==
  LET n    == bound + 1
      kind == ClassifyFilter(term)
  IN CASE kind = "fulltext" ->
            IF term.value = <<>> THEN Nothing
            ELSE Pushes(<<CompileFullText(n)>>, <<term.value>>)
       [] kind = "tag"     -> Pushes(<<CompileTag(term)>>, <<>>)
       [] kind = "port"    ->
            Pushes(<<CompilePort(term, n)>>,
                   IF term.value \in PortNumber THEN <<term.value>> ELSE <<>>)
       [] kind = "country" ->
            Pushes(<<CompileCountry(n)>>, <<Upper(term.value)>>)
       [] kind = "jsoncontains" -> Pushes(<<CompileJsonContains(term)>>, <<>>)
       [] kind = "jsontext" ->
            Pushes(<<CompileJsonText(term, n)>>, <<term.value>>)

(* One side of an OR: parenthesised when it has several conditions. *)
Side(conds) ==
  IF Len(conds) = 1 THEN conds[1] ELSE Parens(Join(conds, "and"))

(* An OR with a side without conditions, and a NOT of nothing, vanish. *)
CompileOr(left, right) ==
  IF <<>> \in {left.conds, right.conds} THEN Nothing
  ELSE Pushes(<<Parens(Side(left.conds) \o <<Sign("or")>>
                       \o Side(right.conds))>>,
              left.params \o right.params)

CompileNot(inner) ==
  IF inner.conds = <<>> THEN Nothing
  ELSE Pushes(<<Negated(Join(inner.conds, "and"))>>, inner.params)

CompileAnd(left, right) ==
  Pushes(left.conds \o right.conds, left.params \o right.params)

(* Each side of an OR, and what a NOT negates, is compiled with parameters  *)
(* of its own, which are appended to those of the caller afterwards.        *)
CompileNode(compiled, node, bound) ==
  CASE node.is = "filter" -> CompileFilter(node, bound)
    [] node.is = "and" ->
         LET left == compiled[node.left][bound]
         IN CompileAnd(left, compiled[node.right][bound + Len(left.params)])
    [] node.is = "or" ->
         CompileOr(compiled[node.left][0], compiled[node.right][0])
    [] node.is = "not" -> CompileNot(compiled[node.inner][0])

(* [where |-> the clause, or <<>> for TRUE, params |-> what is bound] *)
CompileToSql(root) ==
  LET compiled[node \in NodesUpTo[MaxText]] ==
        [bound \in Nat |-> CompileNode(compiled, node, bound)]
      all == compiled[root][0]
  IN [where |-> Join(all.conds, "and"), params |-> all.params]

=============================================================================
