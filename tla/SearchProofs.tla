---------------------------- MODULE SearchProofs ----------------------------
(* What holds of every search, whatever is typed: it is read to its end, or *)
(* to a ")" that nothing opened, and the placeholders of its clause have a  *)
(* parameter each.  The tokenizer, the parser and the compiler are          *)
(* recursive functions; each is first shown to exist, because what it says  *)
(* of a place depends on places of a lower rank only, and what it returns   *)
(* is then shown by induction on that rank.                                 *)
EXTENDS Search, FiniteSetTheorems, WellFoundedInduction, TLAPS

-----------------------------------------------------------------------------
(* Induction *)

(* The order of the naturals as a relation, the form the library's theorems *)
(* on well-founded relations take.                                          *)
LEMMA LessWellFounded == IsWellFoundedOn({p \in Nat \X Nat : p[1] < p[2]}, Nat)
<1>1. OpToRel(<, Nat) = {p \in Nat \X Nat : p[1] < p[2]}
  BY DEF OpToRel
<1> QED BY <1>1, NatLessThanWellFounded

(* A set of naturals that is not empty has a least element. *)
LEMMA Least ==
  ASSUME NEW T \in SUBSET Nat, T # {}
  PROVE  \E m \in T : \A k \in T : m <= k
<1> DEFINE R == {p \in Nat \X Nat : p[1] < p[2]}
<1>1. IsWellFoundedOn(R, Nat)
  BY LessWellFounded
<1> HIDE DEF R
<1>2. \E x \in T : \A y \in T : <<y, x>> \notin R
  BY <1>1, WFMin
<1>3. PICK x \in T : \A y \in T : <<y, x>> \notin R
  BY <1>2
<1>4. \A y \in T : x <= y
  <2> SUFFICES ASSUME NEW y \in T PROVE x <= y
    OBVIOUS
  <2>1. <<y, x>> \notin R
    BY <1>3
  <2>2. <<y, x>> \in Nat \X Nat /\ <<y, x>>[1] = y /\ <<y, x>>[2] = x
    OBVIOUS
  <2>3. ~(y < x)
    BY <2>1, <2>2 DEF R
  <2> QED BY <2>3
<1> QED BY <1>4

(* Induction, about a set instead of a predicate. *)
LEMMA Induction ==
  ASSUME NEW S, 0 \in S, \A n \in Nat : n \in S => n + 1 \in S
  PROVE  Nat \subseteq S
<1> SUFFICES ASSUME Nat \ S # {} PROVE FALSE
  OBVIOUS
<1>1. PICK m \in Nat \ S : \A k \in Nat \ S : m <= k
  BY Least
<1>2. m # 0 /\ m - 1 \in Nat /\ m - 1 \notin Nat \ S
  BY <1>1
<1> QED BY <1>1, <1>2

-----------------------------------------------------------------------------
(* The tokenizer *)

(* The end of the text and the symbols readers look for are different. *)
LEMMA Symbols ==
  /\ None # Quote /\ None # Escape /\ None # Space /\ Quote # Escape
  /\ Space # Quote /\ Space # Escape
  /\ None \notin {"(", ")", ":", ".", "-", "and", "or", "not", "word", "keyval"}
<1>1. None # Quote /\ Quote # Escape
  BY DEF None, Quote, Escape
<1>2. None # Escape /\ None # Space
  BY DEF None, Escape, Space
<1>3. Space # Quote /\ Space # Escape
  BY DEF Space, Quote, Escape
<1>4. None \notin {"(", ")", ":", ".", "-", "and", "or", "not", "word", "keyval"}
  BY DEF None
<1> QED BY <1>1, <1>2, <1>3, <1>4

(* From each place of a text, the first one that is the end or has some     *)
(* symbol.                                                                  *)
LEMMA FirstPlace ==
  ASSUME NEW n \in Nat, NEW pos \in 1..(n + 1), NEW H
  PROVE  \E end \in pos..(n + 1) :
           /\ \A p \in pos..(end - 1) : p \notin H
           /\ end <= n => end \in H
<1> DEFINE T == {q \in pos..(n + 1) : q = n + 1 \/ q \in H}
<1>1. T \in SUBSET Nat /\ n + 1 \in T
  OBVIOUS
<1>2. PICK m \in T : \A k \in T : m <= k
  <2> HIDE DEF T
  <2> QED BY <1>1, Least
<1>3. m \in pos..(n + 1) /\ (m = n + 1 \/ m \in H)
  OBVIOUS
<1>4. ASSUME NEW p \in pos..(m - 1) PROVE p \notin H
  <2>1. p \in pos..(n + 1) /\ p < m
    BY <1>3
  <2> QED BY <2>1, <1>2, <1>3
<1> QED BY <1>3, <1>4

(* Where a run of symbols ends. *)
LEMMA UntilEnds ==
  ASSUME NEW s \in Seq(STRING), NEW pos \in 1..(Len(s) + 1), NEW stops
  PROVE  /\ Until(s, pos, stops) \in pos..(Len(s) + 1)
         /\ \A p \in pos..(Until(s, pos, stops) - 1) : s[p] \notin stops
         /\ Until(s, pos, stops) <= Len(s) => s[Until(s, pos, stops)] \in stops
<1> DEFINE n == Len(s)
           H == {p \in 1..n : s[p] \in stops}
           Is(end) == /\ \A p \in pos..(end - 1) : s[p] \notin stops
                      /\ end <= n => s[end] \in stops
<1>1. n \in Nat
  OBVIOUS
<1> HIDE DEF n
<1>2. PICK end \in pos..(n + 1) : /\ \A p \in pos..(end - 1) : p \notin H
                                  /\ end <= n => end \in H
  <2> HIDE DEF H
  <2> QED BY <1>1, FirstPlace DEF n
<1>3. Is(end)
  BY <1>1, <1>2 DEF n
<1>4. Until(s, pos, stops) = CHOOSE e \in pos..(n + 1) : Is(e)
  BY DEF Until, n
<1> HIDE DEF Is
<1>5. Until(s, pos, stops) \in pos..(n + 1) /\ Is(Until(s, pos, stops))
  BY <1>3, <1>4
<1> QED BY <1>5 DEF Is, n

(* Where the blanks end. *)
LEMMA SkipSpaceEnds ==
  ASSUME NEW s \in Seq(STRING), NEW pos \in 1..(Len(s) + 1)
  PROVE  SkipSpace(s, pos) \in pos..(Len(s) + 1)
<1> DEFINE n == Len(s)
           H == {p \in 1..n : s[p] # Space}
           Is(end) == /\ \A p \in pos..(end - 1) : s[p] = Space
                      /\ Current(s, end) # Space
<1>1. n \in Nat
  OBVIOUS
<1> HIDE DEF n
<1>2. PICK end \in pos..(n + 1) : /\ \A p \in pos..(end - 1) : p \notin H
                                  /\ end <= n => end \in H
  <2> HIDE DEF H
  <2> QED BY <1>1, FirstPlace DEF n
<1>3. Is(end)
  <2>1. \A p \in pos..(end - 1) : s[p] = Space
    BY <1>1, <1>2
  <2>2. Current(s, end) # Space
    BY <1>1, <1>2, Symbols DEF Current, n
  <2> QED BY <2>1, <2>2
<1>4. SkipSpace(s, pos) = CHOOSE e \in pos..(n + 1) : Is(e)
  BY DEF SkipSpace, n
<1> HIDE DEF Is
<1>5. SkipSpace(s, pos) \in pos..(n + 1)
  BY <1>3, <1>4
<1> QED BY <1>5 DEF n

(* What a reader returns that starts at pos of s: what it read, of some     *)
(* kind, and where it stopped, which is behind the text at the furthest.    *)
Reading(s, pos, kind) == [read: kind, pos: pos..(Len(s) + 1)]

(* A word. *)
LEMMA ReadWordTyped ==
  ASSUME NEW s \in Seq(STRING), NEW pos \in 1..(Len(s) + 1)
  PROVE  /\ ReadWord(s, pos) \in Reading(s, pos, Seq(STRING))
         /\ pos <= Len(s) /\ s[pos] \notin WordEnds => ReadWord(s, pos).pos > pos
<1> DEFINE end == Until(s, pos, WordEnds)
<1>1. /\ end \in pos..(Len(s) + 1)
      /\ end <= Len(s) => s[end] \in WordEnds
  BY UntilEnds
<1>2. ReadWord(s, pos) = [read |-> SubSeq(s, pos, end - 1), pos |-> end]
  BY DEF ReadWord
<1> HIDE DEF end
<1>3. SubSeq(s, pos, end - 1) \in Seq(STRING)
  BY <1>1
<1> QED BY <1>1, <1>2, <1>3 DEF Reading

(* What ReadQuoted says of a place depends on places further on only. *)
LEMMA QuotedReadsOn ==
  ASSUME NEW s \in Seq(STRING), NEW p \in 1..(Len(s) + 1), NEW f, NEW g,
         \A q \in (p + 1)..(Len(s) + 1) : f[q] = g[q]
  PROVE  QuotedAt(s, f, p) = QuotedAt(s, g, p)
<1>1. p <= Len(s) => f[p + 1] = g[p + 1]
  OBVIOUS
<1>2. Current(s, p + 1) # None /\ p <= Len(s) => f[p + 2] = g[p + 2]
  BY DEF Current
<1>3. CASE Current(s, p) = None
  BY <1>3, Symbols DEF QuotedAt
<1>4. CASE Current(s, p) = Quote
  BY <1>4, Symbols DEF QuotedAt
<1>5. CASE Current(s, p) \notin {None, Quote}
  <2>1. p <= Len(s)
    BY <1>5 DEF Current
  <2> QED BY <1>1, <1>2, <1>5, <2>1 DEF QuotedAt
<1> QED BY <1>3, <1>4, <1>5

(* There is such a function. *)
LEMMA QuotedExists ==
  ASSUME NEW s \in Seq(STRING)
  PROVE  \E f : f = [p \in 1..(Len(s) + 1) |-> QuotedAt(s, f, p)]
<1> DEFINE n == Len(s) + 1
           Good(f, k) == /\ f = [p \in 1..n |-> f[p]]
                         /\ \A p \in 1..n : n - p < k => f[p] = QuotedAt(s, f, p)
           S == {k \in Nat : \E f : Good(f, k)}
<1>0. n \in Nat
  OBVIOUS
<1>1. 0 \in S
  <2>1. Good([p \in 1..n |-> 0], 0)
    BY <1>0
  <2> QED BY <2>1
<1>2. ASSUME NEW k \in Nat, k \in S PROVE k + 1 \in S
  <2>1. PICK f : Good(f, k)
    BY <1>2
  <2> DEFINE g == [p \in 1..n |-> QuotedAt(s, f, p)]
  <2>2. ASSUME NEW p \in 1..n, n - p < k + 1 PROVE g[p] = QuotedAt(s, g, p)
    <3>1. \A q \in (p + 1)..n : f[q] = g[q]
      BY <2>1, <2>2, <1>0
    <3> QED BY <3>1, QuotedReadsOn
  <2>3. Good(g, k + 1)
    <3>1. g = [p \in 1..n |-> g[p]]
      OBVIOUS
    <3> HIDE DEF g
    <3> QED BY <2>2, <3>1
  <2> HIDE DEF Good, g
  <2> QED BY <2>3
<1>3. n \in S
  <2> HIDE DEF S
  <2> QED BY <1>0, <1>1, <1>2, Induction
<1>4. PICK f : Good(f, n)
  BY <1>3
<1>5. \A p \in 1..n : f[p] = QuotedAt(s, f, p)
  BY <1>4, <1>0
<1>6. f = [p \in 1..n |-> QuotedAt(s, f, p)]
  BY <1>4, <1>5
<1> QED BY <1>6

(* A value in quotes. *)
LEMMA ReadQuotedTyped ==
  ASSUME NEW s \in Seq(STRING), NEW pos \in 1..(Len(s) + 1)
  PROVE  ReadQuoted(s, pos) \in Reading(s, pos, Seq(STRING))
<1> DEFINE n == Len(s) + 1
           Is(f) == f = [p \in 1..n |-> QuotedAt(s, f, p)]
           g == CHOOSE f : Is(f)
           S == {k \in Nat : \A p \in 1..n :
                   n - p < k => g[p] \in Reading(s, p, Seq(STRING))}
<1>0. n \in Nat
  OBVIOUS
<1>1. ReadQuoted(s, pos) = g[pos]
  BY DEF ReadQuoted
<1>2. \A p \in 1..n : g[p] = QuotedAt(s, g, p)
  <2>1. \E f : Is(f)
    BY QuotedExists
  <2> HIDE DEF Is
  <2>2. Is(g)
    BY <2>1
  <2> HIDE DEF g
  <2> QED BY <2>2 DEF Is
<1> HIDE DEF g
<1>3. 0 \in S
  BY <1>0
<1>4. ASSUME NEW k \in Nat, k \in S PROVE k + 1 \in S
  <2> SUFFICES ASSUME NEW p \in 1..n, n - p < k + 1
               PROVE  g[p] \in Reading(s, p, Seq(STRING))
    OBVIOUS
  <2>1. \A q \in (p + 1)..n : g[q] \in Reading(s, q, Seq(STRING))
    BY <1>4, <1>0
  <2>2. g[p] = QuotedAt(s, g, p)
    BY <1>2
  <2>3. CASE Current(s, p) = None
    BY <2>2, <2>3, <1>0, Symbols DEF QuotedAt, Reading
  <2>4. CASE Current(s, p) = Quote
    <3>1. g[p] = [read |-> <<>>, pos |-> p + 1] /\ p < n
      BY <2>2, <2>4, Symbols DEF QuotedAt, Current
    <3> QED BY <3>1, <1>0 DEF Reading
  <2>5. CASE Current(s, p) = Escape
    <3>1. p < n
      BY <2>5, Symbols DEF Current
    <3>2. CASE Current(s, p + 1) = None
      <4>1. g[p] = [read |-> <<>>, pos |-> p + 1]
        BY <2>2, <2>5, <3>2, Symbols DEF QuotedAt
      <4> QED BY <3>1, <4>1, <1>0 DEF Reading
    <3>3. CASE Current(s, p + 1) # None
      <4>1. g[p] = [g[p + 2] EXCEPT !.read = <<s[p + 1]>> \o @]
        BY <2>2, <2>5, <3>3, Symbols DEF QuotedAt
      <4>2. p + 2 \in (p + 1)..n /\ s[p + 1] \in STRING
        BY <3>1, <3>3, <1>0 DEF Current
      <4>3. g[p + 2] \in Reading(s, p + 2, Seq(STRING))
        BY <2>1, <4>2
      <4>4. <<s[p + 1]>> \o g[p + 2].read \in Seq(STRING)
        BY <4>2, <4>3 DEF Reading
      <4>5. g[p] = [read |-> <<s[p + 1]>> \o g[p + 2].read, pos |-> g[p + 2].pos]
        BY <4>1, <4>3 DEF Reading
      <4> QED BY <4>2, <4>3, <4>4, <4>5, <1>0 DEF Reading
    <3> QED BY <3>2, <3>3
  <2>6. CASE Current(s, p) \notin {None, Quote, Escape}
    <3>1. g[p] = [g[p + 1] EXCEPT !.read = <<s[p]>> \o @]
      BY <2>2, <2>6 DEF QuotedAt
    <3>2. p + 1 \in (p + 1)..n /\ s[p] \in STRING
      BY <2>6, <1>0 DEF Current
    <3>3. g[p + 1] \in Reading(s, p + 1, Seq(STRING))
      BY <2>1, <3>2
    <3>4. <<s[p]>> \o g[p + 1].read \in Seq(STRING)
      BY <3>2, <3>3 DEF Reading
    <3>5. g[p] = [read |-> <<s[p]>> \o g[p + 1].read, pos |-> g[p + 1].pos]
      BY <3>1, <3>3 DEF Reading
    <3> QED BY <3>2, <3>3, <3>4, <3>5, <1>0 DEF Reading
  <2> QED BY <2>3, <2>4, <2>5, <2>6
<1>5. n \in S
  <2> HIDE DEF S
  <2> QED BY <1>0, <1>3, <1>4, Induction
<1> QED BY <1>0, <1>1, <1>5

(* What follows a key. *)
LEMMA ReadValueTyped ==
  ASSUME NEW s \in Seq(STRING), NEW pos \in 1..(Len(s) + 1)
  PROVE  ReadValue(s, pos) \in Reading(s, pos, Seq(STRING))
<1> DEFINE start == SkipSpace(s, pos)
<1>1. start \in pos..(Len(s) + 1)
  BY SkipSpaceEnds
<1>2. ReadValue(s, pos) = IF Current(s, start) = Quote
                          THEN ReadQuoted(s, start + 1) ELSE ReadWord(s, start)
  BY DEF ReadValue
<1> HIDE DEF start
<1>3. CASE Current(s, start) = Quote
  <2>1. start + 1 \in 1..(Len(s) + 1)
    BY <1>1, <1>3, Symbols DEF Current
  <2>2. ReadQuoted(s, start + 1) \in Reading(s, start + 1, Seq(STRING))
    BY <2>1, ReadQuotedTyped
  <2> QED BY <1>1, <1>2, <1>3, <2>2 DEF Reading
<1>4. CASE Current(s, start) # Quote
  <2>1. ReadWord(s, start) \in Reading(s, start, Seq(STRING))
    BY <1>1, ReadWordTyped
  <2> QED BY <1>1, <1>2, <1>4, <2>1 DEF Reading
<1> QED BY <1>3, <1>4

(* The value behind an operator. *)
LEMMA ReadOperandTyped ==
  ASSUME NEW s \in Seq(STRING), NEW pos \in 1..(Len(s) + 1)
  PROVE  ReadOperand(s, pos) \in Reading(s, pos, Seq(STRING))
<1> DEFINE colon == SkipSpace(s, pos)
           start == IF Current(s, colon) = ":" THEN colon + 1 ELSE colon
<1>1. colon \in pos..(Len(s) + 1)
  BY SkipSpaceEnds
<1>2. ReadOperand(s, pos) = ReadValue(s, start)
  BY DEF ReadOperand
<1>3. start \in pos..(Len(s) + 1)
  <2> HIDE DEF colon
  <2> QED BY <1>1, Symbols DEF Current
<1> HIDE DEF start
<1>4. ReadValue(s, start) \in Reading(s, start, Seq(STRING))
  BY <1>3, ReadValueTyped
<1> QED BY <1>2, <1>3, <1>4 DEF Reading

(* What is read behind a key. *)
Suffixes(s, p) ==
  [key: Seq(Seq(STRING)), op: Operators \cup {"default"}, value: Seq(STRING),
   pos: (p + 1)..(Len(s) + 1)]

(* Either a suffix is read where it stands, or a word is put in front of    *)
(* what is read further on.                                                 *)
LEMMA SuffixCases ==
  ASSUME NEW s \in Seq(STRING), NEW p \in 1..Len(s)
  PROVE  \/ \E r \in Suffixes(s, p) : \A f : SuffixAt(s, f, p) = r
         \/ \E q \in (p + 1)..Len(s), w \in Seq(STRING) :
              \A f : SuffixAt(s, f, p) = [f[q] EXCEPT !.key = <<w>> \o @]
<1> DEFINE suffix == ReadWord(s, p + 1)
           n == Len(s)
           Rest(key, op, value) ==
             [key |-> key, op |-> op, value |-> value.read, pos |-> value.pos]
           Named == suffix.read \in {<<op>> : op \in Operators}
<1>0. n \in Nat
  OBVIOUS
<1>1. suffix.read \in Seq(STRING) /\ suffix.pos \in (p + 1)..(n + 1)
  <2>1. p + 1 \in 1..(Len(s) + 1)
    OBVIOUS
  <2>2. suffix \in Reading(s, p + 1, Seq(STRING))
    BY <2>1, ReadWordTyped
  <2> HIDE DEF suffix
  <2> QED BY <2>2 DEF Reading
<1>2. ASSUME NEW f
      PROVE  SuffixAt(s, f, p) =
        IF s[p] = ":" THEN Rest(<<>>, "default", ReadValue(s, p + 1))
        ELSE IF Named
        THEN Rest(<<>>, suffix.read[1], ReadOperand(s, suffix.pos))
        ELSE IF Current(s, suffix.pos) \in {".", ":"}
        THEN [f[suffix.pos] EXCEPT !.key = <<suffix.read>> \o @]
        ELSE Rest(<<suffix.read>>, "default", [read |-> <<>>, pos |-> suffix.pos])
  BY DEF SuffixAt
<1>3. ASSUME NEW key \in Seq(Seq(STRING)), NEW op \in Operators \cup {"default"},
             NEW value \in Reading(s, p + 1, Seq(STRING))
      PROVE  Rest(key, op, value) \in Suffixes(s, p)
  BY <1>3 DEF Reading, Suffixes
<1>4. <<>> \in Seq(Seq(STRING)) /\ <<suffix.read>> \in Seq(Seq(STRING))
  BY <1>1
<1> HIDE DEF suffix, Rest
<1>5. CASE s[p] = ":"
  <2>1. ASSUME NEW f
       PROVE  SuffixAt(s, f, p) = Rest(<<>>, "default", ReadValue(s, p + 1))
    BY <1>2, <1>5
  <2>2. ReadValue(s, p + 1) \in Reading(s, p + 1, Seq(STRING))
    BY <1>0, ReadValueTyped
  <2>3. Rest(<<>>, "default", ReadValue(s, p + 1)) \in Suffixes(s, p)
    BY <2>2, <1>3, <1>4
  <2> QED BY <2>1, <2>3
<1>6. CASE s[p] # ":" /\ Named
  <2>1. ASSUME NEW f
       PROVE  SuffixAt(s, f, p) = Rest(<<>>, suffix.read[1], ReadOperand(s, suffix.pos))
    BY <1>2, <1>6
  <2>2. ReadOperand(s, suffix.pos) \in Reading(s, p + 1, Seq(STRING))
    <3>1. ReadOperand(s, suffix.pos) \in Reading(s, suffix.pos, Seq(STRING))
      BY <1>0, <1>1, ReadOperandTyped
    <3> QED BY <1>0, <1>1, <3>1 DEF Reading
  <2>3. suffix.read[1] \in Operators
    BY <1>6
  <2>4. Rest(<<>>, suffix.read[1], ReadOperand(s, suffix.pos)) \in Suffixes(s, p)
    BY <2>2, <2>3, <1>3, <1>4
  <2> QED BY <2>1, <2>4
<1>7. CASE s[p] # ":" /\ ~Named /\ Current(s, suffix.pos) \in {".", ":"}
  <2>1. suffix.pos \in (p + 1)..Len(s)
    BY <1>0, <1>1, <1>7, Symbols DEF Current
  <2>2. ASSUME NEW f
       PROVE  SuffixAt(s, f, p) = [f[suffix.pos] EXCEPT !.key = <<suffix.read>> \o @]
    BY <1>2, <1>7
  <2> QED BY <1>1, <2>1, <2>2
<1>8. CASE s[p] # ":" /\ ~Named /\ Current(s, suffix.pos) \notin {".", ":"}
  <2> DEFINE value == [read |-> <<>>, pos |-> suffix.pos]
  <2>1. ASSUME NEW f
       PROVE  SuffixAt(s, f, p) = Rest(<<suffix.read>>, "default", value)
    BY <1>2, <1>8
  <2>2. value \in Reading(s, p + 1, Seq(STRING))
    BY <1>0, <1>1 DEF Reading
  <2> HIDE DEF value
  <2>3. Rest(<<suffix.read>>, "default", value) \in Suffixes(s, p)
    BY <1>4, <2>2, <1>3
  <2> QED BY <2>1, <2>3
<1> QED BY <1>5, <1>6, <1>7, <1>8

(* Another key. *)
LEMMA WithKey ==
  ASSUME NEW s, NEW q, NEW k, NEW r \in Suffixes(s, q)
  PROVE  [r EXCEPT !.key = k] =
           [key |-> k, op |-> r.op, value |-> r.value, pos |-> r.pos]
BY DEF Suffixes

(* There is such a function. *)
LEMMA SuffixExists ==
  ASSUME NEW s \in Seq(STRING)
  PROVE  \E f : f = [p \in 1..Len(s) |-> SuffixAt(s, f, p)]
<1> DEFINE n == Len(s)
           Good(f, k) == /\ f = [p \in 1..n |-> f[p]]
                         /\ \A p \in 1..n : n - p < k => f[p] = SuffixAt(s, f, p)
           S == {k \in Nat : \E f : Good(f, k)}
<1>0. n \in Nat
  OBVIOUS
<1>1. 0 \in S
  <2>1. Good([p \in 1..n |-> 0], 0)
    BY <1>0
  <2> QED BY <2>1
<1>2. ASSUME NEW k \in Nat, k \in S PROVE k + 1 \in S
  <2>1. PICK f : Good(f, k)
    BY <1>2
  <2> DEFINE g == [p \in 1..n |-> SuffixAt(s, f, p)]
  <2>2. ASSUME NEW p \in 1..n, n - p < k + 1 PROVE g[p] = SuffixAt(s, g, p)
    <3>1. \A q \in (p + 1)..n : f[q] = g[q]
      BY <2>1, <2>2, <1>0
    <3>2. SuffixAt(s, f, p) = SuffixAt(s, g, p)
      <4> HIDE DEF g
      <4>1. CASE \E r \in Suffixes(s, p) : \A h : SuffixAt(s, h, p) = r
        BY <4>1
      <4>2. CASE \E q \in (p + 1)..n, w \in Seq(STRING) :
                   \A h : SuffixAt(s, h, p) = [h[q] EXCEPT !.key = <<w>> \o @]
        BY <4>2, <3>1
      <4> QED BY <4>1, <4>2, SuffixCases
    <3> QED BY <3>2
  <2>3. Good(g, k + 1)
    <3>1. g = [p \in 1..n |-> g[p]]
      OBVIOUS
    <3> HIDE DEF g
    <3> QED BY <2>2, <3>1
  <2> HIDE DEF Good, g
  <2> QED BY <2>3
<1>3. n \in S
  <2> HIDE DEF S
  <2> QED BY <1>0, <1>1, <1>2, Induction
<1>4. PICK f : Good(f, n)
  BY <1>3
<1>5. \A p \in 1..n : f[p] = SuffixAt(s, f, p)
  BY <1>4, <1>0
<1>6. f = [p \in 1..n |-> SuffixAt(s, f, p)]
  BY <1>4, <1>5
<1> QED BY <1>6

(* What the tokens are: a word or a filter with a term, or a sign. *)
Tokens == [is: {"word", "keyval"}, term: Terms]
            \cup [is: {"(", ")", "and", "or", "not"}]

(* A filter with a key. *)
LEMMA ReadKeyValTyped ==
  ASSUME NEW s \in Seq(STRING), NEW pos \in 1..Len(s),
         NEW key \in Seq(Seq(STRING))
  PROVE  /\ ReadKeyVal(s, pos, key).token \in Tokens
         /\ ReadKeyVal(s, pos, key).pos \in (pos + 1)..(Len(s) + 1)
<1> DEFINE n == Len(s)
           Is(f) == f = [p \in 1..n |-> SuffixAt(s, f, p)]
           g == CHOOSE f : Is(f)
           S == {k \in Nat : \A p \in 1..n : n - p < k => g[p] \in Suffixes(s, p)}
<1>0. n \in Nat
  OBVIOUS
<1>1. ReadKeyVal(s, pos, key) =
        [token |-> KeyVal(key \o g[pos].key, g[pos].op, g[pos].value),
         pos |-> g[pos].pos]
  BY DEF ReadKeyVal
<1>2. \A p \in 1..n : g[p] = SuffixAt(s, g, p)
  <2>1. \E f : Is(f)
    BY SuffixExists
  <2> HIDE DEF Is
  <2>2. Is(g)
    BY <2>1
  <2> HIDE DEF g
  <2> QED BY <2>2 DEF Is
<1> HIDE DEF g
<1>3. 0 \in S
  BY <1>0
<1>4. ASSUME NEW j \in Nat, j \in S PROVE j + 1 \in S
  <2> SUFFICES ASSUME NEW p \in 1..n, n - p < j + 1
               PROVE  g[p] \in Suffixes(s, p)
    OBVIOUS
  <2>1. \A q \in (p + 1)..n : g[q] \in Suffixes(s, q)
    BY <1>4, <1>0
  <2>2. g[p] = SuffixAt(s, g, p)
    BY <1>2
  <2>3. CASE \E r \in Suffixes(s, p) : \A f : SuffixAt(s, f, p) = r
    BY <2>2, <2>3
  <2>4. CASE \E q \in (p + 1)..n, w \in Seq(STRING) :
               \A f : SuffixAt(s, f, p) = [f[q] EXCEPT !.key = <<w>> \o @]
    <3>1. PICK q \in (p + 1)..n, w \in Seq(STRING) :
            \A f : SuffixAt(s, f, p) = [f[q] EXCEPT !.key = <<w>> \o @]
      BY <2>4
    <3>2. g[q] \in Suffixes(s, q)
      BY <2>1
    <3>a. g[p] = [g[q] EXCEPT !.key = <<w>> \o @]
      BY <2>2, <3>1
    <3> DEFINE k == <<w>> \o g[q].key
    <3>3. k \in Seq(Seq(STRING))
      BY <3>2 DEF Suffixes
    <3>4. g[p] = [g[q] EXCEPT !.key = k]
      BY <3>a
    <3> HIDE DEF k
    <3>5. g[p] = [key |-> k, op |-> g[q].op, value |-> g[q].value, pos |-> g[q].pos]
      BY <3>2, <3>4, WithKey
    <3>6. /\ g[q].op \in Operators \cup {"default"} /\ g[q].value \in Seq(STRING)
          /\ g[q].pos \in (q + 1)..(n + 1)
      BY <3>2 DEF Suffixes
    <3>7. g[q].pos \in (p + 1)..(n + 1)
      BY <3>6, <1>0
    <3> QED BY <3>3, <3>5, <3>6, <3>7 DEF Suffixes
  <2> QED BY <2>3, <2>4, SuffixCases
<1>5. n \in S
  <2> HIDE DEF S
  <2> QED BY <1>0, <1>3, <1>4, Induction
<1>6. g[pos] \in Suffixes(s, pos)
  BY <1>0, <1>5
<1> HIDE DEF S
<1>7. key \o g[pos].key \in Seq(Seq(STRING))
  BY <1>6 DEF Suffixes
<1>8. KeyVal(key \o g[pos].key, g[pos].op, g[pos].value) \in Tokens
  BY <1>6, <1>7 DEF Suffixes, KeyVal, Term, Tokens, Terms
<1> QED BY <1>1, <1>6, <1>8 DEF Suffixes

(* A sequence of one. *)
LEMMA Singleton ==
  ASSUME NEW S, NEW c \in S
  PROVE  <<c>> \in Seq(S)
OBVIOUS

(* The token at a place that is no blank. *)
LEMMA NextTokenTyped ==
  ASSUME NEW s \in Seq(STRING), NEW pos \in 1..Len(s)
  PROVE  /\ NextToken(s, pos).token \in Tokens
         /\ NextToken(s, pos).pos \in (pos + 1)..(Len(s) + 1)
<1> DEFINE n == Len(s)
           char == s[pos]
           word == ReadWord(s, pos)
           quoted == ReadQuoted(s, pos + 1)
           next == NextToken(s, pos)
           Good(t) == t.token \in Tokens /\ t.pos \in (pos + 1)..(n + 1)
<1>0. n \in Nat /\ char \in STRING /\ pos \in 1..n
  OBVIOUS
<1>1. word.read \in Seq(STRING) /\ word.pos \in pos..(n + 1)
  BY ReadWordTyped DEF Reading
<1>2. quoted.read \in Seq(STRING) /\ quoted.pos \in (pos + 1)..(n + 1)
  <2>1. quoted \in Reading(s, pos + 1, Seq(STRING))
    BY ReadQuotedTyped
  <2> HIDE DEF quoted
  <2> QED BY <2>1 DEF Reading
<1>3. ASSUME NEW value \in Seq(STRING) PROVE Word(value) \in Tokens
  <2>1. <<>> \in Seq(Seq(STRING))
    OBVIOUS
  <2> QED BY <2>1 DEF Word, Term, Tokens, Terms
<1>s. ASSUME NEW c \in STRING PROVE Word(<<c>>) \in Tokens
  <2>1. <<c>> \in Seq(STRING)
    BY Singleton
  <2>2. <<>> \in Seq(Seq(STRING))
    OBVIOUS
  <2> QED BY <2>1, <2>2 DEF Word, Term, Tokens, Terms
<1>4. ASSUME NEW is \in {"(", ")", "and", "or", "not"} PROVE Sign(is) \in Tokens
  BY DEF Sign, Tokens
<1>5. next =
        CASE char \in {"(", ")"} -> [token |-> Sign(char), pos |-> pos + 1]
          [] char = "-" ->
               [token |-> IF Current(s, pos + 1) \in {None, Space}
                          THEN Word(<<"-">>) ELSE Sign("not"),
                pos |-> pos + 1]
          [] char = Quote -> [token |-> Word(quoted.read), pos |-> quoted.pos]
          [] char \in Punctuation \ {"(", ")", "-", Quote} ->
               [token |-> Word(<<char>>), pos |-> pos + 1]
          [] char \notin Punctuation ->
               IF word.read \in {<<k>> : k \in Keywords}
               THEN [token |-> Sign(word.read[1]), pos |-> word.pos]
               ELSE IF Current(s, word.pos) \in {":", "."}
               THEN ReadKeyVal(s, word.pos, <<word.read>>)
               ELSE [token |-> Word(word.read), pos |-> word.pos]
  BY DEF NextToken
<1>6. Quote \notin {"(", ")", "-"} /\ Quote \in Punctuation
      /\ "-" \in Punctuation /\ "(" \in Punctuation /\ ")" \in Punctuation
  BY DEF Quote, Punctuation, WordEnds
<1>7. char \notin Punctuation => word.pos > pos
  BY ReadWordTyped DEF Punctuation
<1> HIDE DEF char, word, quoted, next, n
<1>8. CASE char \in {"(", ")"}
  <2>1. next = [token |-> Sign(char), pos |-> pos + 1]
    BY <1>5, <1>6, <1>8
  <2> QED BY <1>0, <1>4, <1>8, <2>1 DEF next, n
<1>9. CASE char = "-"
  <2>1. next = [token |-> IF Current(s, pos + 1) \in {None, Space}
                          THEN Word(<<"-">>) ELSE Sign("not"),
                pos |-> pos + 1]
    BY <1>5, <1>6, <1>9
  <2>2. Word(<<char>>) \in Tokens
    BY <1>0, <1>s
  <2>3. Word(<<"-">>) \in Tokens /\ Sign("not") \in Tokens
    BY <1>4, <1>9, <2>2
  <2> QED BY <1>0, <2>1, <2>3 DEF next, n
<1>10. CASE char = Quote
  <2>1. next = [token |-> Word(quoted.read), pos |-> quoted.pos]
    BY <1>5, <1>6, <1>10
  <2> QED BY <1>2, <1>3, <2>1 DEF next, n
<1>11. CASE char \in Punctuation \ {"(", ")", "-", Quote}
  <2>1. next = [token |-> Word(<<char>>), pos |-> pos + 1]
    BY <1>5, <1>6, <1>11
  <2>2. Word(<<char>>) \in Tokens
    BY <1>s, <1>0
  <2> QED BY <1>0, <2>1, <2>2 DEF next, n
<1>12. CASE char \notin Punctuation
  <2>1. next = IF word.read \in {<<k>> : k \in Keywords}
               THEN [token |-> Sign(word.read[1]), pos |-> word.pos]
               ELSE IF Current(s, word.pos) \in {":", "."}
               THEN ReadKeyVal(s, word.pos, <<word.read>>)
               ELSE [token |-> Word(word.read), pos |-> word.pos]
    BY <1>5, <1>6, <1>12
  <2>2. word.pos \in (pos + 1)..(n + 1)
    BY <1>0, <1>1, <1>7, <1>12
  <2>3. CASE word.read \in {<<k>> : k \in Keywords}
    <3>1. word.read[1] \in {"and", "or", "not"}
      BY <2>3 DEF Keywords
    <3>2. next = [token |-> Sign(word.read[1]), pos |-> word.pos]
      BY <2>1, <2>3
    <3> QED BY <1>4, <2>2, <3>1, <3>2 DEF next, n
  <2>4. CASE /\ word.read \notin {<<k>> : k \in Keywords}
             /\ Current(s, word.pos) \in {":", "."}
    <3>1. word.pos \in 1..Len(s)
      BY <1>0, <2>2, <2>4, Symbols DEF Current, n
    <3>2. next = ReadKeyVal(s, word.pos, <<word.read>>)
      BY <2>1, <2>4
    <3>3. <<word.read>> \in Seq(Seq(STRING))
      BY <1>1
    <3>4. /\ next.token \in Tokens
          /\ next.pos \in (word.pos + 1)..(n + 1)
      BY <3>1, <3>2, <3>3, ReadKeyValTyped DEF n
    <3> QED BY <1>0, <2>2, <3>4 DEF next, n
  <2>5. CASE /\ word.read \notin {<<k>> : k \in Keywords}
             /\ Current(s, word.pos) \notin {":", "."}
    <3>1. next = [token |-> Word(word.read), pos |-> word.pos]
      BY <2>1, <2>5
    <3> QED BY <1>1, <1>3, <2>2, <3>1 DEF next, n
  <2> QED BY <2>3, <2>4, <2>5
<1> QED BY <1>8, <1>9, <1>10, <1>11, <1>12

(* Either nothing is left, or a token is put in front of what is read       *)
(* further on.                                                              *)
LEMMA TokensCases ==
  ASSUME NEW s \in Seq(STRING), NEW p \in 1..(Len(s) + 1)
  PROVE  \/ \A f : TokensAt(s, f, p) = <<>>
         \/ p <= Len(s) /\ \E q \in (p + 1)..(Len(s) + 1), t \in Tokens :
              \A f : TokensAt(s, f, p) = <<t>> \o f[q]
<1> DEFINE start == SkipSpace(s, p)
           next == NextToken(s, start)
<1>1. start \in p..(Len(s) + 1)
  BY SkipSpaceEnds
<1>2. ASSUME NEW f
      PROVE  TokensAt(s, f, p) = IF start > Len(s) THEN <<>>
                                 ELSE <<next.token>> \o f[next.pos]
  BY DEF TokensAt
<1> HIDE DEF start
<1>3. CASE start > Len(s)
  BY <1>2, <1>3
<1>4. CASE ~(start > Len(s))
  <2>1. start \in 1..Len(s)
    BY <1>1, <1>4
  <2>2. next.token \in Tokens /\ next.pos \in (start + 1)..(Len(s) + 1)
    BY <2>1, NextTokenTyped
  <2> HIDE DEF next
  <2>3. next.pos \in (p + 1)..(Len(s) + 1) /\ p <= Len(s)
    BY <1>1, <2>1, <2>2
  <2>4. ASSUME NEW f PROVE TokensAt(s, f, p) = <<next.token>> \o f[next.pos]
    BY <1>2, <1>4
  <2> QED BY <2>2, <2>3, <2>4
<1> QED BY <1>3, <1>4

(* There is such a function. *)
LEMMA TokensExist ==
  ASSUME NEW s \in Seq(STRING)
  PROVE  \E f : f = [p \in 1..(Len(s) + 1) |-> TokensAt(s, f, p)]
<1> DEFINE n == Len(s) + 1
           Good(f, k) == /\ f = [p \in 1..n |-> f[p]]
                         /\ \A p \in 1..n : n - p < k => f[p] = TokensAt(s, f, p)
           S == {k \in Nat : \E f : Good(f, k)}
<1>0. n \in Nat
  OBVIOUS
<1>1. 0 \in S
  <2>1. Good([p \in 1..n |-> 0], 0)
    BY <1>0
  <2> QED BY <2>1
<1>2. ASSUME NEW k \in Nat, k \in S PROVE k + 1 \in S
  <2>1. PICK f : Good(f, k)
    BY <1>2
  <2> DEFINE g == [p \in 1..n |-> TokensAt(s, f, p)]
  <2>2. ASSUME NEW p \in 1..n, n - p < k + 1 PROVE g[p] = TokensAt(s, g, p)
    <3>1. \A q \in (p + 1)..n : f[q] = g[q]
      BY <2>1, <2>2, <1>0
    <3>2. TokensAt(s, f, p) = TokensAt(s, g, p)
      <4> HIDE DEF g
      <4>1. CASE \A h : TokensAt(s, h, p) = <<>>
        BY <4>1
      <4>2. CASE \E q \in (p + 1)..n, t \in Tokens :
                   \A h : TokensAt(s, h, p) = <<t>> \o h[q]
        BY <4>2, <3>1
      <4> QED BY <4>1, <4>2, TokensCases
    <3> QED BY <3>2
  <2>3. Good(g, k + 1)
    <3>1. g = [p \in 1..n |-> g[p]]
      OBVIOUS
    <3> HIDE DEF g
    <3> QED BY <2>2, <3>1
  <2> HIDE DEF Good, g
  <2> QED BY <2>3
<1>3. n \in S
  <2> HIDE DEF S
  <2> QED BY <1>0, <1>1, <1>2, Induction
<1>4. PICK f : Good(f, n)
  BY <1>3
<1>5. \A p \in 1..n : f[p] = TokensAt(s, f, p)
  BY <1>4, <1>0
<1>6. f = [p \in 1..n |-> TokensAt(s, f, p)]
  BY <1>4, <1>5
<1> QED BY <1>6

(* A text is read as a sequence of tokens, no longer than the text. *)
LEMMA TokenizeTyped ==
  ASSUME NEW s \in Seq(STRING)
  PROVE  Tokenize(s) \in Seq(Tokens) /\ Len(Tokenize(s)) <= Len(s)
<1> DEFINE n == Len(s) + 1
           Is(f) == f = [p \in 1..n |-> TokensAt(s, f, p)]
           g == CHOOSE f : Is(f)
           Good(p) == g[p] \in Seq(Tokens) /\ Len(g[p]) <= n - p
           S == {k \in Nat : \A p \in 1..n : n - p < k => Good(p)}
<1>0. n \in Nat /\ 1 \in 1..n
  OBVIOUS
<1>1. Tokenize(s) = g[1]
  BY DEF Tokenize
<1>2. \A p \in 1..n : g[p] = TokensAt(s, g, p)
  <2>1. \E f : Is(f)
    BY TokensExist
  <2> HIDE DEF Is
  <2>2. Is(g)
    BY <2>1
  <2> HIDE DEF g
  <2> QED BY <2>2 DEF Is
<1> HIDE DEF g
<1>3. 0 \in S
  BY <1>0
<1>4. ASSUME NEW k \in Nat, k \in S PROVE k + 1 \in S
  <2> SUFFICES ASSUME NEW p \in 1..n, n - p < k + 1 PROVE Good(p)
    OBVIOUS
  <2>1. \A q \in (p + 1)..n : Good(q)
    BY <1>4, <1>0
  <2>2. g[p] = TokensAt(s, g, p)
    BY <1>2
  <2>3. CASE \A f : TokensAt(s, f, p) = <<>>
    <3>1. g[p] = <<>>
      BY <2>2, <2>3
    <3> QED BY <3>1, <1>0
  <2>4. CASE \E q \in (p + 1)..n, t \in Tokens :
               \A f : TokensAt(s, f, p) = <<t>> \o f[q]
    <3>1. PICK q \in (p + 1)..n, t \in Tokens :
            \A f : TokensAt(s, f, p) = <<t>> \o f[q]
      BY <2>4
    <3>2. g[p] = <<t>> \o g[q] /\ g[q] \in Seq(Tokens) /\ Len(g[q]) <= n - q
      BY <2>1, <2>2, <3>1
    <3>3. g[p] \in Seq(Tokens) /\ Len(g[p]) = 1 + Len(g[q])
      BY <3>2
    <3> QED BY <3>2, <3>3, <1>0
  <2> QED BY <2>3, <2>4, TokensCases
<1>5. n \in S
  <2> HIDE DEF S
  <2> QED BY <1>0, <1>3, <1>4, Induction
<1>6. Good(1)
  BY <1>0, <1>5
<1> HIDE DEF S
<1> QED BY <1>0, <1>1, <1>6

-----------------------------------------------------------------------------
(* The trees *)

(* NodesUpTo at each depth. *)
LEMMA NodesUpToIs ==
  \A d \in 0..MaxText :
    NodesUpTo[d] = IF d = 0 THEN Terms ELSE Over(NodesUpTo[d - 1])
<1> DEFINE At(f, d) == IF d = 0 THEN Terms ELSE Over(f[d - 1])
           Is(f) == f = [d \in 0..MaxText |-> At(f, d)]
           Good(f, k) == /\ f = [d \in 0..MaxText |-> f[d]]
                         /\ \A d \in 0..MaxText : d < k => f[d] = At(f, d)
           S == {k \in Nat : \E f : Good(f, k)}
<1>0. MaxText \in Nat
  BY CompilerAssumption
<1>1. 0 \in S
  <2>1. Good([d \in 0..MaxText |-> 0], 0)
    BY <1>0
  <2> QED BY <2>1
<1>2. ASSUME NEW k \in Nat, k \in S PROVE k + 1 \in S
  <2>1. PICK f : Good(f, k)
    BY <1>2
  <2> DEFINE g == [d \in 0..MaxText |-> At(f, d)]
  <2>2. ASSUME NEW d \in 0..MaxText, d < k + 1 PROVE g[d] = At(g, d)
    <3>1. ASSUME d # 0 PROVE d - 1 \in 0..MaxText /\ f[d - 1] = g[d - 1]
      <4> HIDE DEF At
      <4>1. d - 1 \in 0..MaxText /\ d - 1 < k
        BY <2>2, <3>1, <1>0
      <4>2. f[d - 1] = At(f, d - 1)
        BY <2>1, <4>1
      <4> QED BY <4>1, <4>2
    <3>2. At(f, d) = At(g, d)
      <4> HIDE DEF g
      <4> QED BY <3>1
    <3> QED BY <3>2
  <2>3. Good(g, k + 1)
    <3>1. g = [d \in 0..MaxText |-> g[d]]
      OBVIOUS
    <3> HIDE DEF g, At
    <3> QED BY <2>2, <3>1
  <2> HIDE DEF Good, g
  <2> QED BY <2>3
<1>3. MaxText + 1 \in S
  <2> HIDE DEF S
  <2> QED BY <1>0, <1>1, <1>2, Induction
<1>4. \E f : Is(f)
  <2>1. PICK f : Good(f, MaxText + 1)
    BY <1>3
  <2> HIDE DEF At
  <2>2. \A d \in 0..MaxText : f[d] = At(f, d)
    BY <2>1, <1>0
  <2>3. Is(f)
    BY <2>1, <2>2
  <2> QED BY <2>3
<1>5. NodesUpTo = CHOOSE f : Is(f)
  BY DEF NodesUpTo
<1> HIDE DEF Is
<1>6. Is(NodesUpTo)
  BY <1>4, <1>5
<1> QED BY <1>6 DEF Is

(* A tree may stand where a deeper one may. *)
LEMMA NodesGrow ==
  ASSUME NEW e \in 0..MaxText, NEW d \in 0..e
  PROVE  NodesUpTo[d] \subseteq NodesUpTo[e]
<1> DEFINE S == {k \in Nat : k + 1 <= MaxText => NodesUpTo[k] \subseteq NodesUpTo[k + 1]}
<1>0. MaxText \in Nat
  BY CompilerAssumption
<1>1. 0 \in S
  <2> SUFFICES ASSUME 1 <= MaxText PROVE NodesUpTo[0] \subseteq NodesUpTo[1]
    OBVIOUS
  <2>1. NodesUpTo[0] = Terms /\ NodesUpTo[1] = Over(NodesUpTo[0])
    BY <1>0, NodesUpToIs
  <2> QED BY <2>1 DEF Over
<1>2. ASSUME NEW k \in Nat, k \in S PROVE k + 1 \in S
  <2> SUFFICES ASSUME k + 2 <= MaxText
               PROVE  NodesUpTo[k + 1] \subseteq NodesUpTo[k + 2]
    BY <1>0
  <2>1. NodesUpTo[k] \subseteq NodesUpTo[k + 1]
    BY <1>0, <1>2
  <2>2. k + 1 \in 0..MaxText /\ k + 2 \in 0..MaxText
        /\ (k + 1) - 1 = k /\ (k + 2) - 1 = k + 1
    BY <1>0
  <2>3. NodesUpTo[k + 1] = Over(NodesUpTo[k])
    BY <2>2, NodesUpToIs
  <2>4. NodesUpTo[k + 2] = Over(NodesUpTo[k + 1])
    BY <2>2, NodesUpToIs
  <2>5. Over(NodesUpTo[k]) \subseteq Over(NodesUpTo[k + 1])
    BY <2>1 DEF Over
  <2> QED BY <2>3, <2>4, <2>5
<1>3. Nat \subseteq S
  <2> HIDE DEF S
  <2> QED BY <1>1, <1>2, Induction
<1> DEFINE T == {j \in Nat : d + j <= MaxText => NodesUpTo[d] \subseteq NodesUpTo[d + j]}
<1>4. 0 \in T
  BY <1>0
<1>5. ASSUME NEW j \in Nat, j \in T PROVE j + 1 \in T
  <2> SUFFICES ASSUME d + (j + 1) <= MaxText
               PROVE  NodesUpTo[d] \subseteq NodesUpTo[d + (j + 1)]
    BY <1>0
  <2>1. NodesUpTo[d] \subseteq NodesUpTo[d + j]
    BY <1>0, <1>5
  <2>2. d + j \in S /\ (d + j) + 1 = d + (j + 1)
    BY <1>0, <1>3
  <2>3. NodesUpTo[d + j] \subseteq NodesUpTo[(d + j) + 1]
    BY <1>0, <2>2
  <2> QED BY <2>1, <2>2, <2>3
<1>6. e - d \in T
  <2> HIDE DEF T
  <2>1. Nat \subseteq T
    BY <1>4, <1>5, Induction
  <2> QED BY <1>0, <2>1
<1> QED BY <1>0, <1>6

(* What a node may be made of. *)
LEMMA NodeOver ==
  ASSUME NEW d \in 1..MaxText
  PROVE  /\ \A l, r \in NodesUpTo[d - 1], kind \in {"and", "or"} :
              [is |-> kind, left |-> l, right |-> r] \in NodesUpTo[d]
         /\ \A n \in NodesUpTo[d - 1] : Not(n) \in NodesUpTo[d]
<1>1. d \in 0..MaxText /\ d # 0
  BY CompilerAssumption
<1>2. NodesUpTo[d] = Over(NodesUpTo[d - 1])
  BY <1>1, NodesUpToIs
<1> QED BY <1>2 DEF Over, Not

(* Left = And(left, right), over and over, is as deep as there are nodes,   *)
(* on top of the deepest of them.                                           *)
LEMMA ChainNode ==
  ASSUME NEW kind \in {"and", "or"}, NEW m \in Nat,
         NEW nodes \in Seq(NodesUpTo[m]), Len(nodes) >= 1,
         m + Len(nodes) - 1 <= MaxText
  PROVE  Chain(kind, nodes) \in NodesUpTo[m + Len(nodes) - 1]
<1> DEFINE n == Len(nodes)
           At(f, i) == IF i = 1 THEN nodes[1]
                       ELSE [is |-> kind, left |-> f[i - 1], right |-> nodes[i]]
           Is(f) == f = [i \in 1..n |-> At(f, i)]
           Good(f, k) == /\ f = [i \in 1..n |-> f[i]]
                         /\ \A i \in 1..n : i < k => f[i] = At(f, i)
           S == {k \in Nat : \E f : Good(f, k)}
           g == CHOOSE f : Is(f)
           T == {k \in Nat : k + 1 <= n => g[k + 1] \in NodesUpTo[m + k]}
<1>0. n \in Nat /\ n >= 1 /\ m + n - 1 <= MaxText /\ MaxText \in Nat
      /\ \A i \in 1..n : nodes[i] \in NodesUpTo[m]
  BY CompilerAssumption
<1> HIDE DEF n
<1>1. 0 \in S
  <2>1. Good([i \in 1..n |-> 0], 0)
    BY <1>0
  <2> QED BY <2>1
<1>2. ASSUME NEW k \in Nat, k \in S PROVE k + 1 \in S
  <2>1. PICK f : Good(f, k)
    BY <1>2
  <2> DEFINE h == [i \in 1..n |-> At(f, i)]
  <2>2. ASSUME NEW i \in 1..n, i < k + 1 PROVE h[i] = At(h, i)
    <3>1. ASSUME i # 1 PROVE i - 1 \in 1..n /\ f[i - 1] = h[i - 1]
      <4> HIDE DEF At
      <4>1. i - 1 \in 1..n /\ i - 1 < k
        BY <2>2, <3>1, <1>0
      <4>2. f[i - 1] = At(f, i - 1)
        BY <2>1, <4>1
      <4> QED BY <4>1, <4>2
    <3>2. At(f, i) = At(h, i)
      <4> HIDE DEF h
      <4> QED BY <3>1
    <3> QED BY <3>2
  <2>3. Good(h, k + 1)
    <3>1. h = [i \in 1..n |-> h[i]]
      OBVIOUS
    <3> HIDE DEF h, At
    <3> QED BY <2>2, <3>1
  <2> HIDE DEF Good, h
  <2> QED BY <2>3
<1>3. n + 1 \in S
  <2> HIDE DEF S
  <2> QED BY <1>0, <1>1, <1>2, Induction
<1>4. \E f : Is(f)
  <2>1. PICK f : Good(f, n + 1)
    BY <1>3
  <2> HIDE DEF At
  <2>2. \A i \in 1..n : f[i] = At(f, i)
    BY <2>1, <1>0
  <2>3. Is(f)
    BY <2>1, <2>2
  <2> QED BY <2>3
<1>5. Chain(kind, nodes) = g[n]
  BY DEF Chain, n
<1>6. \A i \in 1..n : g[i] = At(g, i)
  <2> HIDE DEF Is
  <2>1. Is(g)
    BY <1>4
  <2> HIDE DEF g, At
  <2> QED BY <2>1 DEF Is
<1> HIDE DEF g
<1>7. 0 \in T
  <2>1. 1 \in 1..n /\ m + 0 = m
    BY <1>0
  <2>2. g[1] = nodes[1]
    BY <1>6, <2>1
  <2> QED BY <1>0, <2>1, <2>2
<1>8. ASSUME NEW k \in Nat, k \in T PROVE k + 1 \in T
  <2> SUFFICES ASSUME k + 2 <= n PROVE g[k + 2] \in NodesUpTo[m + k + 1]
    BY <1>0
  <2>1. g[k + 1] \in NodesUpTo[m + k]
    BY <1>0, <1>8
  <2>2. k + 2 \in 1..n /\ k + 2 # 1 /\ (k + 2) - 1 = k + 1
    BY <1>0
  <2>3. g[k + 2] = [is |-> kind, left |-> g[k + 1], right |-> nodes[k + 2]]
    BY <1>6, <2>2
  <2>4. nodes[k + 2] \in NodesUpTo[m + k]
    <3>1. NodesUpTo[m] \subseteq NodesUpTo[m + k]
      BY <1>0, NodesGrow
    <3> QED BY <1>0, <2>2, <3>1
  <2>5. m + k + 1 \in 1..MaxText /\ (m + k + 1) - 1 = m + k
    BY <1>0
  <2> QED BY <2>1, <2>3, <2>4, <2>5, NodeOver
<1>9. n - 1 \in T
  <2> HIDE DEF T
  <2> QED BY <1>0, <1>7, <1>8, Induction
<1>10. g[n] \in NodesUpTo[m + n - 1]
  BY <1>0, <1>9
<1> QED BY <1>5, <1>10 DEF n

-----------------------------------------------------------------------------
(* The parser *)

(* How many of the first n tokens open, less those that close. *)
Count(tokens, sign, n) == Cardinality({i \in 1..n : tokens[i].is = sign})
Net(tokens, n) == Count(tokens, "(", n) - Count(tokens, ")", n)

(* What one more token makes of a count. *)
LEMMA CountStep ==
  ASSUME NEW tokens, NEW sign, NEW n \in Nat
  PROVE  /\ Count(tokens, sign, n) \in Nat
         /\ Count(tokens, sign, 0) = 0
         /\ Count(tokens, sign, n + 1) =
              Count(tokens, sign, n) + (IF tokens[n + 1].is = sign THEN 1 ELSE 0)
<1> DEFINE Of(k) == {i \in 1..k : tokens[i].is = sign}
<1>1. \A k \in Nat : IsFiniteSet(Of(k))
  <2> SUFFICES ASSUME NEW k \in Nat PROVE IsFiniteSet(Of(k))
    OBVIOUS
  <2>1. IsFiniteSet(1..k)
    BY FS_Interval
  <2> QED BY <2>1, FS_Subset
<1>2. Of(0) = {}
  OBVIOUS
<1>3. Of(n + 1) = IF tokens[n + 1].is = sign THEN Of(n) \cup {n + 1} ELSE Of(n)
  <2>1. 1..(n + 1) = (1..n) \cup {n + 1}
    OBVIOUS
  <2> QED BY <2>1
<1>4. n + 1 \notin Of(n)
  OBVIOUS
<1>5. \A k \in Nat : Count(tokens, sign, k) = Cardinality(Of(k))
  BY DEF Count
<1> HIDE DEF Of
<1>6. Count(tokens, sign, n) \in Nat
  BY <1>1, <1>5, FS_CardinalityType
<1>7. Count(tokens, sign, 0) = 0
  BY <1>2, <1>5, FS_EmptySet
<1>8. Cardinality(Of(n) \cup {n + 1}) = Cardinality(Of(n)) + 1
  BY <1>1, <1>4, FS_AddElement
<1>9. Count(tokens, sign, n + 1) =
        Count(tokens, sign, n) + (IF tokens[n + 1].is = sign THEN 1 ELSE 0)
  <2>1. CASE tokens[n + 1].is = sign
    BY <1>3, <1>5, <1>8, <2>1
  <2>2. CASE tokens[n + 1].is # sign
    BY <1>3, <1>5, <1>6, <2>2
  <2> QED BY <2>1, <2>2
<1> QED BY <1>6, <1>7, <1>9

(* The same for the difference. *)
LEMMA NetStep ==
  ASSUME NEW tokens, NEW n \in Nat
  PROVE  /\ Net(tokens, n) \in Int
         /\ Net(tokens, 0) = 0
         /\ tokens[n + 1].is = "(" => Net(tokens, n + 1) = Net(tokens, n) + 1
         /\ tokens[n + 1].is = ")" => Net(tokens, n + 1) = Net(tokens, n) - 1
         /\ tokens[n + 1].is \notin {"(", ")"} => Net(tokens, n + 1) = Net(tokens, n)
<1>1. /\ Count(tokens, "(", n) \in Nat /\ Count(tokens, ")", n) \in Nat
      /\ Count(tokens, "(", 0) = 0 /\ Count(tokens, ")", 0) = 0
  BY CountStep
<1>2. /\ Count(tokens, "(", n + 1) =
           Count(tokens, "(", n) + (IF tokens[n + 1].is = "(" THEN 1 ELSE 0)
      /\ Count(tokens, ")", n + 1) =
           Count(tokens, ")", n) + (IF tokens[n + 1].is = ")" THEN 1 ELSE 0)
  BY CountStep
<1> QED BY <1>1, <1>2 DEF Net

(* What is read from p up to e: unless it reaches the end, it closes no     *)
(* less than it opens.                                                      *)
Even(tokens, p, e) ==
  e <= Len(tokens) => Net(tokens, e - 1) <= Net(tokens, p - 1)

(* What a rule reads from p on: a tree that is less deep than it is long. *)
NodeRead(tokens, p, r) ==
  /\ r = [node |-> r.node, pos |-> r.pos]
  /\ r.pos \in (p + 1)..(Len(tokens) + 2)
  /\ r.node \in NodesUpTo[r.pos - p - 1]
  /\ Even(tokens, p, r.pos)

(* What a loop reads from p on, and which tokens it stops at. *)
LoopRead(tokens, p, r, stops) ==
  /\ r = [nodes |-> r.nodes, pos |-> r.pos]
  /\ r.pos \in (p + 1)..(Len(tokens) + 2)
  /\ \E m \in Nat : /\ r.nodes \in Seq(NodesUpTo[m])
                    /\ Len(r.nodes) >= 1
                    /\ m + Len(r.nodes) <= r.pos - p
  /\ Even(tokens, p, r.pos)
  /\ Peek(tokens, r.pos) \in stops

FactorStops == {None, "or", ")"}
SideStops   == {None, ")"}

RuleRead(tokens, p, r) == /\ LoopRead(tokens, p, r.factors, FactorStops)
                          /\ LoopRead(tokens, p, r.sides, SideStops)

(* The texts the program can be given are no longer than MaxText. *)
Lines == {tokens \in Seq(Tokens) : Len(tokens) <= MaxText}

(* A token is a sign, or a word or filter with a term. *)
LEMMA PeekToken ==
  ASSUME NEW tokens \in Lines, NEW p \in Nat \ {0}
  PROVE  /\ Peek(tokens, p) = None <=> p > Len(tokens)
         /\ Peek(tokens, p) # None =>
              tokens[p].is = Peek(tokens, p) /\ tokens[p] \in Tokens
         /\ Peek(tokens, p) \in {"keyval", "word"} => tokens[p].term \in Terms
<1>1. Len(tokens) \in Nat /\ \A i \in 1..Len(tokens) : tokens[i] \in Tokens
  BY DEF Lines
<1>2. CASE p > Len(tokens)
  BY <1>1, <1>2, Symbols DEF Peek
<1>3. CASE p <= Len(tokens)
  <2>1. Peek(tokens, p) = tokens[p].is /\ tokens[p] \in Tokens
    BY <1>1, <1>3 DEF Peek
  <2>2. tokens[p].is # None
    BY <2>1, Symbols DEF Tokens
  <2>3. tokens[p].is \in {"keyval", "word"} => tokens[p].term \in Terms
    BY <2>1 DEF Tokens
  <2> QED BY <1>1, <1>3, <2>1, <2>2, <2>3
<1> QED BY <1>1, <1>2, <1>3

(* The node of a loop is one a rule reads. *)
LEMMA LoopNode ==
  ASSUME NEW tokens \in Lines, NEW p \in 1..(Len(tokens) + 1), NEW r, NEW stops,
         NEW kind \in {"and", "or"}, LoopRead(tokens, p, r, stops)
  PROVE  NodeRead(tokens, p, [node |-> Chain(kind, r.nodes), pos |-> r.pos])
<1>0. Len(tokens) \in Nat /\ Len(tokens) <= MaxText /\ MaxText \in Nat
      /\ r.pos \in (p + 1)..(Len(tokens) + 2)
  BY CompilerAssumption DEF Lines, LoopRead
<1>1. PICK m \in Nat : /\ r.nodes \in Seq(NodesUpTo[m])
                       /\ Len(r.nodes) >= 1
                       /\ m + Len(r.nodes) <= r.pos - p
  BY DEF LoopRead
<1> DEFINE n == Len(r.nodes)
<1>2. n \in Nat /\ n >= 1 /\ m + n <= r.pos - p
  BY <1>1
<1>3. m + n - 1 <= MaxText
  BY <1>0, <1>2
<1>4. Chain(kind, r.nodes) \in NodesUpTo[m + n - 1]
  BY <1>1, <1>3, ChainNode
<1> HIDE DEF n
<1>5. r.pos - p - 1 \in 0..MaxText /\ m + n - 1 \in 0..(r.pos - p - 1)
  BY <1>0, <1>2
<1>6. Chain(kind, r.nodes) \in NodesUpTo[r.pos - p - 1]
  BY <1>4, <1>5, NodesGrow
<1>7. Even(tokens, p, r.pos)
  BY DEF LoopRead
<1> QED BY <1>0, <1>6, <1>7 DEF NodeRead

(* f has been read at the places behind p. *)
ReadBehind(tokens, f, p) ==
  \A q \in (p + 1)..(Len(tokens) + 1) : RuleRead(tokens, q, f[q])

SameBehind(tokens, f, g, p) ==
  \A q \in (p + 1)..(Len(tokens) + 1) : f[q] = g[q]

(* A token on its own is read as a filter. *)
LEMMA OneToken ==
  ASSUME NEW tokens \in Lines, NEW p \in 1..(Len(tokens) + 1),
         Peek(tokens, p) # "(", NEW term \in Terms
  PROVE  NodeRead(tokens, p, [node |-> term, pos |-> p + 1])
<1>0. Len(tokens) \in Nat /\ MaxText \in Nat
  BY CompilerAssumption DEF Lines
<1>1. term \in NodesUpTo[0]
  BY <1>0, NodesUpToIs
<1>2. Even(tokens, p, p + 1)
  <2> SUFFICES ASSUME p <= Len(tokens) PROVE Net(tokens, p) <= Net(tokens, p - 1)
    BY <1>0 DEF Even
  <2>1. p - 1 \in Nat /\ (p - 1) + 1 = p
    OBVIOUS
  <2>2. tokens[p].is # "("
    BY DEF Peek
  <2> QED BY <1>0, <2>1, <2>2, NetStep
<1>3. (p + 1) - p - 1 = 0 /\ p + 1 \in (p + 1)..(Len(tokens) + 2)
  BY <1>0
<1> DEFINE r == [node |-> term, pos |-> p + 1]
<1>4. r = [node |-> r.node, pos |-> r.pos] /\ r.node = term /\ r.pos = p + 1
  OBVIOUS
<1> HIDE DEF r
<1>5. NodeRead(tokens, p, r)
  BY <1>1, <1>2, <1>3, <1>4 DEF NodeRead
<1> QED BY <1>5 DEF r

(* The filter of an atom that opens no parenthesis. *)
AtomTerm(tokens, p) ==
  IF Peek(tokens, p) \in {"keyval", "word"} THEN tokens[p].term ELSE EmptyTerm

(* An atom is an OR in parentheses or a filter. *)
LEMMA AtomCases ==
  ASSUME NEW tokens \in Lines, NEW p \in Nat \ {0}, NEW f
  PROVE  /\ Peek(tokens, p) = "(" =>
              ParseAtom(tokens, f, p) =
                [node |-> Chain("or", f[p + 1].sides.nodes),
                 pos |-> IF Peek(tokens, f[p + 1].sides.pos) = ")"
                         THEN f[p + 1].sides.pos + 1 ELSE f[p + 1].sides.pos]
         /\ Peek(tokens, p) # "(" =>
              ParseAtom(tokens, f, p) = [node |-> AtomTerm(tokens, p), pos |-> p + 1]
<1>1. ASSUME Peek(tokens, p) = "("
      PROVE  ParseAtom(tokens, f, p) =
                [node |-> Chain("or", f[p + 1].sides.nodes),
                 pos |-> IF Peek(tokens, f[p + 1].sides.pos) = ")"
                         THEN f[p + 1].sides.pos + 1 ELSE f[p + 1].sides.pos]
  <2> DEFINE s == ParseOr(f[p + 1].sides)
  <2>1. ParseAtom(tokens, f, p) =
          [s EXCEPT !.pos = IF Peek(tokens, @) = ")" THEN @ + 1 ELSE @]
    BY <1>1 DEF ParseAtom
  <2>2. s = [node |-> Chain("or", f[p + 1].sides.nodes), pos |-> f[p + 1].sides.pos]
    BY DEF ParseOr
  <2> HIDE DEF s
  <2> QED BY <2>1, <2>2
<1>2. ASSUME Peek(tokens, p) # "("
      PROVE  ParseAtom(tokens, f, p) = [node |-> AtomTerm(tokens, p), pos |-> p + 1]
  BY <1>2 DEF ParseAtom, AtomTerm
<1> QED BY <1>1, <1>2

(* The empty filter is a filter. *)
LEMMA EmptyTermTyped == EmptyTerm \in Terms
<1>1. <<>> \in Seq(Seq(STRING)) /\ <<>> \in Seq(STRING)
  OBVIOUS
<1> QED BY <1>1 DEF EmptyTerm, Term, Terms

(* What parse_atom reads. *)
LEMMA AtomRead ==
  ASSUME NEW tokens \in Lines, NEW p \in 1..(Len(tokens) + 1), NEW f,
         ReadBehind(tokens, f, p)
  PROVE  NodeRead(tokens, p, ParseAtom(tokens, f, p))
<1> DEFINE N == Len(tokens)
           atom == ParseAtom(tokens, f, p)
<1>0. N \in Nat /\ N <= MaxText /\ MaxText \in Nat /\ p \in Nat \ {0}
  BY CompilerAssumption DEF Lines
<1> HIDE DEF N
<1>1. CASE Peek(tokens, p) = "("
  <2> DEFINE sides == f[p + 1].sides
             e == sides.pos
             node == Chain("or", sides.nodes)
  <2>1. p <= N /\ tokens[p].is = "("
    BY <1>0, <1>1, Symbols, PeekToken DEF N
  <2>2. LoopRead(tokens, p + 1, sides, SideStops)
    BY <1>0, <2>1 DEF ReadBehind, RuleRead, N
  <2>3. NodeRead(tokens, p + 1, [node |-> node, pos |-> e])
    <3>1. p + 1 \in 1..(Len(tokens) + 1)
      BY <1>0, <2>1 DEF N
    <3> HIDE DEF sides
    <3>2. NodeRead(tokens, p + 1, [node |-> Chain("or", sides.nodes), pos |-> sides.pos])
      BY <2>2, <3>1, LoopNode
    <3> QED BY <3>2
  <2>4. /\ e \in (p + 2)..(N + 2) /\ node \in NodesUpTo[e - p - 2]
        /\ Even(tokens, p + 1, e)
    <3>1. e \in (p + 2)..(N + 2)
      BY <2>2, <1>0 DEF LoopRead, N
    <3> HIDE DEF node, e, sides
    <3>2. (p + 1) + 1 = p + 2 /\ e - (p + 1) - 1 = e - p - 2
      BY <3>1, <1>0
    <3> DEFINE r == [node |-> node, pos |-> e]
    <3>3. r.node = node /\ r.pos = e
      OBVIOUS
    <3> HIDE DEF r
    <3>4. /\ r.node \in NodesUpTo[r.pos - (p + 1) - 1]
          /\ Even(tokens, p + 1, r.pos)
      BY <2>3 DEF NodeRead, r
    <3> QED BY <3>1, <3>2, <3>3, <3>4
  <2>5. Peek(tokens, e) \in SideStops
    BY <2>2 DEF LoopRead
  <2>6. atom = [node |-> node,
                pos |-> IF Peek(tokens, e) = ")" THEN e + 1 ELSE e]
    BY <1>0, <1>1, AtomCases
  <2> HIDE DEF sides, e, node, atom
  <2>7. ASSUME NEW d \in Nat, e - p - 2 <= d, d <= MaxText
        PROVE  node \in NodesUpTo[d]
    <3>1. d \in 0..MaxText /\ e - p - 2 \in 0..d
      BY <1>0, <2>4, <2>7
    <3> QED BY <2>4, <3>1, NodesGrow
  <2>8. CASE Peek(tokens, e) = ")"
    <3>1. e <= N /\ tokens[e].is = ")"
      BY <1>0, <2>4, <2>8, Symbols, PeekToken DEF N
    <3>2. atom = [node |-> node, pos |-> e + 1]
      BY <2>6, <2>8
    <3>3. node \in NodesUpTo[(e + 1) - p - 1]
      BY <1>0, <2>4, <2>7, <3>1
    <3>4. Even(tokens, p, e + 1)
      <4>1. Net(tokens, e - 1) <= Net(tokens, p)
        BY <1>0, <2>4, <3>1 DEF Even, N
      <4>2. Net(tokens, e) = Net(tokens, e - 1) - 1 /\ Net(tokens, e - 1) \in Int
        <5>1. e - 1 \in Nat /\ (e - 1) + 1 = e
          BY <1>0, <2>4
        <5> QED BY <5>1, <3>1, NetStep
      <4>3. Net(tokens, p) = Net(tokens, p - 1) + 1 /\ Net(tokens, p - 1) \in Int
        <5>1. p - 1 \in Nat /\ (p - 1) + 1 = p
          BY <1>0
        <5> QED BY <5>1, <2>1, NetStep
      <4>4. (e + 1) - 1 = e
        BY <2>4
      <4> QED BY <4>1, <4>2, <4>3, <4>4 DEF Even
    <3>5. e + 1 \in (p + 1)..(Len(tokens) + 2)
      BY <1>0, <2>4, <3>1 DEF N
    <3> QED BY <3>2, <3>3, <3>4, <3>5 DEF NodeRead, atom
  <2>9. CASE Peek(tokens, e) # ")"
    <3>1. e > N
      BY <1>0, <2>4, <2>5, <2>9, PeekToken DEF N, SideStops
    <3>2. atom = [node |-> node, pos |-> e]
      BY <2>6, <2>9
    <3>3. e - p - 1 \in Nat /\ e - p - 2 <= e - p - 1 /\ e - p - 1 <= MaxText
      BY <1>0, <2>4
    <3>4. node \in NodesUpTo[e - p - 1]
      BY <2>7, <3>3
    <3>5. Even(tokens, p, e)
      BY <1>0, <2>4, <3>1 DEF Even, N
    <3>6. e \in (p + 1)..(Len(tokens) + 2)
      BY <1>0, <2>4 DEF N
    <3> QED BY <3>2, <3>4, <3>5, <3>6 DEF NodeRead, atom
  <2> QED BY <2>8, <2>9 DEF atom
<1>2. CASE Peek(tokens, p) # "("
  <2>1. AtomTerm(tokens, p) \in Terms
    BY <1>0, PeekToken, EmptyTermTyped DEF AtomTerm
  <2>2. atom = [node |-> AtomTerm(tokens, p), pos |-> p + 1]
    BY <1>0, <1>2, AtomCases
  <2> QED BY <1>2, <2>1, <2>2, OneToken
<1> QED BY <1>1, <1>2

(* It depends on what is read behind p only. *)
LEMMA AtomSame ==
  ASSUME NEW tokens \in Lines, NEW p \in 1..(Len(tokens) + 1), NEW f, NEW g,
         SameBehind(tokens, f, g, p)
  PROVE  ParseAtom(tokens, f, p) = ParseAtom(tokens, g, p)
<1>0. Len(tokens) \in Nat /\ p \in Nat \ {0}
  BY DEF Lines
<1>1. CASE Peek(tokens, p) = "("
  <2>1. p <= Len(tokens)
    BY <1>0, <1>1, Symbols, PeekToken
  <2>2. f[p + 1] = g[p + 1]
    BY <1>0, <2>1 DEF SameBehind
  <2> QED BY <1>0, <1>1, <2>2, AtomCases
<1>2. CASE Peek(tokens, p) # "("
  BY <1>0, <1>2, AtomCases
<1> QED BY <1>1, <1>2

(* What parse_not reads. *)
LEMMA NotRead ==
  ASSUME NEW tokens \in Lines, NEW p \in 1..(Len(tokens) + 1), NEW f,
         ReadBehind(tokens, f, p)
  PROVE  NodeRead(tokens, p, ParseNot(tokens, f, p))
<1> DEFINE N == Len(tokens)
           atom == ParseAtom(tokens, f, p + 1)
           r == [node |-> Not(atom.node), pos |-> atom.pos]
<1>0. N \in Nat /\ N <= MaxText /\ MaxText \in Nat /\ p \in Nat \ {0}
  BY CompilerAssumption DEF Lines
<1> HIDE DEF N
<1>1. CASE Peek(tokens, p) = "not"
  <2>1. p <= N /\ tokens[p].is = "not"
    BY <1>0, <1>1, Symbols, PeekToken DEF N
  <2>2. p + 1 \in 1..(Len(tokens) + 1) /\ ReadBehind(tokens, f, p + 1)
    BY <1>0, <2>1 DEF ReadBehind, N
  <2>3. NodeRead(tokens, p + 1, atom)
    BY <2>2, AtomRead
  <2>4. ParseNot(tokens, f, p) = [atom EXCEPT !.node = Not(@)]
    BY <1>1 DEF ParseNot
  <2> HIDE DEF atom
  <2>5. /\ atom = [node |-> atom.node, pos |-> atom.pos]
        /\ atom.pos \in (p + 2)..(N + 2)
        /\ atom.node \in NodesUpTo[atom.pos - (p + 1) - 1]
        /\ Even(tokens, p + 1, atom.pos)
    BY <1>0, <2>3 DEF NodeRead, N
  <2>6. [atom EXCEPT !.node = Not(@)] = r
    BY <2>5
  <2>7. r = [node |-> r.node, pos |-> r.pos] /\ r.node = Not(atom.node) /\ r.pos = atom.pos
    OBVIOUS
  <2> HIDE DEF r
  <2>8. r.node \in NodesUpTo[r.pos - p - 1]
    <3>1. /\ r.pos - p - 1 \in 1..MaxText
          /\ (r.pos - p - 1) - 1 = atom.pos - (p + 1) - 1
      BY <1>0, <2>5, <2>7
    <3> QED BY <2>5, <2>7, <3>1, NodeOver
  <2>9. Even(tokens, p, r.pos)
    <3> SUFFICES ASSUME r.pos <= N PROVE Net(tokens, r.pos - 1) <= Net(tokens, p - 1)
      BY DEF Even, N
    <3>1. Net(tokens, r.pos - 1) <= Net(tokens, p)
      BY <1>0, <2>5, <2>7 DEF Even, N
    <3>2. p - 1 \in Nat /\ (p - 1) + 1 = p
      BY <1>0
    <3>3. Net(tokens, p) = Net(tokens, p - 1)
      BY <2>1, <3>2, NetStep
    <3> QED BY <3>1, <3>3
  <2>10. r.pos \in (p + 1)..(Len(tokens) + 2)
    BY <1>0, <2>5, <2>7 DEF N
  <2>11. NodeRead(tokens, p, r)
    BY <2>7, <2>8, <2>9, <2>10 DEF NodeRead
  <2> QED BY <2>4, <2>6, <2>11
<1>2. CASE Peek(tokens, p) # "not"
  <2>1. ParseNot(tokens, f, p) = ParseAtom(tokens, f, p)
    BY <1>2 DEF ParseNot
  <2> QED BY <2>1, AtomRead
<1> QED BY <1>1, <1>2

(* It depends on what is read behind p only. *)
LEMMA NotSame ==
  ASSUME NEW tokens \in Lines, NEW p \in 1..(Len(tokens) + 1), NEW f, NEW g,
         SameBehind(tokens, f, g, p)
  PROVE  ParseNot(tokens, f, p) = ParseNot(tokens, g, p)
<1>0. Len(tokens) \in Nat /\ p \in Nat \ {0}
  BY DEF Lines
<1>1. CASE Peek(tokens, p) = "not"
  <2>1. p <= Len(tokens)
    BY <1>0, <1>1, Symbols, PeekToken
  <2>2. p + 1 \in 1..(Len(tokens) + 1) /\ SameBehind(tokens, f, g, p + 1)
    BY <1>0, <2>1 DEF SameBehind
  <2>3. ParseAtom(tokens, f, p + 1) = ParseAtom(tokens, g, p + 1)
    BY <2>2, AtomSame
  <2> QED BY <1>1, <2>3 DEF ParseNot
<1>2. CASE Peek(tokens, p) # "not"
  <2>1. ParseAtom(tokens, f, p) = ParseAtom(tokens, g, p)
    BY AtomSame
  <2> QED BY <1>2, <2>1 DEF ParseNot
<1> QED BY <1>1, <1>2

(* A loop that stops after its first node. *)
LEMMA LoopOne ==
  ASSUME NEW tokens \in Lines, NEW p \in 1..(Len(tokens) + 1), NEW stops,
         NEW first, NodeRead(tokens, p, first), Peek(tokens, first.pos) \in stops
  PROVE  LoopRead(tokens, p, [nodes |-> <<first.node>>, pos |-> first.pos], stops)
<1> DEFINE r == [nodes |-> <<first.node>>, pos |-> first.pos]
           m == first.pos - p - 1
<1>1. /\ first.pos \in (p + 1)..(Len(tokens) + 2) /\ Even(tokens, p, first.pos)
      /\ first.node \in NodesUpTo[m]
  BY DEF NodeRead
<1>2. r = [nodes |-> r.nodes, pos |-> r.pos] /\ r.nodes = <<first.node>>
      /\ r.pos = first.pos
  OBVIOUS
<1>3. m \in Nat /\ m + 1 <= first.pos - p
  BY <1>1 DEF Lines
<1> HIDE DEF r, m
<1>4. r.nodes \in Seq(NodesUpTo[m])
  BY <1>1, <1>2, Singleton
<1>5. Len(r.nodes) = 1
  BY <1>2
<1>6. LoopRead(tokens, p, r, stops)
  BY <1>1, <1>2, <1>3, <1>4, <1>5 DEF LoopRead
<1> QED BY <1>6 DEF r

(* One more in front of a sequence. *)
LEMMA InFront ==
  ASSUME NEW S, NEW x \in S, NEW s \in Seq(S)
  PROVE  <<x>> \o s \in Seq(S) /\ Len(<<x>> \o s) = 1 + Len(s)
OBVIOUS

(* A loop that goes on, at q, after its first node. *)
LEMMA LoopMore ==
  ASSUME NEW tokens \in Lines, NEW p \in 1..(Len(tokens) + 1), NEW stops,
         NEW first, NodeRead(tokens, p, first),
         NEW q \in first.pos..(Len(tokens) + 1),
         first.pos <= Len(tokens) => Net(tokens, q - 1) = Net(tokens, first.pos - 1),
         NEW rest, LoopRead(tokens, q, rest, stops)
  PROVE  LoopRead(tokens, p, [rest EXCEPT !.nodes = <<first.node>> \o @], stops)
<1> DEFINE N == Len(tokens)
           nodes == <<first.node>> \o rest.nodes
           r == [nodes |-> nodes, pos |-> rest.pos]
           d == first.pos - p - 1
<1>0. N \in Nat /\ N <= MaxText /\ MaxText \in Nat
  BY CompilerAssumption DEF Lines
<1>1. /\ first.pos \in (p + 1)..(N + 2) /\ Even(tokens, p, first.pos)
      /\ first.node \in NodesUpTo[d]
  BY DEF NodeRead
<1>2. /\ rest = [nodes |-> rest.nodes, pos |-> rest.pos]
      /\ rest.pos \in (q + 1)..(N + 2)
      /\ Even(tokens, q, rest.pos)
      /\ Peek(tokens, rest.pos) \in stops
  BY DEF LoopRead
<1>3. PICK m \in Nat : /\ rest.nodes \in Seq(NodesUpTo[m])
                       /\ Len(rest.nodes) >= 1
                       /\ m + Len(rest.nodes) <= rest.pos - q
  BY DEF LoopRead
<1>4. [rest EXCEPT !.nodes = <<first.node>> \o @] = r
  <2>1. [rest EXCEPT !.nodes = <<first.node>> \o @] = [rest EXCEPT !.nodes = nodes]
    OBVIOUS
  <2> HIDE DEF nodes
  <2>2. [rest EXCEPT !.nodes = nodes] = r
    BY <1>2
  <2> QED BY <2>1, <2>2
<1>5. r = [nodes |-> r.nodes, pos |-> r.pos] /\ r.pos = rest.pos
      /\ r.nodes = nodes
  <2> HIDE DEF nodes
  <2> QED OBVIOUS
<1> HIDE DEF N, nodes, r, d
<1>a. /\ p \in Nat \ {0} /\ first.pos \in Nat /\ p + 1 <= first.pos
      /\ q \in Nat /\ first.pos <= q /\ q <= N + 1
      /\ rest.pos \in Nat /\ q + 1 <= rest.pos /\ rest.pos <= N + 2
  BY <1>0, <1>1, <1>2 DEF N
<1>c. r.pos = rest.pos /\ r.nodes = nodes
  BY <1>5
<1>6. r.pos \in (p + 1)..(N + 2)
  BY <1>0, <1>a, <1>c
<1> DEFINE M == IF d <= m THEN m ELSE d
<1>7. d \in Nat /\ d = first.pos - p - 1
  BY <1>a DEF d
<1>8. Len(rest.nodes) \in Nat
  BY <1>3
<1>b. m \in Nat /\ m + Len(rest.nodes) <= rest.pos - q /\ Len(rest.nodes) >= 1
  BY <1>3
<1>9. /\ M \in Nat /\ M <= MaxText /\ d <= M /\ m <= M
      /\ M + 1 + Len(rest.nodes) <= rest.pos - p
  <2> DEFINE l == Len(rest.nodes)
             e == rest.pos
             h == first.pos
  <2>0. M \in Nat /\ d <= M /\ m <= M /\ M \in {d, m}
    BY <1>7
  <2>1. /\ l \in Nat /\ l >= 1 /\ m \in Nat /\ m + l <= e - q
        /\ d \in Nat /\ d = h - p - 1 /\ h \in Nat /\ p + 1 <= h
        /\ q \in Nat /\ h <= q /\ e \in Nat /\ q + 1 <= e /\ e <= N + 2
        /\ N \in Nat /\ N <= MaxText /\ MaxText \in Nat /\ p \in Nat
        /\ M \in Nat /\ d <= M /\ m <= M /\ M \in {d, m} /\ p >= 1
    <3> HIDE DEF M
    <3> QED BY <1>0, <1>7, <1>8, <1>a, <1>b, <2>0
  <2> HIDE DEF l, e, h, M
  <2>2. ASSUME M = d PROVE M <= MaxText /\ M + 1 + l <= e - p
    BY <2>1, <2>2
  <2>3. ASSUME M = m PROVE M <= MaxText /\ M + 1 + l <= e - p
    BY <2>1, <2>3
  <2>4. M <= MaxText /\ M + 1 + l <= e - p
    BY <2>1, <2>2, <2>3
  <2> QED BY <2>1, <2>4 DEF l, e
<1> HIDE DEF M
<1>10. r.nodes \in Seq(NodesUpTo[M]) /\ Len(r.nodes) = 1 + Len(rest.nodes)
  <2>1. NodesUpTo[d] \subseteq NodesUpTo[M] /\ NodesUpTo[m] \subseteq NodesUpTo[M]
    BY <1>0, <1>7, <1>9, NodesGrow
  <2>2. first.node \in NodesUpTo[M]
    BY <1>1, <2>1
  <2>4. rest.nodes \in Seq(NodesUpTo[M])
    BY <1>3, <2>1
  <2>5. nodes \in Seq(NodesUpTo[M]) /\ Len(nodes) = 1 + Len(rest.nodes)
    BY <2>2, <2>4, InFront DEF nodes
  <2> QED BY <1>c, <2>5
<1>11. \E k \in Nat : /\ r.nodes \in Seq(NodesUpTo[k])
                      /\ Len(r.nodes) >= 1
                      /\ k + Len(r.nodes) <= r.pos - p
  <2>1. Len(r.nodes) >= 1 /\ M + Len(r.nodes) <= r.pos - p
    <3> DEFINE l == Len(rest.nodes)
    <3>1. Len(r.nodes) = 1 + l /\ l \in Nat
      BY <1>8, <1>10
    <3>2. M \in Nat /\ M + 1 + l <= r.pos - p /\ r.pos \in Nat /\ p \in Nat
      BY <1>9, <1>a, <1>c
    <3> HIDE DEF l
    <3> QED BY <3>1, <3>2
  <2> QED BY <1>9, <1>10, <2>1
<1>12. Even(tokens, p, r.pos)
  <2> SUFFICES ASSUME r.pos <= N PROVE Net(tokens, r.pos - 1) <= Net(tokens, p - 1)
    BY DEF Even, N
  <2>1. first.pos <= N /\ first.pos \in Nat \ {0} /\ q - 1 \in Nat
        /\ p - 1 \in Nat /\ r.pos - 1 \in Nat /\ first.pos - 1 \in Nat
    BY <1>0, <1>a, <1>c
  <2>2. Net(tokens, r.pos - 1) <= Net(tokens, q - 1)
    BY <1>2, <1>5 DEF Even, N
  <2>3. Net(tokens, q - 1) = Net(tokens, first.pos - 1)
    BY <2>1 DEF N
  <2>4. Net(tokens, first.pos - 1) <= Net(tokens, p - 1)
    BY <1>1, <2>1 DEF Even, N
  <2>5. /\ Net(tokens, r.pos - 1) \in Int /\ Net(tokens, p - 1) \in Int
        /\ Net(tokens, first.pos - 1) \in Int
    BY <2>1, NetStep
  <2> QED BY <2>2, <2>3, <2>4, <2>5
<1>13. LoopRead(tokens, p, r, stops)
  BY <1>2, <1>5, <1>6, <1>11, <1>12 DEF LoopRead, N
<1> QED BY <1>4, <1>13

(* What the loop of parse_and reads. *)
LEMMA FactorsRead ==
  ASSUME NEW tokens \in Lines, NEW p \in 1..(Len(tokens) + 1), NEW f,
         ReadBehind(tokens, f, p)
  PROVE  LoopRead(tokens, p, Factors(tokens, f, p), FactorStops)
<1> DEFINE first == ParseNot(tokens, f, p)
           q == first.pos
<1>1. NodeRead(tokens, p, first)
  BY NotRead
<1>2. Factors(tokens, f, p) =
        IF Peek(tokens, q) \in {None, "or", ")"}
        THEN [nodes |-> <<first.node>>, pos |-> q]
        ELSE [f[q].factors EXCEPT !.nodes = <<first.node>> \o @]
  BY DEF Factors
<1> HIDE DEF first
<1>3. CASE Peek(tokens, q) \in {None, "or", ")"}
  <2>1. LoopRead(tokens, p, [nodes |-> <<first.node>>, pos |-> q], FactorStops)
    BY <1>1, <1>3, LoopOne DEF FactorStops
  <2> QED BY <1>2, <1>3, <2>1
<1>4. CASE Peek(tokens, q) \notin {None, "or", ")"}
  <2>1. q \in (p + 1)..(Len(tokens) + 2) /\ Len(tokens) \in Nat
    BY <1>1 DEF NodeRead, Lines
  <2>2. q <= Len(tokens)
    BY <1>4, <2>1, PeekToken
  <2>3. q \in (p + 1)..(Len(tokens) + 1) /\ q \in first.pos..(Len(tokens) + 1)
    BY <2>1, <2>2
  <2>4. LoopRead(tokens, q, f[q].factors, FactorStops)
    BY <2>3 DEF ReadBehind, RuleRead
  <2>5. LoopRead(tokens, p, [f[q].factors EXCEPT !.nodes = <<first.node>> \o @],
                 FactorStops)
    <3> DEFINE rest == f[q].factors
    <3>1. LoopRead(tokens, q, rest, FactorStops)
      BY <2>4
    <3> HIDE DEF rest
    <3>2. LoopRead(tokens, p, [rest EXCEPT !.nodes = <<first.node>> \o @],
                   FactorStops)
      BY <1>1, <2>3, <3>1, LoopMore
    <3> QED BY <3>2 DEF rest
  <2> QED BY <1>2, <1>4, <2>5
<1> QED BY <1>3, <1>4

(* What the loop of parse_or reads. *)
LEMMA SidesRead ==
  ASSUME NEW tokens \in Lines, NEW p \in 1..(Len(tokens) + 1), NEW f,
         ReadBehind(tokens, f, p),
         NEW factors, LoopRead(tokens, p, factors, FactorStops)
  PROVE  LoopRead(tokens, p, Sides(tokens, f, factors), SideStops)
<1> DEFINE first == ParseAnd(factors)
           q == first.pos
<1>1. NodeRead(tokens, p, first) /\ q = factors.pos
  <2>1. NodeRead(tokens, p, [node |-> Chain("and", factors.nodes), pos |-> factors.pos])
    BY LoopNode
  <2> QED BY <2>1 DEF ParseAnd
<1>2. Sides(tokens, f, factors) =
        IF Peek(tokens, q) # "or"
        THEN [nodes |-> <<first.node>>, pos |-> q]
        ELSE [f[q + 1].sides EXCEPT !.nodes = <<first.node>> \o @]
  BY DEF Sides
<1>0. Peek(tokens, q) \in FactorStops
  BY <1>1 DEF LoopRead
<1> HIDE DEF first
<1>3. CASE Peek(tokens, q) # "or"
  <2>1. Peek(tokens, q) \in SideStops
    BY <1>0, <1>3 DEF FactorStops, SideStops
  <2>2. LoopRead(tokens, p, [nodes |-> <<first.node>>, pos |-> q], SideStops)
    BY <1>1, <2>1, LoopOne
  <2> QED BY <1>2, <1>3, <2>2
<1>4. CASE Peek(tokens, q) = "or"
  <2>1. q \in (p + 1)..(Len(tokens) + 2) /\ Len(tokens) \in Nat
    BY <1>1 DEF NodeRead, Lines
  <2>2. q <= Len(tokens) /\ tokens[q].is = "or"
    BY <1>4, <2>1, Symbols, PeekToken
  <2>3. /\ q + 1 \in (p + 1)..(Len(tokens) + 1)
        /\ q + 1 \in first.pos..(Len(tokens) + 1)
    BY <2>1, <2>2
  <2>4. LoopRead(tokens, q + 1, f[q + 1].sides, SideStops)
    BY <2>3 DEF ReadBehind, RuleRead
  <2>5. Net(tokens, (q + 1) - 1) = Net(tokens, first.pos - 1)
    <3>1. q - 1 \in Nat /\ (q - 1) + 1 = q /\ (q + 1) - 1 = q
      BY <2>1
    <3>2. tokens[(q - 1) + 1].is \notin {"(", ")"}
      BY <2>2, <3>1
    <3>3. Net(tokens, (q - 1) + 1) = Net(tokens, q - 1)
      BY <3>1, <3>2, NetStep
    <3> QED BY <3>1, <3>3
  <2>6. LoopRead(tokens, p, [f[q + 1].sides EXCEPT !.nodes = <<first.node>> \o @],
                 SideStops)
    <3> DEFINE rest == f[q + 1].sides
    <3>1. LoopRead(tokens, q + 1, rest, SideStops)
      BY <2>4
    <3> HIDE DEF rest
    <3>2. LoopRead(tokens, p, [rest EXCEPT !.nodes = <<first.node>> \o @],
                   SideStops)
      BY <1>1, <2>3, <2>5, <3>1, LoopMore
    <3> QED BY <3>2 DEF rest
  <2> QED BY <1>2, <1>4, <2>6
<1> QED BY <1>3, <1>4

(* What the rules read at p, if they have been read behind it. *)
LEMMA RulesRead ==
  ASSUME NEW tokens \in Lines, NEW p \in 1..(Len(tokens) + 1), NEW f,
         ReadBehind(tokens, f, p)
  PROVE  RuleRead(tokens, p, RulesAt(tokens, f, p))
<1> DEFINE factors == Factors(tokens, f, p)
           r == RulesAt(tokens, f, p)
<1>1. LoopRead(tokens, p, factors, FactorStops)
  BY FactorsRead
<1>2. r = [factors |-> factors, sides |-> Sides(tokens, f, factors)]
  BY DEF RulesAt
<1> HIDE DEF factors, r
<1>3. LoopRead(tokens, p, Sides(tokens, f, factors), SideStops)
  BY <1>1, SidesRead
<1>4. RuleRead(tokens, p, r)
  BY <1>1, <1>2, <1>3 DEF RuleRead
<1> QED BY <1>4 DEF r

(* They depend on what is read behind p only. *)
LEMMA RulesSame ==
  ASSUME NEW tokens \in Lines, NEW p \in 1..(Len(tokens) + 1), NEW f, NEW g,
         ReadBehind(tokens, f, p), SameBehind(tokens, f, g, p)
  PROVE  RulesAt(tokens, f, p) = RulesAt(tokens, g, p)
<1>0. Len(tokens) \in Nat /\ p \in Nat \ {0}
  BY DEF Lines
<1>1. Factors(tokens, f, p) = Factors(tokens, g, p)
  <2> DEFINE first == ParseNot(tokens, f, p)
  <2>1. ParseNot(tokens, g, p) = first
    BY NotSame
  <2>2. first.pos \in (p + 1)..(Len(tokens) + 2)
    BY NotRead DEF NodeRead
  <2>3. ASSUME NEW h, ParseNot(tokens, h, p) = first
        PROVE  Factors(tokens, h, p) =
                 IF Peek(tokens, first.pos) \in {None, "or", ")"}
                 THEN [nodes |-> <<first.node>>, pos |-> first.pos]
                 ELSE [h[first.pos].factors EXCEPT !.nodes = <<first.node>> \o @]
    BY <2>3 DEF Factors
  <2>4. Factors(tokens, f, p) =
          IF Peek(tokens, first.pos) \in {None, "or", ")"}
          THEN [nodes |-> <<first.node>>, pos |-> first.pos]
          ELSE [f[first.pos].factors EXCEPT !.nodes = <<first.node>> \o @]
    BY <2>3
  <2>5. Factors(tokens, g, p) =
          IF Peek(tokens, first.pos) \in {None, "or", ")"}
          THEN [nodes |-> <<first.node>>, pos |-> first.pos]
          ELSE [g[first.pos].factors EXCEPT !.nodes = <<first.node>> \o @]
    BY <2>1, <2>3
  <2> HIDE DEF first
  <2>6. CASE Peek(tokens, first.pos) \in {None, "or", ")"}
    BY <2>4, <2>5, <2>6
  <2>7. CASE Peek(tokens, first.pos) \notin {None, "or", ")"}
    <3>1. first.pos <= Len(tokens)
      BY <1>0, <2>2, <2>7, PeekToken
    <3>2. f[first.pos] = g[first.pos]
      BY <1>0, <2>2, <3>1 DEF SameBehind
    <3> QED BY <2>4, <2>5, <2>7, <3>2
  <2> QED BY <2>6, <2>7
<1>2. Sides(tokens, f, Factors(tokens, f, p)) = Sides(tokens, g, Factors(tokens, f, p))
  <2> DEFINE factors == Factors(tokens, f, p)
             first == ParseAnd(factors)
  <2>1. first.pos = factors.pos
    BY DEF ParseAnd
  <2>2. factors.pos \in (p + 1)..(Len(tokens) + 2)
    BY FactorsRead DEF LoopRead
  <2> HIDE DEF factors
  <2>3. ASSUME NEW h
        PROVE  Sides(tokens, h, factors) =
                 IF Peek(tokens, first.pos) # "or"
                 THEN [nodes |-> <<first.node>>, pos |-> first.pos]
                 ELSE [h[first.pos + 1].sides EXCEPT !.nodes = <<first.node>> \o @]
    BY DEF Sides
  <2> HIDE DEF first
  <2>4. CASE Peek(tokens, first.pos) # "or"
    BY <2>3, <2>4 DEF factors
  <2>5. CASE Peek(tokens, first.pos) = "or"
    <3>1. first.pos <= Len(tokens)
      BY <1>0, <2>1, <2>2, <2>5, Symbols, PeekToken
    <3>2. f[first.pos + 1] = g[first.pos + 1]
      BY <1>0, <2>1, <2>2, <3>1 DEF SameBehind
    <3> QED BY <2>3, <2>5, <3>2 DEF factors
  <2> QED BY <2>4, <2>5
<1> QED BY <1>1, <1>2 DEF RulesAt

(* There is such a function. *)
LEMMA RulesExist ==
  ASSUME NEW tokens \in Lines
  PROVE  \E f : f = [p \in 1..(Len(tokens) + 1) |-> RulesAt(tokens, f, p)]
<1> DEFINE n == Len(tokens) + 1
           Good(f, k) == /\ f = [p \in 1..n |-> f[p]]
                         /\ \A p \in 1..n : n - p < k =>
                              /\ f[p] = RulesAt(tokens, f, p)
                              /\ RuleRead(tokens, p, f[p])
           S == {k \in Nat : \E f : Good(f, k)}
<1>0. n \in Nat
  BY DEF Lines
<1>1. 0 \in S
  <2>1. Good([p \in 1..n |-> 0], 0)
    BY <1>0
  <2> QED BY <2>1
<1>2. ASSUME NEW k \in Nat, k \in S PROVE k + 1 \in S
  <2>1. PICK f : Good(f, k)
    BY <1>2
  <2> DEFINE g == [p \in 1..n |-> RulesAt(tokens, f, p)]
  <2>2. ASSUME NEW p \in 1..n, n - p < k + 1
        PROVE  g[p] = RulesAt(tokens, g, p) /\ RuleRead(tokens, p, g[p])
    <3>1. ASSUME NEW q \in (p + 1)..n
          PROVE  f[q] = g[q] /\ RuleRead(tokens, q, f[q])
      <4>1. q \in 1..n /\ n - q < k
        BY <2>2, <1>0
      <4>2. f[q] = RulesAt(tokens, f, q) /\ RuleRead(tokens, q, f[q])
        BY <2>1, <4>1
      <4> QED BY <4>1, <4>2
    <3>2. g[p] = RulesAt(tokens, f, p)
      OBVIOUS
    <3> HIDE DEF g
    <3>3. ReadBehind(tokens, f, p) /\ SameBehind(tokens, f, g, p)
      BY <3>1 DEF ReadBehind, SameBehind
    <3> QED BY <3>2, <3>3, RulesSame, RulesRead
  <2>3. Good(g, k + 1)
    <3>1. g = [p \in 1..n |-> g[p]]
      OBVIOUS
    <3> HIDE DEF g
    <3> QED BY <2>2, <3>1
  <2> HIDE DEF Good, g
  <2> QED BY <2>3
<1>3. n \in S
  <2> HIDE DEF S
  <2> QED BY <1>0, <1>1, <1>2, Induction
<1>4. PICK f : Good(f, n)
  BY <1>3
<1>5. \A p \in 1..n : f[p] = RulesAt(tokens, f, p)
  BY <1>4, <1>0
<1>6. f = [p \in 1..n |-> RulesAt(tokens, f, p)]
  BY <1>4, <1>5
<1> QED BY <1>6

(* The rules read the tokens from each place on. *)
LEMMA RulesTyped ==
  ASSUME NEW tokens \in Lines, NEW p \in 1..(Len(tokens) + 1)
  PROVE  RuleRead(tokens, p, Rules(tokens)[p])
<1> DEFINE n == Len(tokens) + 1
           Is(f) == f = [q \in 1..n |-> RulesAt(tokens, f, q)]
           g == CHOOSE f : Is(f)
           S == {k \in Nat : \A q \in 1..n : n - q < k => RuleRead(tokens, q, g[q])}
<1>0. n \in Nat
  BY DEF Lines
<1>1. Rules(tokens) = g
  BY DEF Rules
<1>2. \A q \in 1..n : g[q] = RulesAt(tokens, g, q)
  <2>1. \E f : Is(f)
    BY RulesExist
  <2> HIDE DEF Is
  <2>2. Is(g)
    BY <2>1
  <2> HIDE DEF g
  <2> QED BY <2>2 DEF Is
<1> HIDE DEF g
<1>3. 0 \in S
  BY <1>0
<1>4. ASSUME NEW k \in Nat, k \in S PROVE k + 1 \in S
  <2> SUFFICES ASSUME NEW q \in 1..n, n - q < k + 1 PROVE RuleRead(tokens, q, g[q])
    OBVIOUS
  <2>1. \A i \in (q + 1)..n : RuleRead(tokens, i, g[i])
    BY <1>4, <1>0
  <2>2. ReadBehind(tokens, g, q)
    BY <2>1 DEF ReadBehind
  <2> QED BY <1>2, <2>2, RulesRead
<1>5. n \in S
  <2> HIDE DEF S
  <2> QED BY <1>0, <1>3, <1>4, Induction
<1> QED BY <1>0, <1>1, <1>5

(* What parse_or returns to Parser::parse: a tree, and where it stopped,    *)
(* which is the end or a ")" that nothing opened.                           *)
LEMMA ParseTokensRead ==
  ASSUME NEW tokens \in Lines
  PROVE  /\ ParseTokens(tokens).node \in NodesUpTo[MaxText]
         /\ ParseTokens(tokens).pos \in 1..(Len(tokens) + 2)
         /\ ParseTokens(tokens).pos <= Len(tokens) =>
              /\ tokens[ParseTokens(tokens).pos].is = ")"
              /\ Net(tokens, ParseTokens(tokens).pos - 1) <= 0
<1>0. Len(tokens) \in Nat /\ Len(tokens) <= MaxText /\ MaxText \in Nat
  BY CompilerAssumption DEF Lines
<1>1. CASE tokens = <<>>
  <2>1. ParseTokens(tokens) = [node |-> EmptyTerm, pos |-> 1] /\ Len(tokens) = 0
    BY <1>1 DEF ParseTokens
  <2>2. EmptyTerm \in NodesUpTo[MaxText]
    <3>1. NodesUpTo[0] = Terms /\ NodesUpTo[0] \subseteq NodesUpTo[MaxText]
      BY <1>0, NodesUpToIs, NodesGrow
    <3> QED BY <3>1, EmptyTermTyped
  <2> QED BY <2>1, <2>2
<1>2. CASE tokens # <<>>
  <2> DEFINE sides == Rules(tokens)[1].sides
             r == ParseTokens(tokens)
  <2>1. r = ParseOr(sides)
    BY <1>2 DEF ParseTokens
  <2>2. LoopRead(tokens, 1, sides, SideStops)
    BY <1>0, RulesTyped DEF RuleRead
  <2> HIDE DEF sides, r
  <2>3. r = [node |-> Chain("or", sides.nodes), pos |-> sides.pos]
    BY <2>1 DEF ParseOr
  <2>4. NodeRead(tokens, 1, r)
    <3>1. 1 \in 1..(Len(tokens) + 1)
      BY <1>0
    <3>2. NodeRead(tokens, 1, [node |-> Chain("or", sides.nodes), pos |-> sides.pos])
      BY <2>2, <3>1, LoopNode
    <3> QED BY <2>3, <3>2
  <2>5. r.pos \in 2..(Len(tokens) + 2) /\ r.node \in NodesUpTo[r.pos - 2]
        /\ Even(tokens, 1, r.pos)
    <3>1. r.pos - 1 - 1 = r.pos - 2
      BY <2>4, <1>0 DEF NodeRead
    <3> QED BY <2>4, <3>1 DEF NodeRead
  <2>6. r.node \in NodesUpTo[MaxText]
    <3>1. r.pos - 2 \in 0..MaxText /\ MaxText \in 0..MaxText
      BY <1>0, <2>5
    <3> QED BY <2>5, <3>1, NodesGrow
  <2>7. ASSUME r.pos <= Len(tokens)
        PROVE  tokens[r.pos].is = ")" /\ Net(tokens, r.pos - 1) <= 0
    <3>1. Peek(tokens, r.pos) \in SideStops
      BY <2>2, <2>3 DEF LoopRead
    <3>2. tokens[r.pos].is = ")"
      BY <1>0, <2>5, <2>7, <3>1, PeekToken, Symbols DEF SideStops
    <3>3. Net(tokens, r.pos - 1) <= Net(tokens, 0)
      BY <2>5, <2>7 DEF Even
    <3>4. Net(tokens, 0) = 0
      BY NetStep
    <3> QED BY <3>2, <3>3, <3>4
  <2> QED BY <1>0, <2>5, <2>6, <2>7 DEF r
<1> QED BY <1>1, <1>2

-----------------------------------------------------------------------------
(* The compiler *)

(* The words of a clause that has no placeholder beyond $m. *)
Columns == Seq(Seq(STRING)) \cup {PortColumn, CountryColumn, Tags}
             \cup {FullTextFields[i] : i \in 1..6}
Hows == Operators \cup {"default", "equals", "has", "holds"}
Words(m) == [is: {"test"}, col: Columns, how: Hows, param: 0..m,
             literal: Seq(STRING)]
              \cup [is: {"(", ")", "and", "or", "not", "false", "torn"}]

(* What is bound: values, in upper case or as they are. *)
Values == Seq(STRING) \cup {Upper(v) : v \in Seq(STRING)}

(* What a node pushes, behind the bound parameters of its caller, and in     *)
(* which no placeholder goes further than the parameters.                   *)
Bound(r, bound) ==
  /\ r.params \in Seq(Values)
  /\ r.conds \in Seq(Seq(Words(bound + Len(r.params))))

(* A clause with few placeholders is one of the clauses with more. *)
LEMMA WordsGrow ==
  ASSUME NEW m \in Nat, NEW n \in Nat, m <= n
  PROVE  /\ Words(m) \subseteq Words(n)
         /\ Seq(Words(m)) \subseteq Seq(Words(n))
         /\ Seq(Seq(Words(m))) \subseteq Seq(Seq(Words(n)))
<1>1. 0..m \subseteq 0..n
  OBVIOUS
<1>2. Words(m) \subseteq Words(n)
  BY <1>1 DEF Words
<1>3. ASSUME NEW A, NEW B, A \subseteq B PROVE Seq(A) \subseteq Seq(B)
  BY <1>3
<1>4. Seq(Words(m)) \subseteq Seq(Words(n))
  BY <1>2, <1>3
<1>5. Seq(Seq(Words(m))) \subseteq Seq(Seq(Words(n)))
  BY <1>4, <1>3
<1> QED BY <1>2, <1>4, <1>5

(* One sequence behind another. *)
LEMMA Joined ==
  ASSUME NEW S, NEW a \in Seq(S), NEW b \in Seq(S)
  PROVE  a \o b \in Seq(S) /\ Len(a \o b) = Len(a) + Len(b)
OBVIOUS

(* The signs are words of every clause. *)
LEMMA SignWord ==
  ASSUME NEW m \in Nat, NEW is \in {"(", ")", "and", "or", "not", "false", "torn"}
  PROVE  <<Sign(is)>> \in Seq(Words(m))
<1>1. Sign(is) \in Words(m)
  BY DEF Sign, Words
<1> QED BY <1>1, Singleton

(* A clause in parentheses, and its negation. *)
LEMMA ParensWords ==
  ASSUME NEW m \in Nat, NEW sql \in Seq(Words(m))
  PROVE  Parens(sql) \in Seq(Words(m)) /\ Negated(sql) \in Seq(Words(m))
<1>1. /\ <<Sign("(")>> \in Seq(Words(m)) /\ <<Sign(")")>> \in Seq(Words(m))
      /\ <<Sign("not")>> \in Seq(Words(m))
  BY SignWord
<1>2. <<Sign("(")>> \o sql \in Seq(Words(m))
  BY <1>1, Joined
<1>3. Parens(sql) \in Seq(Words(m))
  BY <1>1, <1>2, Joined DEF Parens
<1> QED BY <1>1, <1>3, Joined DEF Negated

(* Clauses joined by AND or OR. *)
LEMMA JoinWords ==
  ASSUME NEW m \in Nat, NEW pieces \in Seq(Seq(Words(m))), NEW sign \in {"and", "or"}
  PROVE  Join(pieces, sign) \in Seq(Words(m))
<1> DEFINE n == Len(pieces)
           Between(i) == IF i = 1 THEN <<>> ELSE <<Sign(sign)>>
           At(f, i) == IF i = 0 THEN <<>> ELSE f[i - 1] \o Between(i) \o pieces[i]
           Is(f) == f = [i \in 0..n |-> At(f, i)]
           Good(f, k) == /\ f = [i \in 0..n |-> f[i]]
                         /\ \A i \in 0..n : i < k => f[i] = At(f, i)
           S == {k \in Nat : \E f : Good(f, k)}
           g == CHOOSE f : Is(f)
           T == {k \in Nat : k <= n => g[k] \in Seq(Words(m))}
<1>0. n \in Nat /\ \A i \in 1..n : pieces[i] \in Seq(Words(m))
  OBVIOUS
<1> HIDE DEF n
<1>1. 0 \in S
  <2> HIDE DEF At
  <2>1. Good([i \in 0..n |-> 0], 0)
    BY <1>0
  <2> QED BY <2>1
<1>2. ASSUME NEW k \in Nat, k \in S PROVE k + 1 \in S
  <2>1. PICK f : Good(f, k)
    BY <1>2
  <2> DEFINE h == [i \in 0..n |-> At(f, i)]
  <2>2. ASSUME NEW i \in 0..n, i < k + 1 PROVE h[i] = At(h, i)
    <3>1. ASSUME i # 0 PROVE i - 1 \in 0..n /\ f[i - 1] = h[i - 1]
      <4> HIDE DEF At
      <4>1. i - 1 \in 0..n /\ i - 1 < k
        BY <2>2, <3>1, <1>0
      <4>2. f[i - 1] = At(f, i - 1)
        BY <2>1, <4>1
      <4> QED BY <4>1, <4>2
    <3>2. At(f, i) = At(h, i)
      <4> HIDE DEF h
      <4>1. CASE i = 0
        BY <4>1
      <4>2. CASE i # 0
        BY <3>1, <4>2
      <4> QED BY <4>1, <4>2
    <3> HIDE DEF At
    <3> QED BY <3>2
  <2>3. Good(h, k + 1)
    <3>1. h = [i \in 0..n |-> h[i]]
      OBVIOUS
    <3> HIDE DEF h, At
    <3> QED BY <2>2, <3>1
  <2> HIDE DEF Good, h
  <2> QED BY <2>3
<1>3. n + 1 \in S
  <2> HIDE DEF S
  <2> QED BY <1>0, <1>1, <1>2, Induction
<1>4. \E f : Is(f)
  <2>1. PICK f : Good(f, n + 1)
    BY <1>3
  <2> HIDE DEF At
  <2>2. \A i \in 0..n : f[i] = At(f, i)
    BY <2>1, <1>0
  <2>3. Is(f)
    BY <2>1, <2>2
  <2> QED BY <2>3
<1>5. Join(pieces, sign) = g[n]
  BY DEF Join, n
<1>6. \A i \in 0..n : g[i] = At(g, i)
  <2> HIDE DEF Is
  <2>1. Is(g)
    BY <1>4
  <2> HIDE DEF g, At
  <2> QED BY <2>1 DEF Is
<1> HIDE DEF g
<1>7. 0 \in T
  <2>1. g[0] = <<>>
    <3> HIDE DEF At
    <3>1. g[0] = At(g, 0)
      BY <1>0, <1>6
    <3>2. At(g, 0) = <<>>
      BY DEF At
    <3> QED BY <3>1, <3>2
  <2>2. <<>> \in Seq(Words(m))
    OBVIOUS
  <2>3. g[0] \in Seq(Words(m))
    BY <2>1, <2>2
  <2> QED BY <2>3
<1>8. ASSUME NEW k \in Nat, k \in T PROVE k + 1 \in T
  <2> SUFFICES ASSUME k + 1 <= n PROVE g[k + 1] \in Seq(Words(m))
    BY <1>0
  <2>1. k + 1 \in 0..n /\ k + 1 \in 1..n /\ (k + 1) - 1 = k /\ k + 1 # 0
    BY <1>0
  <2>2. g[k + 1] = g[k] \o Between(k + 1) \o pieces[k + 1]
    <3> HIDE DEF Between, At
    <3>1. g[k + 1] = At(g, k + 1)
      BY <1>6, <2>1
    <3>2. At(g, k + 1) = g[(k + 1) - 1] \o Between(k + 1) \o pieces[k + 1]
      BY <2>1 DEF At
    <3> QED BY <2>1, <3>1, <3>2
  <2>3. g[k] \in Seq(Words(m)) /\ pieces[k + 1] \in Seq(Words(m))
    BY <1>0, <1>8, <2>1
  <2>4. Between(k + 1) \in Seq(Words(m))
    <3>1. <<Sign(sign)>> \in Seq(Words(m)) /\ <<>> \in Seq(Words(m))
      BY SignWord
    <3> QED BY <3>1
  <2> HIDE DEF Between
  <2>5. g[k] \o Between(k + 1) \in Seq(Words(m))
    BY <2>3, <2>4, Joined
  <2> QED BY <2>2, <2>3, <2>5, Joined
<1>9. n \in T
  <2> HIDE DEF T
  <2> QED BY <1>0, <1>7, <1>8, Induction
<1> QED BY <1>0, <1>5, <1>9

(* A test is a word of the clauses that have its placeholder. *)
LEMMA TestWord ==
  ASSUME NEW m \in Nat, NEW col \in Columns, NEW how \in Hows,
         NEW param \in 0..m, NEW literal \in Seq(STRING)
  PROVE  <<Test(col, how, param, literal)>> \in Seq(Words(m))
<1>1. Test(col, how, param, literal) \in Words(m)
  BY DEF Test, Words
<1> QED BY <1>1, Singleton

(* Where an apostrophe ends a literal there is no test, and no placeholder.  *)
LEMMA SplicedWord ==
  ASSUME NEW m \in Nat, NEW term, NEW test, <<test>> \in Seq(Words(m))
  PROVE  Spliced(term, test) \in Seq(Words(m))
<1>1. <<Sign("torn")>> \in Seq(Words(m))
  BY SignWord
<1> QED BY <1>1 DEF Spliced

(* A sequence given place by place. *)
LEMMA Listed ==
  ASSUME NEW n \in Nat, NEW S, NEW f \in [1..n -> S]
  PROVE  f \in Seq(S)
OBVIOUS

(* The chain of OR of a bare word. *)
LEMMA FullTextWords ==
  ASSUME NEW n \in Nat \ {0}
  PROVE  CompileFullText(n) \in Seq(Words(n))
<1> DEFINE pieces == [i \in 1..6 |-> <<Test(FullTextFields[i], "icontains", n, <<>>)>>]
<1>1. DOMAIN FullTextFields = 1..6
  BY DEF FullTextFields
<1>2. ASSUME NEW i \in 1..6
      PROVE  <<Test(FullTextFields[i], "icontains", n, <<>>)>> \in Seq(Words(n))
  <2>1. FullTextFields[i] \in Columns
    BY DEF Columns
  <2>2. "icontains" \in Hows /\ n \in 0..n /\ <<>> \in Seq(STRING)
    BY DEF Hows, Operators
  <2> QED BY <2>1, <2>2, TestWord
<1>3. pieces \in [1..6 -> Seq(Words(n))]
  BY <1>2
<1>4. CompileFullText(n) = Join(pieces, "or")
  BY <1>1 DEF CompileFullText
<1> HIDE DEF pieces
<1>5. pieces \in Seq(Seq(Words(n)))
  BY <1>3, Listed
<1> QED BY <1>4, <1>5, JoinWords

(* The kinds of filter. *)
LEMMA Kinds ==
  ASSUME NEW term
  PROVE  ClassifyFilter(term) \in {"fulltext", "tag", "port", "country",
                                   "jsoncontains", "jsontext"}
<1>1. ClassifyFilter(term) =
        CASE term.key = <<>>              -> "fulltext"
          [] term.key = <<<<"tag">>>>     -> "tag"
          [] term.key = <<<<"port">>>>    -> "port"
          [] term.key = <<<<"country">>>> -> "country"
          [] OTHER -> IF term.op = "default" THEN "jsoncontains" ELSE "jsontext"
  BY DEF ClassifyFilter
<1> QED BY <1>1

(* One condition, with a parameter or without. *)
LEMMA BoundOne ==
  ASSUME NEW bound \in Nat, NEW value \in Values
  PROVE  /\ \A sql \in Seq(Words(bound + 1)) : Bound(Pushes(<<sql>>, <<value>>), bound)
         /\ \A sql \in Seq(Words(bound)) : Bound(Pushes(<<sql>>, <<>>), bound)
         /\ Bound(Nothing, bound)
<1>1. ASSUME NEW conds, NEW params \in Seq(Values),
             conds \in Seq(Seq(Words(bound + Len(params))))
      PROVE  Bound(Pushes(conds, params), bound)
  <2> DEFINE r == Pushes(conds, params)
  <2>1. r.conds = conds /\ r.params = params
    BY DEF Pushes
  <2> HIDE DEF r
  <2>2. Bound(r, bound)
    BY <1>1, <2>1 DEF Bound
  <2> QED BY <2>2 DEF r
<1>2. ASSUME NEW sql \in Seq(Words(bound + 1))
      PROVE  Bound(Pushes(<<sql>>, <<value>>), bound)
  <2>1. <<value>> \in Seq(Values) /\ Len(<<value>>) = 1
    BY Singleton
  <2>2. <<sql>> \in Seq(Seq(Words(bound + 1)))
    BY Singleton
  <2> QED BY <1>1, <2>1, <2>2
<1>3. <<>> \in Seq(Values) /\ Len(<<>>) = 0 /\ bound + 0 = bound
  OBVIOUS
<1>4. ASSUME NEW sql \in Seq(Words(bound))
      PROVE  Bound(Pushes(<<sql>>, <<>>), bound)
  <2>1. <<sql>> \in Seq(Seq(Words(bound)))
    BY Singleton
  <2> QED BY <1>1, <1>3, <2>1
<1>5. Bound(Nothing, bound)
  <2>1. <<>> \in Seq(Seq(Words(bound)))
    OBVIOUS
  <2> QED BY <1>1, <1>3, <2>1 DEF Nothing
<1> QED BY <1>2, <1>4, <1>5

(* A filter binds the parameter that its placeholder names. *)
LEMMA FilterBound ==
  ASSUME NEW term \in Terms, NEW bound \in Nat
  PROVE  Bound(CompileFilter(term, bound), bound)
<1> DEFINE n == bound + 1
           kind == ClassifyFilter(term)
<1>0. n \in Nat \ {0} /\ n \in 0..n /\ 0 \in 0..bound
  OBVIOUS
<1>1. /\ term.key \in Seq(Seq(STRING)) /\ term.value \in Seq(STRING)
      /\ term.op \in Operators \cup {"default"}
  BY DEF Terms
<1>2. /\ term.value \in Values /\ Upper(term.value) \in Values
      /\ term.key \in Columns /\ term.op \in Hows
      /\ PortColumn \in Columns /\ CountryColumn \in Columns /\ Tags \in Columns
      /\ {"equals", "has", "holds"} \subseteq Hows
  BY <1>1 DEF Values, Columns, Hows
<1>3. CompileFilter(term, bound) =
        CASE kind = "fulltext" ->
               IF term.value = <<>> THEN Nothing
               ELSE Pushes(<<CompileFullText(n)>>, <<term.value>>)
          [] kind = "tag"     -> Pushes(<<CompileTag(term)>>, <<>>)
          [] kind = "port"    ->
               Pushes(<<CompilePort(term, n)>>,
                      IF term.value \in PortNumber THEN <<term.value>> ELSE <<>>)
          [] kind = "country" ->
               Pushes(<<CompileCountry(n)>>, <<Upper(term.value)>>)
          [] kind = "jsoncontains" -> Pushes(<<CompileJsonContains(term)>>, <<>>)
          [] kind = "jsontext"   ->
               Pushes(<<CompileJsonText(term, n)>>, <<term.value>>)
  BY DEF CompileFilter
<1> HIDE DEF n, kind
<1>4. CASE kind = "fulltext"
  <2>1. CompileFilter(term, bound) = IF term.value = <<>> THEN Nothing
          ELSE Pushes(<<CompileFullText(n)>>, <<term.value>>)
    BY <1>3, <1>4
  <2>2. CompileFullText(n) \in Seq(Words(bound + 1))
    BY <1>0, FullTextWords DEF n
  <2>3. Bound(Pushes(<<CompileFullText(n)>>, <<term.value>>), bound)
    BY <1>2, <2>2, BoundOne
  <2> QED BY <1>2, <2>1, <2>3, BoundOne
<1>5. CASE kind = "tag"
  <2>1. CompileFilter(term, bound) = Pushes(<<CompileTag(term)>>, <<>>)
    BY <1>3, <1>5
  <2>2. CompileTag(term) \in Seq(Words(bound))
    <3>1. <<Test(Tags, "has", 0, term.value)>> \in Seq(Words(bound))
      BY <1>0, <1>1, <1>2, TestWord
    <3> QED BY <3>1, SplicedWord DEF CompileTag
  <2> QED BY <1>2, <2>1, <2>2, BoundOne
<1>6. CASE kind = "port"
  <2>1. CompileFilter(term, bound) =
          Pushes(<<CompilePort(term, n)>>,
                 IF term.value \in PortNumber THEN <<term.value>> ELSE <<>>)
    BY <1>3, <1>6
  <2>2. CASE term.value \in PortNumber
    <3>1. <<>> \in Seq(STRING)
      OBVIOUS
    <3>2. <<Test(PortColumn, "equals", n, <<>>)>> \in Seq(Words(n))
      BY <1>0, <1>2, <3>1, TestWord
    <3>3. CompilePort(term, n) \in Seq(Words(bound + 1))
      BY <2>2, <3>2 DEF CompilePort, n
    <3>4. CompileFilter(term, bound) = Pushes(<<CompilePort(term, n)>>, <<term.value>>)
      BY <2>1, <2>2
    <3> QED BY <1>2, <3>3, <3>4, BoundOne
  <2>3. CASE term.value \notin PortNumber
    <3>1. CompilePort(term, n) \in Seq(Words(bound))
      BY <2>3, SignWord DEF CompilePort, False
    <3>2. CompileFilter(term, bound) = Pushes(<<CompilePort(term, n)>>, <<>>)
      BY <2>1, <2>3
    <3> QED BY <1>2, <3>1, <3>2, BoundOne
  <2> QED BY <2>2, <2>3
<1>7. CASE kind = "country"
  <2>1. CompileFilter(term, bound) =
          Pushes(<<CompileCountry(n)>>, <<Upper(term.value)>>)
    BY <1>3, <1>7
  <2>2. <<>> \in Seq(STRING)
    OBVIOUS
  <2>3. <<Test(CountryColumn, "equals", n, <<>>)>> \in Seq(Words(n))
    BY <1>0, <1>2, <2>2, TestWord
  <2>4. CompileCountry(n) \in Seq(Words(bound + 1))
    BY <2>3 DEF CompileCountry, n
  <2> QED BY <1>2, <2>1, <2>4, BoundOne
<1>8. CASE kind = "jsoncontains"
  <2>1. CompileFilter(term, bound) = Pushes(<<CompileJsonContains(term)>>, <<>>)
    BY <1>3, <1>8
  <2>2. CompileJsonContains(term) \in Seq(Words(bound))
    <3>1. <<Test(term.key, "holds", 0, term.value)>> \in Seq(Words(bound))
      BY <1>0, <1>1, <1>2, TestWord
    <3> QED BY <3>1, SplicedWord DEF CompileJsonContains
  <2> QED BY <1>2, <2>1, <2>2, BoundOne
<1>9. CASE kind = "jsontext"
  <2>1. CompileFilter(term, bound) =
          Pushes(<<CompileJsonText(term, n)>>, <<term.value>>)
    BY <1>3, <1>9
  <2>2. <<>> \in Seq(STRING)
    OBVIOUS
  <2>3. <<Test(term.key, term.op, n, <<>>)>> \in Seq(Words(n))
    BY <1>0, <1>2, <2>2, TestWord
  <2>4. CompileJsonText(term, n) \in Seq(Words(bound + 1))
    BY <1>0, <2>3, SplicedWord DEF CompileJsonText, n
  <2> QED BY <1>2, <2>1, <2>4, BoundOne
<1> QED BY <1>4, <1>5, <1>6, <1>7, <1>8, <1>9, Kinds DEF kind

(* The conditions of two nodes one behind the other, of which the second is *)
(* compiled behind the parameters of the first.                             *)
LEMMA AndBound ==
  ASSUME NEW bound \in Nat, NEW left, NEW right, Bound(left, bound),
         Bound(right, bound + Len(left.params))
  PROVE  Bound(CompileAnd(left, right), bound)
<1> DEFINE r == CompileAnd(left, right)
           l == Len(left.params)
           k == Len(right.params)
           n == bound + l
           m == n + k
<1>1. r.conds = left.conds \o right.conds /\ r.params = left.params \o right.params
  BY DEF CompileAnd, Pushes
<1>2. /\ left.params \in Seq(Values) /\ left.conds \in Seq(Seq(Words(n)))
      /\ right.params \in Seq(Values) /\ right.conds \in Seq(Seq(Words(m)))
  BY DEF Bound
<1>3. l \in Nat /\ k \in Nat
  BY <1>2
<1>4. r.params \in Seq(Values) /\ Len(r.params) = l + k
  <2>1. left.params \o right.params \in Seq(Values)
    BY <1>2, Joined
  <2>2. Len(left.params \o right.params) = l + k
    BY <1>2, Joined
  <2> HIDE DEF r, l, k
  <2> QED BY <1>1, <2>1, <2>2
<1> HIDE DEF r, l, k
<1>5. n \in Nat /\ m \in Nat /\ n <= m
  BY <1>3
<1>6. bound + Len(r.params) = m
  BY <1>3, <1>4
<1> HIDE DEF n, m
<1>7. left.conds \in Seq(Seq(Words(m)))
  BY <1>2, <1>5, WordsGrow
<1>8. r.conds \in Seq(Seq(Words(m)))
  BY <1>1, <1>2, <1>7, Joined
<1>9. Bound(r, bound)
  BY <1>4, <1>6, <1>8 DEF Bound
<1> QED BY <1>9 DEF r

(* A side of an OR is made of the words of its conditions. *)
LEMMA SideWords ==
  ASSUME NEW m \in Nat, NEW conds \in Seq(Seq(Words(m)))
  PROVE  Side(conds) \in Seq(Words(m))
<1>1. CASE Len(conds) = 1
  <2>1. conds[1] \in Seq(Words(m))
    BY <1>1
  <2> QED BY <1>1, <2>1 DEF Side
<1>2. CASE Len(conds) # 1
  <2>1. Join(conds, "and") \in Seq(Words(m))
    BY JoinWords
  <2>2. Parens(Join(conds, "and")) \in Seq(Words(m))
    BY <2>1, ParensWords
  <2> QED BY <1>2, <2>2 DEF Side
<1> QED BY <1>1, <1>2

(* An OR, whose sides count from one. *)
LEMMA OrBound ==
  ASSUME NEW bound \in Nat, NEW left, NEW right, Bound(left, 0), Bound(right, 0)
  PROVE  Bound(CompileOr(left, right), bound)
<1>1. CASE <<>> \in {left.conds, right.conds}
  <2>1. CompileOr(left, right) = Nothing
    BY <1>1 DEF CompileOr
  <2>2. <<>> \in Values
    BY DEF Values
  <2> QED BY <2>1, <2>2, BoundOne
<1>2. CASE <<>> \notin {left.conds, right.conds}
  <2> DEFINE l == Len(left.params)
             k == Len(right.params)
             m == bound + (l + k)
             sql == Parens(Side(left.conds) \o <<Sign("or")>> \o Side(right.conds))
             r == Pushes(<<sql>>, left.params \o right.params)
  <2>1. CompileOr(left, right) = r
    BY <1>2 DEF CompileOr
  <2>2. /\ left.params \in Seq(Values) /\ left.conds \in Seq(Seq(Words(0 + l)))
        /\ right.params \in Seq(Values) /\ right.conds \in Seq(Seq(Words(0 + k)))
    BY DEF Bound
  <2>3. l \in Nat /\ k \in Nat
    BY <2>2
  <2>4. /\ left.params \o right.params \in Seq(Values)
        /\ Len(left.params \o right.params) = l + k
    BY <2>2, Joined
  <2>5. r.params = left.params \o right.params /\ r.conds = <<sql>>
    BY DEF Pushes
  <2> HIDE DEF l, k, r
  <2>6. /\ m \in Nat /\ 0 + l \in Nat /\ 0 + k \in Nat
        /\ 0 + l <= m /\ 0 + k <= m
    BY <2>3
  <2> HIDE DEF m
  <2>7. left.conds \in Seq(Seq(Words(m))) /\ right.conds \in Seq(Seq(Words(m)))
    BY <2>2, <2>6, WordsGrow
  <2>8. /\ Side(left.conds) \in Seq(Words(m)) /\ Side(right.conds) \in Seq(Words(m))
        /\ <<Sign("or")>> \in Seq(Words(m))
    BY <2>6, <2>7, SideWords, SignWord
  <2>9. Side(left.conds) \o <<Sign("or")>> \o Side(right.conds) \in Seq(Words(m))
    <3>1. Side(left.conds) \o <<Sign("or")>> \in Seq(Words(m))
      BY <2>8, Joined
    <3> QED BY <2>8, <3>1, Joined
  <2>10. sql \in Seq(Words(m))
    BY <2>6, <2>9, ParensWords
  <2> HIDE DEF sql
  <2>11. r.conds \in Seq(Seq(Words(m)))
    BY <2>5, <2>10, Singleton
  <2>12. m = bound + Len(r.params) /\ r.params \in Seq(Values)
    BY <2>4, <2>5 DEF m
  <2>13. Bound(r, bound)
    BY <2>11, <2>12 DEF Bound
  <2> QED BY <2>1, <2>13
<1> QED BY <1>1, <1>2

(* A NOT, whose condition counts from one. *)
LEMMA NotBound ==
  ASSUME NEW bound \in Nat, NEW inner, Bound(inner, 0)
  PROVE  Bound(CompileNot(inner), bound)
<1>1. CASE inner.conds = <<>>
  <2>1. CompileNot(inner) = Nothing
    BY <1>1 DEF CompileNot
  <2>2. <<>> \in Values
    BY DEF Values
  <2> QED BY <2>1, <2>2, BoundOne
<1>2. CASE inner.conds # <<>>
  <2> DEFINE l == Len(inner.params)
             m == bound + l
             sql == Negated(Join(inner.conds, "and"))
             r == Pushes(<<sql>>, inner.params)
  <2>1. CompileNot(inner) = r
    BY <1>2 DEF CompileNot
  <2>2. inner.params \in Seq(Values) /\ inner.conds \in Seq(Seq(Words(0 + l)))
    BY DEF Bound
  <2>3. l \in Nat
    BY <2>2
  <2>4. r.params = inner.params /\ r.conds = <<sql>>
    BY DEF Pushes
  <2> HIDE DEF l, r
  <2>5. m \in Nat /\ 0 + l \in Nat /\ 0 + l <= m
    BY <2>3
  <2> HIDE DEF m
  <2>6. inner.conds \in Seq(Seq(Words(m)))
    BY <2>2, <2>5, WordsGrow
  <2>7. Join(inner.conds, "and") \in Seq(Words(m))
    BY <2>5, <2>6, JoinWords
  <2>8. sql \in Seq(Words(m))
    BY <2>5, <2>7, ParensWords
  <2> HIDE DEF sql
  <2>9. r.conds \in Seq(Seq(Words(m)))
    BY <2>4, <2>8, Singleton
  <2>10. m = bound + Len(r.params)
    BY <2>4 DEF m, l
  <2>11. Bound(r, bound)
    BY <2>2, <2>4, <2>9, <2>10 DEF Bound
  <2> QED BY <2>1, <2>11
<1> QED BY <1>1, <1>2

(* What a tree is: a filter, or a node whose sides are less deep. *)
LEMMA NodeCases ==
  ASSUME NEW d \in 0..MaxText, NEW node \in NodesUpTo[d]
  PROVE  \/ node \in Terms /\ node.is = "filter"
         \/ /\ d # 0 /\ d - 1 \in 0..MaxText /\ node.is \in {"and", "or"}
            /\ node.left \in NodesUpTo[d - 1] /\ node.right \in NodesUpTo[d - 1]
         \/ /\ d # 0 /\ d - 1 \in 0..MaxText /\ node.is = "not"
            /\ node.inner \in NodesUpTo[d - 1]
<1>1. \A term \in Terms : term.is = "filter"
  BY DEF Terms
<1>2. CASE d = 0
  <2>1. node \in Terms
    BY <1>2, NodesUpToIs
  <2> QED BY <1>1, <2>1
<1>3. CASE d # 0
  <2>1. d - 1 \in 0..MaxText
    BY <1>3, CompilerAssumption
  <2> DEFINE N == NodesUpTo[d - 1]
  <2>2. NodesUpTo[d] = Over(N)
    BY <1>3, NodesUpToIs
  <2> HIDE DEF N
  <2>3. \/ node \in Terms
        \/ node \in [is: {"and", "or"}, left: N, right: N]
        \/ node \in [is: {"not"}, inner: N]
    BY <2>2 DEF Over
  <2>4. CASE node \in [is: {"and", "or"}, left: N, right: N]
    <3>1. node.is \in {"and", "or"} /\ node.left \in N /\ node.right \in N
      BY <2>4
    <3> QED BY <1>3, <2>1, <3>1 DEF N
  <2>5. CASE node \in [is: {"not"}, inner: N]
    <3>1. node.is = "not" /\ node.inner \in N
      BY <2>5
    <3> QED BY <1>3, <2>1, <3>1 DEF N
  <2> QED BY <1>1, <2>3, <2>4, <2>5
<1> QED BY <1>2, <1>3

(* What is compiled of a node depends on its sides only. *)
LEMMA NodeSame ==
  ASSUME NEW f, NEW g, NEW d \in 0..MaxText, NEW node \in NodesUpTo[d], NEW bound,
         d # 0 => \A c \in NodesUpTo[d - 1] : f[c] = g[c]
  PROVE  CompileNode(f, node, bound) = CompileNode(g, node, bound)
<1>1. CASE node.is = "filter"
  BY <1>1 DEF CompileNode
<1>2. CASE /\ d # 0 /\ node.is \in {"and", "or"}
           /\ node.left \in NodesUpTo[d - 1] /\ node.right \in NodesUpTo[d - 1]
  <2>1. f[node.left] = g[node.left] /\ f[node.right] = g[node.right]
    BY <1>2
  <2> QED BY <1>2, <2>1 DEF CompileNode
<1>3. CASE d # 0 /\ node.is = "not" /\ node.inner \in NodesUpTo[d - 1]
  <2>1. f[node.inner] = g[node.inner]
    BY <1>3
  <2> QED BY <1>3, <2>1 DEF CompileNode
<1> QED BY <1>1, <1>2, <1>3, NodeCases

(* A node pushes no placeholder without its parameter, if its sides do not. *)
LEMMA NodeBound ==
  ASSUME NEW f, NEW d \in 0..MaxText, NEW node \in NodesUpTo[d], NEW bound \in Nat,
         d # 0 => \A c \in NodesUpTo[d - 1] : \A b \in Nat : Bound(f[c][b], b)
  PROVE  Bound(CompileNode(f, node, bound), bound)
<1>1. CASE node \in Terms /\ node.is = "filter"
  <2>1. CompileNode(f, node, bound) = CompileFilter(node, bound)
    BY <1>1 DEF CompileNode
  <2> QED BY <1>1, <2>1, FilterBound
<1>2. CASE /\ d # 0 /\ node.is \in {"and", "or"}
           /\ node.left \in NodesUpTo[d - 1] /\ node.right \in NodesUpTo[d - 1]
  <2> DEFINE left(b) == f[node.left][b]
             right(b) == f[node.right][b]
  <2>1. \A b \in Nat : Bound(left(b), b) /\ Bound(right(b), b)
    BY <1>2
  <2>2. CASE node.is = "and"
    <3> DEFINE n == bound + Len(left(bound).params)
    <3>1. CompileNode(f, node, bound) = CompileAnd(left(bound), right(n))
      BY <2>2 DEF CompileNode
    <3> HIDE DEF left, right
    <3>2. Bound(left(bound), bound)
      BY <2>1
    <3>3. Len(left(bound).params) \in Nat
      BY <3>2 DEF Bound
    <3>4. n \in Nat
      BY <3>3
    <3>5. Bound(right(n), n)
      BY <2>1, <3>4
    <3> QED BY <3>1, <3>2, <3>5, AndBound
  <2>3. CASE node.is = "or"
    <3>1. CompileNode(f, node, bound) = CompileOr(left(0), right(0))
      BY <2>3 DEF CompileNode
    <3> HIDE DEF left, right
    <3>2. Bound(left(0), 0) /\ Bound(right(0), 0)
      BY <2>1
    <3> QED BY <3>1, <3>2, OrBound
  <2> QED BY <1>2, <2>2, <2>3
<1>3. CASE d # 0 /\ node.is = "not" /\ node.inner \in NodesUpTo[d - 1]
  <2> DEFINE inner == f[node.inner][0]
  <2>1. CompileNode(f, node, bound) = CompileNot(inner)
    BY <1>3 DEF CompileNode
  <2>2. Bound(inner, 0)
    BY <1>3
  <2> HIDE DEF inner
  <2> QED BY <2>1, <2>2, NotBound
<1> QED BY <1>1, <1>2, <1>3, NodeCases

(* The compiler exists: what it makes of a tree depends on less deep trees. *)
LEMMA CompiledExists ==
  \E f : f = [node \in NodesUpTo[MaxText] |->
                [bound \in Nat |-> CompileNode(f, node, bound)]]
<1> DEFINE D == NodesUpTo[MaxText]
           At(f, node) == [bound \in Nat |-> CompileNode(f, node, bound)]
           Good(f, k) == /\ f = [node \in D |-> f[node]]
                         /\ \A d \in 0..MaxText : d < k =>
                              \A node \in NodesUpTo[d] : f[node] = At(f, node)
           S == {k \in Nat : \E f : Good(f, k)}
<1>0. MaxText \in Nat
  BY CompilerAssumption
<1>1. 0 \in S
  <2> HIDE DEF At
  <2>1. Good([node \in D |-> 0], 0)
    <3> HIDE DEF D
    <3> QED BY <1>0
  <2> QED BY <2>1
<1>2. ASSUME NEW k \in Nat, k \in S PROVE k + 1 \in S
  <2>1. PICK f : Good(f, k)
    BY <1>2
  <2> DEFINE g == [node \in D |-> At(f, node)]
  <2>2. g = [node \in D |-> g[node]] /\ \A node \in D : g[node] = At(f, node)
    <3> HIDE DEF D, At
    <3> QED OBVIOUS
  <2>3. \A d \in 0..MaxText : NodesUpTo[d] \subseteq D
    BY <1>0, NodesGrow
  <2> HIDE DEF g, D
  <2>4. \A d \in 0..MaxText : d < k => \A node \in NodesUpTo[d] : f[node] = g[node]
    <3> HIDE DEF At
    <3> QED BY <2>1, <2>2, <2>3
  <2>5. ASSUME NEW d \in 0..MaxText, d < k + 1, NEW node \in NodesUpTo[d]
        PROVE  g[node] = At(g, node)
    <3>1. d # 0 => d - 1 \in 0..MaxText /\ d - 1 < k
      BY <1>0, <2>5
    <3>2. d # 0 => \A c \in NodesUpTo[d - 1] : f[c] = g[c]
      BY <2>4, <3>1
    <3>3. \A bound \in Nat :
            CompileNode(f, node, bound) = CompileNode(g, node, bound)
      BY <2>5, <3>2, NodeSame
    <3>4. At(f, node) = At(g, node)
      BY <3>3
    <3>5. g[node] = At(f, node)
      <4> HIDE DEF At
      <4> QED BY <2>2, <2>3, <2>5
    <3> HIDE DEF At
    <3> QED BY <3>4, <3>5
  <2>6. Good(g, k + 1)
    <3> HIDE DEF At
    <3> QED BY <2>2, <2>5
  <2> HIDE DEF Good
  <2> QED BY <1>2, <2>6
<1>3. MaxText + 1 \in S
  <2> HIDE DEF S
  <2> QED BY <1>0, <1>1, <1>2, Induction
<1>4. PICK f : Good(f, MaxText + 1)
  BY <1>3
<1>5. MaxText \in 0..MaxText /\ MaxText < MaxText + 1
  BY <1>0
<1>6. f = [node \in D |-> f[node]] /\ \A node \in D : f[node] = At(f, node)
  <2> HIDE DEF At
  <2> QED BY <1>4, <1>5
<1>7. f = [node \in D |-> At(f, node)]
  <2> HIDE DEF At, D
  <2> QED BY <1>6
<1> QED BY <1>7

(* The clause of a tree has no placeholder without a parameter. *)
LEMMA CompiledBound ==
  ASSUME NEW root \in NodesUpTo[MaxText]
  PROVE  /\ CompileToSql(root).params \in Seq(Values)
         /\ CompileToSql(root).where \in Seq(Words(Len(CompileToSql(root).params)))
<1> DEFINE D == NodesUpTo[MaxText]
           At(f, node) == [bound \in Nat |-> CompileNode(f, node, bound)]
           Is(f) == f = [node \in D |-> At(f, node)]
           compiled == CHOOSE f : Is(f)
           all == compiled[root][0]
           S == {k \in Nat : k <= MaxText =>
                   \A node \in NodesUpTo[k] : \A bound \in Nat :
                     Bound(compiled[node][bound], bound)}
<1>0. MaxText \in Nat
  BY CompilerAssumption
<1>1. CompileToSql(root) = [where |-> Join(all.conds, "and"), params |-> all.params]
  BY DEF CompileToSql
<1>2. \E f : Is(f)
  <2>1. PICK f : f = [node \in D |-> At(f, node)]
    BY CompiledExists
  <2> QED BY <2>1
<1>3. Is(compiled)
  <2> HIDE DEF Is
  <2> QED BY <1>2
<1> HIDE DEF compiled
<1>4. \A node \in D : \A bound \in Nat :
        compiled[node][bound] = CompileNode(compiled, node, bound)
  <2>1. \A node \in D : compiled[node] = At(compiled, node)
    <3> HIDE DEF At, D
    <3> QED BY <1>3
  <2>2. ASSUME NEW node \in D, NEW bound \in Nat
        PROVE  At(compiled, node)[bound] = CompileNode(compiled, node, bound)
    OBVIOUS
  <2> HIDE DEF At, D
  <2> QED BY <2>1, <2>2
<1> HIDE DEF Is
<1>5. \A d \in 0..MaxText : NodesUpTo[d] \subseteq D
  BY <1>0, NodesGrow
<1> HIDE DEF D
<1>6. ASSUME NEW k \in 0..MaxText,
             k # 0 => \A c \in NodesUpTo[k - 1] : \A b \in Nat :
                        Bound(compiled[c][b], b)
      PROVE  \A node \in NodesUpTo[k] : \A bound \in Nat :
               Bound(compiled[node][bound], bound)
  <2> SUFFICES ASSUME NEW node \in NodesUpTo[k], NEW bound \in Nat
               PROVE  Bound(compiled[node][bound], bound)
    OBVIOUS
  <2>1. compiled[node][bound] = CompileNode(compiled, node, bound)
    BY <1>4, <1>5
  <2>2. Bound(CompileNode(compiled, node, bound), bound)
    BY <1>6, NodeBound
  <2> QED BY <2>1, <2>2
<1>7. 0 \in S
  <2>1. 0 \in 0..MaxText
    BY <1>0
  <2> QED BY <1>6, <2>1
<1>8. ASSUME NEW k \in Nat, k \in S PROVE k + 1 \in S
  <2> SUFFICES ASSUME k + 1 <= MaxText
               PROVE  \A node \in NodesUpTo[k + 1] : \A bound \in Nat :
                        Bound(compiled[node][bound], bound)
    OBVIOUS
  <2>1. k + 1 \in 0..MaxText /\ k <= MaxText /\ (k + 1) - 1 = k
    BY <1>0
  <2>2. \A c \in NodesUpTo[k] : \A b \in Nat : Bound(compiled[c][b], b)
    BY <1>8, <2>1
  <2> QED BY <1>6, <2>1, <2>2
<1>9. MaxText \in S
  <2> HIDE DEF S
  <2> QED BY <1>0, <1>7, <1>8, Induction
<1>10. Bound(all, 0)
  BY <1>0, <1>9
<1> HIDE DEF all, S
<1> DEFINE n == Len(all.params)
<1>11. all.params \in Seq(Values) /\ all.conds \in Seq(Seq(Words(0 + n)))
  BY <1>10 DEF Bound
<1>12. n \in Nat /\ 0 + n = n
  BY <1>11
<1> DEFINE where == Join(all.conds, "and")
<1>13. where \in Seq(Words(n))
  <2> HIDE DEF n
  <2> QED BY <1>11, <1>12, JoinWords
<1> HIDE DEF where
<1>14. CompileToSql(root).where = where /\ CompileToSql(root).params = all.params
  BY <1>1 DEF where
<1> QED BY <1>11, <1>13, <1>14 DEF where

-----------------------------------------------------------------------------
(* A search *)

(* At each stage, the tree and the clause are those of the text. *)
Reads ==
  /\ text \in Seq(STRING) /\ Len(text) <= MaxText
  /\ stage \in {"typed", "parsed", "compiled"}
  /\ stage # "typed" =>
       LET tokens == Tokenize(text)
           parsed == ParseTokens(tokens)
       IN /\ tree = parsed.node
          /\ unread = IF parsed.pos > Len(tokens) THEN 0
                      ELSE Len(tokens) + 1 - parsed.pos
  /\ stage = "compiled" => query = CompileToSql(tree)

(* A text is typed first. *)
LEMMA ReadsInit == Init => Reads
<1> SUFFICES ASSUME Init PROVE Reads
  OBVIOUS
<1>1. text \in Texts \cup {Written(t) : t \in Trees}
  BY DEF Init
<1>2. text \in Seq(STRING) /\ Len(text) <= MaxText
  BY <1>1, SearchAssumption
<1>3. stage = "typed"
  BY DEF Init
<1> QED BY <1>2, <1>3 DEF Reads

(* Parsing and compiling follow. *)
LEMMA ReadsNext == Reads /\ [Next]_vars => Reads'
<1> SUFFICES ASSUME Reads, [Next]_vars PROVE Reads'
  OBVIOUS
<1>1. CASE Parse
  <2>1. /\ text' = text /\ stage' = "parsed"
        /\ tree' = ParseTokens(Tokenize(text)).node
        /\ unread' = IF ParseTokens(Tokenize(text)).pos > Len(Tokenize(text)) THEN 0
                     ELSE Len(Tokenize(text)) + 1 - ParseTokens(Tokenize(text)).pos
    BY <1>1 DEF Parse
  <2> QED BY <2>1 DEF Reads
<1>2. CASE Compile
  <2>1. /\ text' = text /\ tree' = tree /\ unread' = unread
        /\ stage = "parsed" /\ stage' = "compiled" /\ query' = CompileToSql(tree)
    BY <1>2 DEF Compile
  <2> QED BY <2>1 DEF Reads
<1>3. CASE UNCHANGED vars
  <2>1. /\ text' = text /\ stage' = stage /\ tree' = tree /\ unread' = unread
        /\ query' = query
    BY <1>3 DEF vars
  <2> QED BY <2>1 DEF Reads
<1> QED BY <1>1, <1>2, <1>3 DEF Next

(* What parse_query and compile_to_sql return is that of the text.          *)
LEMMA SearchReads == Spec => []Reads
<1> QED BY ReadsInit, ReadsNext, PTL DEF Spec

(* Tokenize returns a line of tokens. *)
LEMMA TokensOfText ==
  ASSUME Reads
  PROVE  Tokenize(text) \in Lines
<1>1. text \in Seq(STRING) /\ Len(text) <= MaxText
  BY DEF Reads
<1> DEFINE tokens == Tokenize(text)
           n == Len(text)
<1>2. tokens \in Seq(Tokens) /\ Len(tokens) <= n
  BY <1>1, TokenizeTyped
<1>3. Len(tokens) \in Nat /\ n \in Nat /\ MaxText \in Nat
  BY <1>1, <1>2, CompilerAssumption
<1> HIDE DEF tokens
<1>4. Len(tokens) <= MaxText
  <2>1. n <= MaxText
    BY <1>1
  <2> HIDE DEF n
  <2> QED BY <1>2, <1>3, <2>1
<1>5. tokens \in Lines
  BY <1>2, <1>4 DEF Lines
<1> QED BY <1>5 DEF tokens

(* The tree of a text is no deeper than the text is long. *)
LEMMA TreeTyped ==
  ASSUME Reads, stage # "typed"
  PROVE  tree \in NodesUpTo[MaxText]
<1>1. tree = ParseTokens(Tokenize(text)).node
  BY DEF Reads
<1> QED BY <1>1, TokensOfText, ParseTokensRead

(* The placeholders of a clause are those of its words. *)
LEMMA PlaceholdersOfWords ==
  ASSUME NEW m \in Nat, NEW where \in Seq(Words(m))
  PROVE  Placeholders(where) \subseteq 1..m
<1> SUFFICES ASSUME NEW p \in Placeholders(where) PROVE p \in 1..m
  OBVIOUS
<1>1. PICK i \in DOMAIN where : where[i].is = "test" /\ p = where[i].param /\ p # 0
  BY DEF Placeholders
<1> DEFINE word == where[i]
<1>2. word \in Words(m)
  <2>1. DOMAIN where = 1..Len(where) /\ \A j \in 1..Len(where) : where[j] \in Words(m)
    OBVIOUS
  <2> QED BY <1>1, <2>1
<1>3. word.is = "test" /\ p = word.param /\ p # 0
  BY <1>1
<1> HIDE DEF word
<1>4. word.param \in 0..m
  <2>1. CASE word \in [is: {"test"}, col: Columns, how: Hows, param: 0..m,
                       literal: Seq(STRING)]
    BY <2>1
  <2>2. CASE word \in [is: {"(", ")", "and", "or", "not", "false", "torn"}]
    <3>1. word.is \in {"(", ")", "and", "or", "not", "false", "torn"}
      BY <2>2
    <3> QED BY <1>3, <3>1
  <2> QED BY <1>2, <2>1, <2>2 DEF Words
<1> QED BY <1>3, <1>4

(* Whatever is typed, each placeholder of the clause that compile_to_sql    *)
(* returns names a parameter that routes.rs binds, unless an apostrophe     *)
(* ends a literal of the clause.                                            *)
THEOREM SearchPlaceholdersBound == Spec => []PlaceholdersBound
<1>1. Reads => PlaceholdersBound
  <2> SUFFICES ASSUME Reads, stage = "compiled", ~ Torn(query.where)
               PROVE  Placeholders(query.where) \subseteq 1..Len(query.params)
    BY DEF PlaceholdersBound
  <2>1. query = CompileToSql(tree) /\ tree \in NodesUpTo[MaxText]
    BY TreeTyped DEF Reads
  <2> DEFINE n == Len(query.params)
             where == query.where
  <2>2. query.params \in Seq(Values) /\ where \in Seq(Words(n))
    BY <2>1, CompiledBound
  <2>3. n \in Nat
    BY <2>2
  <2> HIDE DEF n, where
  <2>4. Placeholders(where) \subseteq 1..n
    BY <2>2, <2>3, PlaceholdersOfWords
  <2> QED BY <2>4 DEF n, where
<1> QED BY <1>1, SearchReads, PTL

(* A text is read to its end (what parse_or leaves to Parser::parse), stray *)
(* operators included, unless a ")" closes what no "(" opened: where the    *)
(* parser stops, it has read as many ")" as "(", and the next is a ")".     *)
THEOREM SearchBalancedQueryRead == Spec => []BalancedQueryRead
<1>1. Reads => BalancedQueryRead
  <2> DEFINE tokens == Tokenize(text)
             pos == ParseTokens(tokens).pos
  <2> SUFFICES ASSUME Reads, stage = "parsed",
                      \A n \in DOMAIN tokens : Count(tokens, ")", n) <= Count(tokens, "(", n)
               PROVE  unread = 0
    BY DEF BalancedQueryRead, Count
  <2>1. unread = IF pos > Len(tokens) THEN 0 ELSE Len(tokens) + 1 - pos
    BY DEF Reads
  <2>2. tokens \in Lines
    BY TokensOfText
  <2> HIDE DEF tokens
  <2>3. /\ pos \in 1..(Len(tokens) + 2)
        /\ pos <= Len(tokens) => tokens[pos].is = ")" /\ Net(tokens, pos - 1) <= 0
    BY <2>2, ParseTokensRead
  <2>4. Len(tokens) \in Nat /\ DOMAIN tokens = 1..Len(tokens)
    BY <2>2 DEF Lines
  <2> HIDE DEF pos
  <2>5. ASSUME pos <= Len(tokens) PROVE FALSE
    <3> DEFINE e == pos - 1
    <3>1. e \in Nat /\ e + 1 = pos /\ pos \in DOMAIN tokens
      BY <2>3, <2>4, <2>5
    <3> HIDE DEF e
    <3>2. tokens[e + 1].is = ")" /\ Net(tokens, e) <= 0
      BY <2>3, <2>5, <3>1 DEF e
    <3>3. Net(tokens, e) \in Int /\ Net(tokens, e + 1) = Net(tokens, e) - 1
      BY <3>1, <3>2, NetStep
    <3>4. /\ Count(tokens, ")", e + 1) \in Nat /\ Count(tokens, "(", e + 1) \in Nat
          /\ Count(tokens, ")", e + 1) <= Count(tokens, "(", e + 1)
      BY <3>1, CountStep
    <3>5. Net(tokens, e + 1) >= 0
      BY <3>4 DEF Net
    <3> QED BY <3>2, <3>3, <3>5
  <2> QED BY <2>1, <2>3, <2>4, <2>5
<1> QED BY <1>1, SearchReads, PTL
=============================================================================
