--------------------------- MODULE DocumentsProofs ---------------------------
(* The theorems of Documents, for every set of endpoints, every page, every *)
(* corpus of signatures the assumption allows and every run of probes,      *)
(* deployments and maintenance commands.                                    *)
(*                                                                          *)
(* MaintenanceForgets is the inductive part: it gives a stored document as  *)
(* what a probe would store now, so that what is true of every document a   *)
(* probe stores is true of every stored document.  Its two hard steps are   *)
(* that normalising settles and that reidentify_http, which begins with     *)
(* what an older corpus left, ends where a probe would.  The first part of  *)
(* this module is about Normalize alone: what the canonical form of a       *)
(* document settles, for every kind, every set of raw tags and every name   *)
(* of a product.                                                            *)
EXTENDS Documents, WellFoundedInduction, TLAPS

-----------------------------------------------------------------------------
(* Loops *)

(* The order of the naturals as a relation, the form the library's theorems *)
(* on well-founded relations take.                                          *)
LEMMA LessWellFounded == IsWellFoundedOn({p \in Nat \X Nat : p[1] < p[2]}, Nat)
<1>1. OpToRel(<, Nat) = {p \in Nat \X Nat : p[1] < p[2]}
  BY DEF OpToRel
<1> QED BY <1>1, NatLessThanWellFounded

(* A set of naturals that is not empty has a least element. *)
LEMMA Least ==
  ASSUME NEW T \in SUBSET Nat, T # {}
  PROVE  \E m \in T : \A k \in T : m <= k
<1> DEFINE R == {p \in Nat \X Nat : p[1] < p[2]}
<1>1. IsWellFoundedOn(R, Nat)
  BY LessWellFounded
<1> HIDE DEF R
<1>2. \E x \in T : \A y \in T : <<y, x>> \notin R
  BY <1>1, WFMin
<1>3. PICK x \in T : \A y \in T : <<y, x>> \notin R
  BY <1>2
<1>4. \A y \in T : x <= y
  <2> SUFFICES ASSUME NEW y \in T PROVE x <= y
    OBVIOUS
  <2>1. <<y, x>> \notin R
    BY <1>3
  <2>2. <<y, x>> \in Nat \X Nat /\ <<y, x>>[1] = y /\ <<y, x>>[2] = x
    OBVIOUS
  <2>3. ~(y < x)
    BY <2>1, <2>2 DEF R
  <2> QED BY <2>3
<1> QED BY <1>4

(* Induction, about a set instead of a predicate. *)
LEMMA Induction ==
  ASSUME NEW S, 0 \in S, \A n \in Nat : n \in S => n + 1 \in S
  PROVE  Nat \subseteq S
<1> SUFFICES ASSUME Nat \ S # {} PROVE FALSE
  OBVIOUS
<1>1. PICK m \in Nat \ S : \A k \in Nat \ S : m <= k
  BY Least
<1>2. m # 0 /\ m - 1 \in Nat /\ m - 1 \notin Nat \ S
  BY <1>1
<1> QED BY <1>1, <1>2

(* The same over the positions of a sequence. *)
LEMMA PositionInduction ==
  ASSUME NEW n \in Nat, NEW S, 0 \in S,
         \A i \in 1..n : i - 1 \in S => i \in S
  PROVE  0..n \subseteq S
<1> DEFINE T == {i \in Nat : i <= n => i \in S}
<1>1. 0 \in T
  OBVIOUS
<1>2. \A i \in Nat : i \in T => i + 1 \in T
  <2> SUFFICES ASSUME NEW i \in Nat, i \in T, i + 1 <= n
               PROVE  i + 1 \in S
    OBVIOUS
  <2>1. i \in S /\ i + 1 \in 1..n /\ (i + 1) - 1 = i
    OBVIOUS
  <2> QED BY <2>1
<1> HIDE DEF T
<1>3. Nat \subseteq T
  BY <1>1, <1>2, Induction
<1> QED BY <1>3 DEF T

(* What a loop over n positions has after each of them, given what it       *)
(* starts with and what it makes of a position and what it had before.      *)
Steps(n, X) == [(1..n) \X X -> X]
Runs(n, X, start, step) ==
  {f \in [0..n -> X] :
     f[0] = start /\ \A i \in 1..n : f[i] = step[<<i, f[i - 1]>>]}

(* A loop has a run, whatever a step does. *)
LEMMA LoopRuns ==
  ASSUME NEW n \in Nat, NEW X, NEW start \in X, NEW step \in Steps(n, X)
  PROVE  \E f : f \in Runs(n, X, start, step)
<1> DEFINE Upto(k) == {f \in [0..n -> X] :
                        /\ f[0] = start
                        /\ \A i \in 1..k : f[i] = step[<<i, f[i - 1]>>]}
           S == {k \in 0..n : Upto(k) # {}}
<1> USE DEF Steps
<1>1. [i \in 0..n |-> start] \in Upto(0)
  OBVIOUS
<1>2. ASSUME NEW k \in 1..n, NEW f \in Upto(k - 1) PROVE Upto(k) # {}
  <2>f. f \in [0..n -> X] /\ f[0] = start
        /\ \A i \in 1..(k - 1) : f[i] = step[<<i, f[i - 1]>>]
    OBVIOUS
  <2> DEFINE g == [f EXCEPT ![k] = step[<<k, f[k - 1]>>]]
  <2>2. step[<<k, f[k - 1]>>] \in X
    BY <2>f
  <2>3. g \in [0..n -> X]
    BY <2>2, <2>f
  <2>4. g[k] = step[<<k, f[k - 1]>>] /\ \A i \in 0..n : i # k => g[i] = f[i]
    BY <2>f
  <2> HIDE DEF g
  <2>5. g[0] = start
    BY <2>f, <2>4
  <2>6. \A i \in 1..k : g[i] = step[<<i, g[i - 1]>>]
    <3> SUFFICES ASSUME NEW i \in 1..k PROVE g[i] = step[<<i, g[i - 1]>>]
      OBVIOUS
    <3>1. i - 1 \in 0..n /\ i - 1 # k /\ g[i - 1] = f[i - 1]
      BY <2>4
    <3>2. CASE i = k
      BY <3>1, <3>2, <2>4
    <3>3. CASE i # k
      <4>1. i \in 1..(k - 1) /\ i \in 0..n
        BY <3>3
      <4> QED BY <4>1, <3>1, <3>3, <2>f, <2>4
    <3> QED BY <3>2, <3>3
  <2>7. g \in Upto(k)
    BY <2>3, <2>5, <2>6
  <2> QED BY <2>7
<1>3. Upto(n) # {}
  <2> HIDE DEF Upto
  <2>1. 0 \in S
    BY <1>1
  <2>2. \A k \in 1..n : k - 1 \in S => k \in S
    BY <1>2
  <2> HIDE DEF S
  <2>3. 0..n \subseteq S
    BY <2>1, <2>2, PositionInduction
  <2> QED BY <2>3 DEF S
<1> QED BY <1>3 DEF Runs

-----------------------------------------------------------------------------
(* Kinds and tags *)

(* A canonical kind is left alone. *)
LEMMA KindSettles ==
  ASSUME NEW kind
  PROVE  CanonicalKind(CanonicalKind(kind)) = CanonicalKind(kind)
BY DEF CanonicalKind

(* The category of a kind is an allowed tag that is its own alias. *)
LEMMA CategoryAllowed ==
  ASSUME NEW kind, NEW tag \in KindCategory(kind)
  PROVE  tag \in AllowedTags /\ Alias(tag) = tag
BY DEF KindCategory, AllowedTags, Alias

(* No alias has an alias of its own. *)
LEMMA AliasSettles ==
  ASSUME NEW tag
  PROVE  Alias(Alias(tag)) = Alias(tag)
BY DEF Alias

(* An allowed tag is not the name of a product. *)
LEMMA AllowedNoProduct ==
  ASSUME NEW tag \in AllowedTags
  PROVE  tag \notin ProductTags
BY DEF AllowedTags, ProductTags

(* What canonical_tag returns is allowed and its own alias. *)
LEMMA CanonicalAllowed ==
  ASSUME NEW raw, NEW tag \in CanonicalTag(raw)
  PROVE  tag \in AllowedTags /\ Alias(tag) = tag
<1>1. tag \in {Alias(Lower(raw))} \cap AllowedTags
  BY DEF CanonicalTag
<1>2. Alias(Alias(Lower(raw))) = Alias(Lower(raw))
  BY AliasSettles
<1> QED BY <1>1, <1>2

(* canonical_tag keeps an allowed tag that is its own alias. *)
LEMMA CanonicalKeeps ==
  ASSUME NEW tag \in AllowedTags, Alias(tag) = tag
  PROVE  CanonicalTag(tag) = {tag}
<1>1. Lower(tag) = tag /\ tag \notin Garbage
  BY TagAssumption
<1>2. tag \notin ProductTags
  BY AllowedNoProduct
<1> QED BY <1>1, <1>2 DEF CanonicalTag

(* Every tag of a normalised document is allowed, whatever the probes and   *)
(* the signatures said ("Full allowlist of canonical category tags").       *)
THEOREM TagsAllowed ==
  ASSUME NEW kind, NEW tags
  PROVE  NormalizeTags(kind, tags) \subseteq AllowedTags
<1> SUFFICES ASSUME NEW tag \in NormalizeTags(kind, tags)
             PROVE  tag \in AllowedTags
  OBVIOUS
<1>1. CASE tag \in KindCategory(CanonicalKind(kind))
  BY <1>1, CategoryAllowed
<1>2. CASE \E raw \in tags : tag \in CanonicalTag(raw)
  BY <1>2, CanonicalAllowed
<1> QED BY <1>1, <1>2 DEF NormalizeTags

(* normalize_service is idempotent in its kind and its tags: maintenance    *)
(* may run over a document any number of times and at any time without      *)
(* changing them once more.                                                 *)
THEOREM TagsSettle ==
  ASSUME NEW kind, NEW tags
  PROVE  NormalizeTags(CanonicalKind(kind), NormalizeTags(kind, tags))
           = NormalizeTags(kind, tags)
<1> DEFINE base == KindCategory(CanonicalKind(kind))
           once == NormalizeTags(kind, tags)
           kept == UNION {CanonicalTag(t) : t \in once}
<1>1. \A t \in once : t \in AllowedTags /\ Alias(t) = t
  <2> SUFFICES ASSUME NEW t \in once
               PROVE  t \in AllowedTags /\ Alias(t) = t
    OBVIOUS
  <2>1. CASE t \in base
    BY <2>1, CategoryAllowed
  <2>2. CASE \E raw \in tags : t \in CanonicalTag(raw)
    BY <2>2, CanonicalAllowed
  <2> QED BY <2>1, <2>2 DEF NormalizeTags
<1>2. \A t \in once : CanonicalTag(t) = {t}
  BY <1>1, CanonicalKeeps
<1>3. kept = once
  BY <1>2
<1>4. base \subseteq once
  BY DEF NormalizeTags
<1>5. NormalizeTags(CanonicalKind(kind), once) = base \cup kept
  BY KindSettles DEF NormalizeTags
<1> HIDE DEF base, once, kept
<1>6. NormalizeTags(CanonicalKind(kind), once) = once
  BY <1>3, <1>4, <1>5
<1> QED BY <1>6 DEF once

-----------------------------------------------------------------------------
(* Products *)

Letters == {Lower(word) : word \in Words} \cup {"-"}
Loops == [out : Seq(Letters), dash : BOOLEAN]
Undashed(s) == \A k \in 1..(Len(s) - 1) : ~(s[k] = "-" /\ s[k + 1] = "-")

(* The three cases of slugify's loop exclude each other. *)
LEMMA StepCases ==
  ASSUME NEW done, NEW char \in Words \cup Blank \cup Dropped
  PROVE  /\ char \in Dropped => SlugStep(done, char) = done
         /\ char \in Blank =>
              SlugStep(done, char) =
                IF done.dash \/ EndsWithDash(done.out) THEN done
                ELSE [out |-> Append(done.out, "-"), dash |-> TRUE]
         /\ char \in Words =>
              /\ SlugStep(done, char)
                   = [out |-> Append(done.out, Lower(char)), dash |-> FALSE]
              /\ Lower(char) \in Words
              /\ Lower(char) # "-"
              /\ Lower(Lower(char)) = Lower(char)
<1>1. \A c \in Dropped : c \notin Blank
  BY Zenon DEF Blank, Dropped, Space
<1>2. \A c \in Words : c \notin Blank /\ c \notin Dropped
  BY WordAssumption
<1>3. char \in Dropped => SlugStep(done, char) = done
  BY <1>1 DEF SlugStep
<1>4. char \in Blank =>
        SlugStep(done, char) =
          IF done.dash \/ EndsWithDash(done.out) THEN done
          ELSE [out |-> Append(done.out, "-"), dash |-> TRUE]
  BY <1>1 DEF SlugStep
<1>5. char \in Words =>
        SlugStep(done, char)
          = [out |-> Append(done.out, Lower(char)), dash |-> FALSE]
  BY <1>2 DEF SlugStep
<1>6. char \in Words => Lower(char) \in Words /\ Lower(Lower(char)) = Lower(char)
  BY WordAssumption
<1>7. "-" \in Blank
  BY DEF Blank
<1> QED BY <1>2, <1>3, <1>4, <1>5, <1>6, <1>7

(* Appending to a sequence. *)
LEMMA Appended ==
  ASSUME NEW S, NEW s \in Seq(S), NEW e \in S
  PROVE  /\ Append(s, e) \in Seq(S)
         /\ Len(s) \in Nat
         /\ Len(Append(s, e)) = Len(s) + 1
         /\ Append(s, e)[Len(s) + 1] = e
         /\ \A k \in 1..Len(s) : Append(s, e)[k] = s[k]
OBVIOUS

(* One character leaves the output lower case and without two dashes in a   *)
(* row.                                                                     *)
LEMMA StepTyped ==
  ASSUME NEW done \in Loops, NEW char \in Words \cup Blank \cup Dropped
  PROVE  /\ SlugStep(done, char) \in Loops
         /\ Undashed(done.out) => Undashed(SlugStep(done, char).out)
<1> DEFINE s == done.out
<1>1. s \in Seq(Letters) /\ "-" \in Letters /\ done.dash \in BOOLEAN
      /\ done = [out |-> s, dash |-> done.dash]
  BY DEF Loops, Letters
<1>2. CASE SlugStep(done, char) = done
  BY <1>2
<1>3. CASE /\ SlugStep(done, char) = [out |-> Append(s, "-"), dash |-> TRUE]
           /\ ~EndsWithDash(s)
  <2>1. Append(s, "-") \in Seq(Letters)
    BY <1>1, Appended
  <2>2. s = <<>> \/ s[Len(s)] # "-"
    BY <1>3 DEF EndsWithDash
  <2>3. Undashed(s) => Undashed(Append(s, "-"))
    <3> DEFINE t == Append(s, "-")
    <3>1. Len(s) \in Nat /\ Len(t) = Len(s) + 1
          /\ \A k \in 1..Len(s) : t[k] = s[k]
      BY <1>1, Appended
    <3>2. s = <<>> => Len(s) = 0
      OBVIOUS
    <3> HIDE DEF s, t
    <3>3. Undashed(s) => Undashed(t)
      BY <3>1, <3>2, <2>2 DEF Undashed
    <3> QED BY <3>3 DEF t
  <2> QED BY <2>1, <2>3, <1>3 DEF Loops
<1>4. CASE char \in Words
  <2>1. /\ SlugStep(done, char) = [out |-> Append(s, Lower(char)), dash |-> FALSE]
        /\ Lower(char) # "-" /\ Lower(char) \in Letters
    BY <1>4, StepCases DEF Letters
  <2>2. Append(s, Lower(char)) \in Seq(Letters)
    BY <1>1, <2>1, Appended
  <2>3. Undashed(s) => Undashed(Append(s, Lower(char)))
    <3> DEFINE t == Append(s, Lower(char))
    <3>1. Len(s) \in Nat /\ Len(t) = Len(s) + 1 /\ t[Len(s) + 1] = Lower(char)
          /\ \A k \in 1..Len(s) : t[k] = s[k]
      BY <1>1, <2>1, Appended
    <3> HIDE DEF s, t
    <3>2. Undashed(s) => Undashed(t)
      BY <3>1, <2>1 DEF Undashed
    <3> QED BY <3>2 DEF t
  <2> QED BY <2>1, <2>2, <2>3 DEF Loops
<1>5. char \in Blank => \/ SlugStep(done, char) = done
                        \/ /\ SlugStep(done, char) = [out |-> Append(s, "-"), dash |-> TRUE]
                           /\ ~EndsWithDash(s)
  BY StepCases
<1> QED BY <1>2, <1>3, <1>4, <1>5, StepCases

(* The loop of slugify, step by step. *)
LEMMA SluggingRuns ==
  ASSUME NEW name \in Names
  PROVE  /\ Slugging(name)[0] = [out |-> <<>>, dash |-> FALSE]
         /\ \A i \in 1..Len(name) :
              Slugging(name)[i] = SlugStep(Slugging(name)[i - 1], name[i])
<1> DEFINE n == Len(name)
           start == [out |-> <<>>, dash |-> FALSE]
           step == [p \in (1..n) \X Loops |-> SlugStep(p[2], name[p[1]])]
           Is(f) == f = [i \in 0..n |-> IF i = 0 THEN start
                                        ELSE SlugStep(f[i - 1], name[i])]
<1>1. n \in Nat /\ \A i \in 1..n : name[i] \in Words \cup Blank \cup Dropped
  BY DEF Names
<1>2. start \in Loops
  BY DEF Loops
<1>3. step \in [(1..n) \X Loops -> Loops]
  <2> SUFFICES ASSUME NEW p \in (1..n) \X Loops
               PROVE  SlugStep(p[2], name[p[1]]) \in Loops
    OBVIOUS
  <2>1. p[1] \in 1..n /\ p[2] \in Loops
    OBVIOUS
  <2> QED BY <2>1, <1>1, StepTyped
<1> HIDE DEF start
<1>4. PICK f \in [0..n -> Loops] :
        f[0] = start /\ \A i \in 1..n : f[i] = step[<<i, f[i - 1]>>]
  <2>1. n \in Nat
    BY <1>1
  <2>2. step \in Steps(n, Loops)
    BY <1>3 DEF Steps
  <2> HIDE DEF step, n
  <2>3. \E f : f \in Runs(n, Loops, start, step)
    BY <2>1, <2>2, <1>2, LoopRuns
  <2> QED BY <2>3 DEF Runs
<1>5. \A i \in 1..n : f[i] = SlugStep(f[i - 1], name[i])
  <2> SUFFICES ASSUME NEW i \in 1..n PROVE f[i] = SlugStep(f[i - 1], name[i])
    OBVIOUS
  <2>1. i - 1 \in 0..n /\ f[i - 1] \in Loops
    BY <1>1, <1>4
  <2>2. <<i, f[i - 1]>> \in (1..n) \X Loops
    BY <2>1
  <2>3. step[<<i, f[i - 1]>>] = SlugStep(f[i - 1], name[i])
    BY <2>2
  <2> QED BY <2>3, <1>4
<1>6. Is(f)
  <2> HIDE DEF n
  <2> DEFINE g == [i \in 0..n |-> IF i = 0 THEN start ELSE SlugStep(f[i - 1], name[i])]
  <2>1. \A i \in 0..n : f[i] = g[i]
    BY <1>1, <1>4, <1>5
  <2> QED BY <2>1, <1>4
<1>7. Slugging(name) = CHOOSE g : Is(g)
  BY DEF Slugging, start
<1> HIDE DEF Is
<1>8. Is(Slugging(name))
  BY <1>6, <1>7
<1> DEFINE g == Slugging(name)
<1> HIDE DEF g
<1>9. /\ g[0] = start
      /\ \A i \in 1..n : g[i] = SlugStep(g[i - 1], name[i])
  <2> HIDE DEF n
  <2>1. g = [i \in 0..n |-> IF i = 0 THEN start ELSE SlugStep(g[i - 1], name[i])]
    BY <1>8 DEF Is, g
  <2>2. \A i \in 0..n : g[i] = IF i = 0 THEN start ELSE SlugStep(g[i - 1], name[i])
    BY <2>1
  <2> QED BY <2>2, <1>1
<1> QED BY <1>9 DEF start, g

(* The loop of slugify leaves letters and digits in lower case and dashes,  *)
(* no two in a row.                                                         *)
LEMMA SluggingTyped ==
  ASSUME NEW name \in Names, NEW i \in 0..Len(name)
  PROVE  Slugging(name)[i] \in Loops /\ Undashed(Slugging(name)[i].out)
<1> DEFINE n == Len(name)
           done == Slugging(name)
           S == {k \in 0..n : done[k] \in Loops /\ Undashed(done[k].out)}
<1>1. n \in Nat /\ \A k \in 1..n : name[k] \in Words \cup Blank \cup Dropped
  BY DEF Names
<1>2. done[0] = [out |-> <<>>, dash |-> FALSE]
      /\ \A k \in 1..n : done[k] = SlugStep(done[k - 1], name[k])
  BY SluggingRuns
<1> HIDE DEF done, n
<1>3. 0 \in S
  <2>1. done[0] \in Loops
    BY <1>2 DEF Loops
  <2>2. Undashed(<<>>)
    BY DEF Undashed
  <2> QED BY <1>1, <1>2, <2>1, <2>2
<1>4. ASSUME NEW k \in 1..n, k - 1 \in S PROVE k \in S
  <2>1. done[k - 1] \in Loops /\ Undashed(done[k - 1].out) /\ k \in 0..n
    BY <1>1, <1>4
  <2>2. name[k] \in Words \cup Blank \cup Dropped /\ done[k] = SlugStep(done[k - 1], name[k])
    BY <1>1, <1>2
  <2>3. done[k] \in Loops /\ Undashed(done[k].out)
    BY <2>1, <2>2, StepTyped
  <2> QED BY <2>1, <2>3
<1> HIDE DEF S
<1>5. 0..n \subseteq S
  BY <1>1, <1>3, <1>4, PositionInduction
<1> QED BY <1>5 DEF S, done, n

(* Slugs: what slugify is to return. *)
Slugs == {s \in Seq(Letters) :
            Undashed(s) /\ (s # <<>> => s[1] # "-" /\ s[Len(s)] # "-")}

(* A set of positions that is not empty has a last one. *)
LEMMA Greatest ==
  ASSUME NEW n \in Nat, NEW T \in SUBSET (1..n), T # {}
  PROVE  \E m \in T : \A k \in T : m >= k
<1> DEFINE U == {n - k : k \in T}
<1>1. U \in SUBSET Nat /\ U # {}
  <2>1. \A k \in T : n - k \in Nat
    OBVIOUS
  <2>2. PICK k \in T : TRUE
    OBVIOUS
  <2>3. n - k \in U
    BY <2>2
  <2> QED BY <2>1, <2>3
<1> HIDE DEF U
<1>2. PICK u \in U : \A v \in U : u <= v
  BY <1>1, Least
<1>3. PICK m \in T : u = n - m
  BY DEF U
<1>4. \A k \in T : n - k \in U
  BY DEF U
<1>5. \A k \in T : m >= k
  BY <1>2, <1>3, <1>4
<1> QED BY <1>5

(* trim_matches leaves no dash at either end. *)
LEMMA TrimSlug ==
  ASSUME NEW s \in Seq(Letters), Undashed(s)
  PROVE  Trim(s) \in Slugs
<1> DEFINE kept == {i \in DOMAIN s : s[i] # "-"}
           First(i) == i \in kept /\ \A j \in kept : i <= j
           Last(i) == i \in kept /\ \A j \in kept : i >= j
<1>1. Len(s) \in Nat /\ kept \in SUBSET (1..Len(s)) /\ kept \in SUBSET Nat
  OBVIOUS
<1>2. CASE kept = {}
  <2>1. Trim(s) = <<>>
    BY <1>2 DEF Trim
  <2> QED BY <2>1 DEF Slugs, Undashed
<1>3. CASE kept # {}
  <2> DEFINE first == CHOOSE i \in kept : \A j \in kept : i <= j
             last == CHOOSE i \in kept : \A j \in kept : i >= j
             t == SubSeq(s, first, last)
  <2>1. Trim(s) = t
    BY <1>3 DEF Trim
  <2> HIDE DEF kept
  <2>2. first \in kept /\ \A j \in kept : first <= j
    BY <1>1, <1>3, Least
  <2>3. last \in kept /\ \A j \in kept : last >= j
    BY <1>1, <1>3, Greatest
  <2> HIDE DEF first, last
  <2>4. first \in 1..Len(s) /\ last \in 1..Len(s) /\ first <= last
        /\ s[first] # "-" /\ s[last] # "-"
    BY <1>1, <2>2, <2>3 DEF kept
  <2>5. /\ t \in Seq(Letters)
        /\ Len(t) = last - first + 1
        /\ \A k \in 1..Len(t) : t[k] = s[first + k - 1]
    BY <1>1, <2>4
  <2> HIDE DEF t
  <2>6. Undashed(t)
    <3> SUFFICES ASSUME NEW k \in 1..(Len(t) - 1), t[k] = "-", t[k + 1] = "-"
                 PROVE  FALSE
      BY DEF Undashed
    <3>1. k \in 1..Len(t) /\ k + 1 \in 1..Len(t)
      BY <1>1, <2>4, <2>5
    <3>2. s[first + k - 1] = "-" /\ s[first + (k + 1) - 1] = "-"
      BY <2>5, <3>1
    <3>3. first + k - 1 \in 1..(Len(s) - 1) /\ first + (k + 1) - 1 = (first + k - 1) + 1
      BY <1>1, <2>4, <2>5, <3>1
    <3> QED BY <3>2, <3>3 DEF Undashed
  <2>7. 1 \in 1..Len(t) /\ Len(t) \in 1..Len(t) /\ first + 1 - 1 = first
        /\ first + Len(t) - 1 = last
    BY <1>1, <2>4, <2>5
  <2>8. t[1] # "-" /\ t[Len(t)] # "-"
    BY <2>4, <2>5, <2>7
  <2> QED BY <2>1, <2>5, <2>6, <2>8 DEF Slugs
<1> QED BY <1>2, <1>3

(* slugify returns a slug. *)
LEMMA SlugifySlug ==
  ASSUME NEW name \in Names
  PROVE  Slugify(name) \in Slugs
<1>1. Len(name) \in 0..Len(name)
  BY DEF Names
<1>2. Slugging(name)[Len(name)] \in Loops /\ Undashed(Slugging(name)[Len(name)].out)
  BY <1>1, SluggingTyped
<1>3. Slugging(name)[Len(name)].out \in Seq(Letters)
  BY <1>2 DEF Loops
<1> QED BY <1>2, <1>3, TrimSlug DEF Slugify

(* A letter of a slug: a dash, or a run that lower case leaves alone. *)
LEMMA LetterKept ==
  ASSUME NEW letter \in Letters
  PROVE  \/ letter = "-" /\ letter \in Blank
         \/ letter \in Words /\ letter # "-" /\ Lower(letter) = letter
BY WordAssumption DEF Letters, Blank

(* A dash is one of the characters that slugify makes a dash of. *)
LEMMA DashBlank == "-" \in Blank
BY DEF Blank

(* Nothing of a slug is dropped, folded or trimmed. *)
LEMMA SlugSettles ==
  ASSUME NEW s \in Slugs
  PROVE  s \in Names /\ Slugify(s) = s
<1> DEFINE n == Len(s)
           done == Slugging(s)
           Prefix(k) == [out  |-> SubSeq(s, 1, k),
                         dash |-> k > 0 /\ s[k] = "-"]
           S == {k \in 0..n : done[k] = Prefix(k)}
<1>1. /\ n \in Nat /\ s \in Seq(Letters)
      /\ \A k \in 1..n : s[k] \in Letters
      /\ Undashed(s)
      /\ n > 0 => s[1] # "-" /\ s[n] # "-"
  BY DEF Slugs
<1>2. s \in Names
  <2>1. Letters \subseteq Words \cup Blank \cup Dropped
    BY LetterKept
  <2> QED BY <1>1, <2>1 DEF Names
<1>3. /\ done[0] = [out |-> <<>>, dash |-> FALSE]
      /\ \A k \in 1..n : done[k] = SlugStep(done[k - 1], s[k])
  BY <1>2, SluggingRuns
<1> HIDE DEF done, n
<1>4. 0 \in S
  <2>1. SubSeq(s, 1, 0) = <<>>
    BY <1>1
  <2>2. (0 > 0 /\ s[0] = "-") = FALSE
    OBVIOUS
  <2>3. Prefix(0) = [out |-> <<>>, dash |-> FALSE]
    BY <2>1, <2>2
  <2> HIDE DEF Prefix
  <2>4. done[0] = Prefix(0)
    BY <2>3, <1>3
  <2> QED BY <2>4, <1>1
<1>5. ASSUME NEW k \in 1..n, done[k - 1] = Prefix(k - 1)
      PROVE  done[k] = Prefix(k)
  <2> DEFINE before == SubSeq(s, 1, k - 1)
  <2>1. /\ before \in Seq(Letters) /\ Len(before) = k - 1
        /\ \A j \in 1..(k - 1) : before[j] = s[j]
        /\ SubSeq(s, 1, k) = Append(before, s[k])
    BY <1>1 DEF n
  <2>2. done[k - 1].out = before
        /\ done[k - 1].dash = (k - 1 > 0 /\ s[k - 1] = "-")
    BY <1>5
  <2>3. done[k] = SlugStep(done[k - 1], s[k]) /\ s[k] \in Letters
    BY <1>1, <1>3
  <2>4. CASE s[k] = "-"
    <3>1. k > 1
      BY <2>4, <1>1
    <3>2. k - 1 \in 1..(n - 1) /\ (k - 1) + 1 = k
      BY <3>1, <1>1
    <3>3. s[k - 1] # "-"
      BY <3>2, <2>4, <1>1 DEF Undashed, n
    <3>4. ~EndsWithDash(before)
      BY <2>1, <3>1, <3>3 DEF EndsWithDash
    <3>5. s[k] \in Blank /\ s[k] \in Words \cup Blank \cup Dropped
      <4>1. "-" \in Blank
        BY DashBlank
      <4> HIDE DEF Prefix, before
      <4>2. s[k] \in Blank
        BY <2>4, <4>1
      <4> QED BY <4>2
    <3>6. done[k] = [out |-> Append(before, "-"), dash |-> TRUE]
      <4> DEFINE was == done[k - 1]
      <4>1. was.out = before /\ ~was.dash
        BY <2>2, <3>3
      <4> HIDE DEF was, before, Prefix
      <4>2. SlugStep(was, s[k]) = [out |-> Append(was.out, "-"), dash |-> TRUE]
        BY <3>4, <3>5, <4>1, StepCases
      <4> QED BY <2>3, <4>1, <4>2 DEF was
    <3>7. (k > 0 /\ s[k] = "-") = TRUE
      BY <2>4
    <3>8. SubSeq(s, 1, k) = Append(before, "-")
      BY <2>1, <2>4
    <3> HIDE DEF before
    <3> QED BY <3>6, <3>7, <3>8
  <2>5. CASE s[k] # "-"
    <3>1. s[k] \in Words /\ Lower(s[k]) = s[k]
      BY <2>3, <2>5, LetterKept
    <3>2. done[k] = [out |-> Append(before, s[k]), dash |-> FALSE]
      <4> DEFINE was == done[k - 1]
      <4>1. s[k] \in Words \cup Blank \cup Dropped
        BY <3>1
      <4> HIDE DEF was
      <4>2. SlugStep(was, s[k]) = [out |-> Append(was.out, Lower(s[k])), dash |-> FALSE]
        BY <3>1, <4>1, StepCases
      <4> QED BY <4>2, <2>2, <2>3, <3>1 DEF was
    <3>3. (k > 0 /\ s[k] = "-") = FALSE
      BY <2>5
    <3>4. SubSeq(s, 1, k) = Append(before, s[k])
      BY <2>1
    <3> HIDE DEF before
    <3> QED BY <3>2, <3>3, <3>4
  <2> QED BY <2>4, <2>5
<1>6. ASSUME NEW k \in 1..n, k - 1 \in S PROVE k \in S
  <2>1. done[k] = Prefix(k)
    BY <1>5, <1>6
  <2> HIDE DEF Prefix
  <2> QED BY <1>1, <2>1
<1> HIDE DEF S
<1>7. 0..n \subseteq S
  BY <1>1, <1>4, <1>6, PositionInduction
<1>8. done[n] = Prefix(n)
  BY <1>1, <1>7 DEF S
<1>9. done[n].out = s
  BY <1>1, <1>8 DEF n
<1>10. Trim(s) = s
  <2> DEFINE kept == {i \in DOMAIN s : s[i] # "-"}
  <2>1. CASE n = 0
    <3>1. s = <<>> /\ kept = {}
      BY <1>1, <2>1 DEF n
    <3> QED BY <3>1 DEF Trim
  <2>2. CASE n > 0
    <3>1. 1 \in kept /\ n \in kept /\ kept \subseteq 1..n
      BY <1>1, <2>2 DEF n
    <3> HIDE DEF kept
    <3>2. \A i \in kept : (\A j \in kept : i <= j) => i = 1
      BY <1>1, <3>1
    <3>3. \A i \in kept : (\A j \in kept : i >= j) => i = n
      BY <1>1, <3>1
    <3>4. \A j \in kept : 1 <= j /\ n >= j
      BY <1>1, <3>1
    <3>5. (CHOOSE i \in kept : \A j \in kept : i <= j) = 1
      BY <3>1, <3>2, <3>4
    <3>6. (CHOOSE i \in kept : \A j \in kept : i >= j) = n
      BY <3>1, <3>3, <3>4
    <3>7. Trim(s) = SubSeq(s, 1, n)
      BY <3>1, <3>5, <3>6 DEF Trim, kept
    <3> QED BY <3>7, <1>1 DEF n
  <2> QED BY <1>1, <2>1, <2>2
<1> QED BY <1>2, <1>9, <1>10 DEF Slugify, done, n

(* Nothing with a blank is a slug. *)
LEMMA SpacedNoSlug ==
  ASSUME NEW s, Len(s) \in {3, 5, 7}, s[2] = Space
  PROVE  s \notin Slugs
<1>1. Space # "-" /\ Space \in Blank
  BY Zenon DEF Space, Blank
<1>2. Space \notin Letters
  BY <1>1, LetterKept, WordAssumption
<1>3. ASSUME s \in Seq(Letters) PROVE s[2] \in Letters
  BY <1>3
<1> QED BY <1>2, <1>3 DEF Slugs

(* The overrides: a name with a blank, and a slug of one word. *)
LEMMA OverrideShape ==
  ASSUME NEW rule \in Override
  PROVE  /\ rule[1] \notin Slugs
         /\ \E word : rule[2] = <<word>>
<1>1. CASE rule = <<<<"Apache", Space, "httpd">>,
                  <<"apache">>>>
  <2>1. Len(rule[1]) = 3 /\ rule[1][2] = Space /\ rule[2] = <<"apache">>
    BY <1>1
  <2>2. \E word : rule[2] = <<word>>
    BY <2>1, Zenon
  <2>3. rule[1] \notin Slugs
    BY <2>1, SpacedNoSlug
  <2> QED BY <2>2, <2>3
<1>2. CASE rule = <<<<"Microsoft", Space, "IIS">>,
                  <<"iis">>>>
  <2>1. Len(rule[1]) = 3 /\ rule[1][2] = Space /\ rule[2] = <<"iis">>
    BY <1>2
  <2>2. \E word : rule[2] = <<word>>
    BY <2>1, Zenon
  <2>3. rule[1] \notin Slugs
    BY <2>1, SpacedNoSlug
  <2> QED BY <2>2, <2>3
<1>3. CASE rule = <<<<"MikroTik", Space, "RouterOS">>,
                  <<"mikrotik">>>>
  <2>1. Len(rule[1]) = 3 /\ rule[1][2] = Space /\ rule[2] = <<"mikrotik">>
    BY <1>3
  <2>2. \E word : rule[2] = <<word>>
    BY <2>1, Zenon
  <2>3. rule[1] \notin Slugs
    BY <2>1, SpacedNoSlug
  <2> QED BY <2>2, <2>3
<1>4. CASE rule = <<<<"MikroTik", Space, "EQUINIX", Space, "SO1", Space, "CORE">>,
                  <<"mikrotik">>>>
  <2>1. Len(rule[1]) = 7 /\ rule[1][2] = Space /\ rule[2] = <<"mikrotik">>
    BY <1>4
  <2>2. \E word : rule[2] = <<word>>
    BY <2>1, Zenon
  <2>3. rule[1] \notin Slugs
    BY <2>1, SpacedNoSlug
  <2> QED BY <2>2, <2>3
<1>5. CASE rule = <<<<"Google", Space, "Web", Space, "Server">>,
                  <<"gws">>>>
  <2>1. Len(rule[1]) = 5 /\ rule[1][2] = Space /\ rule[2] = <<"gws">>
    BY <1>5
  <2>2. \E word : rule[2] = <<word>>
    BY <2>1, Zenon
  <2>3. rule[1] \notin Slugs
    BY <2>1, SpacedNoSlug
  <2> QED BY <2>2, <2>3
<1>6. CASE rule = <<<<"Amazon", Space, "CloudFront">>,
                  <<"cloudfront">>>>
  <2>1. Len(rule[1]) = 3 /\ rule[1][2] = Space /\ rule[2] = <<"cloudfront">>
    BY <1>6
  <2>2. \E word : rule[2] = <<word>>
    BY <2>1, Zenon
  <2>3. rule[1] \notin Slugs
    BY <2>1, SpacedNoSlug
  <2> QED BY <2>2, <2>3
<1>7. CASE rule = <<<<"MOBOTIX", Space, "Camera">>,
                  <<"mobotix">>>>
  <2>1. Len(rule[1]) = 3 /\ rule[1][2] = Space /\ rule[2] = <<"mobotix">>
    BY <1>7
  <2>2. \E word : rule[2] = <<word>>
    BY <2>1, Zenon
  <2>3. rule[1] \notin Slugs
    BY <2>1, SpacedNoSlug
  <2> QED BY <2>2, <2>3
<1> QED BY <1>1, <1>2, <1>3, <1>4, <1>5, <1>6, <1>7 DEF Override

(* A single word that lower case leaves alone is a slug. *)
LEMMA WordSlug ==
  ASSUME NEW word \in Words, Lower(word) = word
  PROVE  <<word>> \in Slugs
<1>1. word \in Letters /\ word # "-"
  BY WordAssumption DEF Letters, Blank
<1>2. <<word>> \in Seq(Letters) /\ Len(<<word>>) = 1 /\ <<word>>[1] = word
  BY <1>1
<1>3. Undashed(<<word>>)
  BY <1>2 DEF Undashed
<1> QED BY <1>1, <1>2, <1>3 DEF Slugs

(* The overrides are slugs, of names that are not. *)
LEMMA OverrideSlug ==
  ASSUME NEW rule \in Override
  PROVE  rule[1] \notin Slugs /\ rule[2] \in Slugs
<1>1. PICK word : rule[2] = <<word>>
  BY OverrideShape
<1>2. 1 \in DOMAIN rule[2] /\ rule[2][1] = word
  BY <1>1
<1>3. word \in Words /\ Lower(word) = word
  BY <1>2, WordAssumption
<1> QED BY <1>1, <1>3, OverrideShape, WordSlug

(* canonical_product leaves a slug as it is. *)
LEMMA SlugKept ==
  ASSUME NEW s \in Slugs
  PROVE  CanonicalProduct(s) = s
<1>1. ~\E rule \in Override : rule[1] = s
  BY OverrideSlug
<1> QED BY <1>1, SlugSettles DEF CanonicalProduct

(* canonical_product returns a slug, and leaves a slug as it is: the name a *)
(* signature gives settles at once, in whatever case and punctuation.       *)
THEOREM ProductSettles ==
  ASSUME NEW name \in Names
  PROVE  /\ CanonicalProduct(name) \in Slugs
         /\ CanonicalProduct(CanonicalProduct(name)) = CanonicalProduct(name)
<1>1. CanonicalProduct(name) \in Slugs
  <2>1. CASE \E rule \in Override : rule[1] = name
    <3> DEFINE rule == CHOOSE r \in Override : r[1] = name
    <3>1. rule \in Override
      BY <2>1
    <3>2. CanonicalProduct(name) = rule[2]
      BY <2>1 DEF CanonicalProduct
    <3> HIDE DEF rule
    <3> QED BY <3>1, <3>2, OverrideSlug
  <2>2. CASE ~\E rule \in Override : rule[1] = name
    BY <2>2, SlugifySlug DEF CanonicalProduct
  <2> QED BY <2>1, <2>2
<1> QED BY <1>1, SlugKept

(* normalize_service is idempotent ("Idempotent - normalizing clean data is *)
(* a no-op", src/normalize.rs): maintenance may run over a document any     *)
(* number of times and at any time without changing it once more.           *)
THEOREM NormalizeSettles ==
  ASSUME NEW data, {"kind", "product", "tags"} \subseteq DOMAIN data,
         data = [field \in DOMAIN data |-> data[field]],
         data.product \in Names
  PROVE  NormalizeService(NormalizeService(data)) = NormalizeService(data)
<1> DEFINE once == NormalizeService(data)
           slug == IF data.product = <<>> THEN <<>> ELSE CanonicalProduct(data.product)
           tags == NormalizeTags(CanonicalKind(data.kind), data.tags)
<1>1. /\ once = [data EXCEPT !.kind = CanonicalKind(data.kind),
                             !.product = slug, !.tags = tags]
      /\ DOMAIN once = DOMAIN data
      /\ once.kind = CanonicalKind(data.kind)
      /\ once.product = slug /\ once.tags = tags
  BY DEF NormalizeService
<1>2. (IF slug = <<>> THEN <<>> ELSE CanonicalProduct(slug)) = slug
  BY ProductSettles
<1>3. NormalizeTags(CanonicalKind(CanonicalKind(data.kind)), tags) = tags
  BY KindSettles, TagsSettle
<1>4. CanonicalKind(CanonicalKind(data.kind)) = CanonicalKind(data.kind)
  BY KindSettles
<1> HIDE DEF once, slug, tags
<1>5. NormalizeService(once)
        = [once EXCEPT !.kind = once.kind, !.product = once.product, !.tags = once.tags]
  BY <1>1, <1>2, <1>3, <1>4 DEF NormalizeService
<1>6. once = [field \in DOMAIN once |-> once[field]]
  BY <1>1
<1>7. NormalizeService(once) = once
  BY <1>5, <1>6
<1> QED BY <1>7 DEF once

-----------------------------------------------------------------------------
(* Technology tags *)

(* Pushing keeps what is there, and leaves of every tag pushed one that     *)
(* differs from it in case only.                                            *)
LEMMA PushedTags ==
  ASSUME NEW out, NEW tags
  PROVE  /\ out \subseteq PushUnique(out, tags)
         /\ \A tag \in tags : \E old \in PushUnique(out, tags) : SameTag(old, tag)
<1>1. \A tag : SameTag(tag, tag)
  BY DEF SameTag
<1> QED BY <1>1 DEF PushUnique

(* Pushing tags that are there already changes nothing. *)
LEMMA PushKnown ==
  ASSUME NEW out, NEW tags, \A tag \in tags : \E old \in out : SameTag(old, tag)
  PROVE  PushUnique(out, tags) = out
BY DEF PushUnique

(* Technology detection finds nothing new in a document it has been over.   *)
LEMMA DetectSettles ==
  ASSUME NEW out, NEW tech
  PROVE  Detect(Detect(out, tech), tech) = Detect(out, tech)
<1> DEFINE Held(new, tags) == \A tag \in tags : \E old \in new : SameTag(old, tag)
           t1 == ParseServerHeader(tech.server)
           t2 == HeaderTag(tech.powered)
           t3 == IF tech.aspnet THEN {<<"ASP.NET", None>>} ELSE {}
           t4 == DetectVersionsFromBody(tech.libs)
           o1 == PushUnique(out, t1)
           o2 == PushUnique(o1, t2)
           o3 == PushUnique(o2, t3)
           o4 == PushUnique(o3, t4)
<1>1. \A o : Detect(o, tech) =
               PushUnique(PushUnique(PushUnique(PushUnique(o, t1), t2), t3), t4)
  BY DEF Detect
<1>2. Detect(out, tech) = o4
  BY <1>1
<1> HIDE DEF t1, t2, t3, t4
<1>3. o1 \subseteq o2 /\ o2 \subseteq o3 /\ o3 \subseteq o4
  BY PushedTags
<1>4. Held(o1, t1) /\ Held(o2, t2) /\ Held(o3, t3) /\ Held(o4, t4)
  BY PushedTags
<1> HIDE DEF o1, o2, o3, o4
<1>5. Held(o4, t1) /\ Held(o4, t2) /\ Held(o4, t3) /\ Held(o4, t4)
  BY <1>3, <1>4
<1>6. /\ PushUnique(o4, t1) = o4 /\ PushUnique(o4, t2) = o4
      /\ PushUnique(o4, t3) = o4 /\ PushUnique(o4, t4) = o4
  BY <1>5, PushKnown
<1> QED BY <1>1, <1>2, <1>6

-----------------------------------------------------------------------------
(* Documents *)

(* A document, by the fields the maintenance commands may change; the rest  *)
(* of it is version, http, favicon, facts and tech.                         *)
Doc(rest, kind, product, confidence, tags, httpTags) ==
  [kind |-> kind, version |-> rest.version, confidence |-> confidence,
   product |-> product, tags |-> tags, http |-> rest.http,
   httpTags |-> httpTags, favicon |-> rest.favicon, facts |-> rest.facts,
   tech |-> rest.tech]

(* The same as a set of one. *)
OneDoc(rest, kind, product, confidence, tags, httpTags) ==
  [kind : {kind}, version : {rest.version}, confidence : {confidence},
   product : {product}, tags : {tags}, http : {rest.http},
   httpTags : {httpTags}, favicon : {rest.favicon}, facts : {rest.facts},
   tech : {rest.tech}]

(* And only that one. *)
LEMMA OnlyDoc ==
  ASSUME NEW rest, NEW kind, NEW product, NEW confidence, NEW tags, NEW httpTags,
         NEW data \in OneDoc(rest, kind, product, confidence, tags, httpTags)
  PROVE  data = Doc(rest, kind, product, confidence, tags, httpTags)
BY DEF Doc, OneDoc

(* What each stage of a probe makes of such a document. *)
LEMMA MergeTechDoc ==
  ASSUME NEW rest, NEW kind, NEW product, NEW confidence, NEW tags, NEW httpTags
  PROVE  MergeTech(Doc(rest, kind, product, confidence, tags, httpTags))
           = Doc(rest, kind, product, confidence, tags,
                 IF rest.http THEN Detect(httpTags, rest.tech) ELSE httpTags)
BY DEF MergeTech, Doc

(* reidentify_http clears what the signatures wrote. *)
LEMMA ResetDoc ==
  ASSUME NEW rest, NEW kind, NEW product, NEW confidence, NEW tags, NEW httpTags,
         rest.version = None
  PROVE  Reset(Doc(rest, kind, product, confidence, tags, httpTags))
           = Doc(rest, kind, <<>>, -1, {}, httpTags)
<1>1. Reset(Doc(rest, kind, product, confidence, tags, httpTags))
        \in OneDoc(rest, kind, <<>>, -1, {}, httpTags)
  BY DEF Reset, Doc, OneDoc
<1> QED BY <1>1, OnlyDoc

(* normalize_service writes kind, product and tags. *)
LEMMA NormalizeDoc ==
  ASSUME NEW rest, NEW kind, NEW product, NEW confidence, NEW tags, NEW httpTags
  PROVE  NormalizeService(Doc(rest, kind, product, confidence, tags, httpTags))
           = Doc(rest, CanonicalKind(kind),
                 IF product = <<>> THEN <<>> ELSE CanonicalProduct(product),
                 confidence, NormalizeTags(CanonicalKind(kind), tags), httpTags)
<1>1. NormalizeService(Doc(rest, kind, product, confidence, tags, httpTags))
        \in OneDoc(rest, CanonicalKind(kind),
                   IF product = <<>> THEN <<>> ELSE CanonicalProduct(product),
                   confidence, NormalizeTags(CanonicalKind(kind), tags), httpTags)
  BY DEF NormalizeService, Doc, OneDoc
<1> QED BY <1>1, OnlyDoc

(* identify writes product, confidence and tags, and what it writes depends *)
(* on the best match and on the tags there were.                            *)
LEMMA IdentifyDoc ==
  ASSUME NEW sigs, NEW rest, NEW kind, NEW product, NEW confidence, NEW tags,
         NEW httpTags, NEW best,
         Resolve(sigs, EvidenceFrom(Doc(rest, kind, product, confidence, tags,
                                        httpTags))) = best
  PROVE  Identify(sigs, Doc(rest, kind, product, confidence, tags, httpTags))
           = IF best = <<>>
             THEN Doc(rest, kind, product, confidence, tags, httpTags)
             ELSE Doc(rest, kind, FirstNamed(sigs, best[1].id).name,
                      best[1].confidence,
                      Merge(tags, FirstNamed(sigs, best[1].id).tags), httpTags)
<1> DEFINE data == Doc(rest, kind, product, confidence, tags, httpTags)
           sig == FirstNamed(sigs, best[1].id)
<1>1. Identify(sigs, data)
        = IF best = <<>> THEN data
          ELSE [data EXCEPT !.product = sig.name,
                            !.confidence = best[1].confidence,
                            !.tags = Merge(data.tags, sig.tags)]
  BY DEF Identify
<1> HIDE DEF sig
<1>2. [data EXCEPT !.product = sig.name,
                   !.confidence = best[1].confidence,
                   !.tags = Merge(data.tags, sig.tags)]
        = Doc(rest, kind, sig.name, best[1].confidence, Merge(tags, sig.tags), httpTags)
  <2>1. [data EXCEPT !.product = sig.name,
                     !.confidence = best[1].confidence,
                     !.tags = Merge(data.tags, sig.tags)]
          \in OneDoc(rest, kind, sig.name, best[1].confidence, Merge(tags, sig.tags),
                     httpTags)
    BY DEF Doc, OneDoc
  <2> HIDE DEF data
  <2> QED BY <2>1, OnlyDoc
<1> QED BY <1>1, <1>2 DEF sig

(* The evidence of two documents that differ in the kind only is the same   *)
(* but for the kind.                                                        *)
LEMMA SameEvidence ==
  ASSUME NEW rest, NEW product, NEW confidence, NEW tags, NEW httpTags,
         NEW kind, NEW other, NEW field, field # "kind"
  PROVE  Values(EvidenceFrom(Doc(rest, kind, product, confidence, tags, httpTags)),
                field)
           = Values(EvidenceFrom(Doc(rest, other, product, confidence, tags, httpTags)),
                    field)
<1> DEFINE own(k) == [kind    |-> {k},
                      product |-> IF product = <<>> THEN {} ELSE {product},
                      version |-> Present(rest.version),
                      tags    |-> tags]
           http == IF rest.http THEN httpTags ELSE {}
           icon == IF rest.http THEN rest.favicon ELSE {}
           known == {"kind", "product", "version", "tags"}
           all == DOMAIN rest.facts \cup known \cup {"http.tags", "http.favicon_hash"}
           shown(k) == [f \in all |-> CASE f \in known               -> own(k)[f]
                                        [] f = "http.tags"         -> http
                                        [] f = "http.favicon_hash" -> icon
                                        [] OTHER                   -> rest.facts[f]]
<1>1. \A k : EvidenceFrom(Doc(rest, k, product, confidence, tags, httpTags)) = shown(k)
  BY DEF EvidenceFrom, Doc
<1>2. \A f \in known : f # "kind" => own(kind)[f] = own(other)[f]
  <2> DEFINE named == IF product = <<>> THEN {} ELSE {product}
             old   == Present(rest.version)
  <2> HIDE DEF named, old
  <2>1. \A k : own(k) = [kind |-> {k}, product |-> named, version |-> old, tags |-> tags]
    BY DEF named, old
  <2> HIDE DEF own
  <2> QED BY <2>1
<1> HIDE DEF own, http, icon, known
<1>3. field \in all => shown(kind)[field] = shown(other)[field]
  BY <1>2
<1>4. DOMAIN shown(kind) = all /\ DOMAIN shown(other) = all
  OBVIOUS
<1> HIDE DEF shown
<1> QED BY <1>1, <1>3, <1>4 DEF Values

(* The kind itself is shown as it is. *)
LEMMA KindEvidence ==
  ASSUME NEW rest, NEW product, NEW confidence, NEW tags, NEW httpTags, NEW kind
  PROVE  Values(EvidenceFrom(Doc(rest, kind, product, confidence, tags, httpTags)),
                "kind") = {kind}
BY DEF Values, EvidenceFrom, Doc

(* What CorporaAssumption says of the signatures of a corpus. *)
Usable(sigs) ==
  /\ IsSequence(sigs)
  /\ \A i, j \in DOMAIN sigs : sigs[i].id = sigs[j].id => i = j
  /\ \A i \in DOMAIN sigs :
       /\ sigs[i].name \in Names
       /\ sigs[i].priority \in Nat
       /\ IsSequence(sigs[i].matchers)
       /\ \A k \in DOMAIN sigs[i].matchers :
            /\ sigs[i].matchers[k].weight \in Nat
            /\ sigs[i].matchers[k].field = "kind" =>
                 sigs[i].matchers[k].accepts \cap {"http", "https"} = {}

(* The assumption, in that form. *)
LEMMA CorporaUsable ==
  ASSUME NEW c \in Corpora
  PROVE  Usable(LoadDir(c))
BY CorporaAssumption DEF Usable

(* So they have the same best match. *)
LEMMA SameBest ==
  ASSUME NEW sigs, Usable(sigs), NEW rest, NEW product, NEW confidence, NEW tags,
         NEW httpTags, NEW kind \in {"http", "https"}, NEW other \in {"http", "https"}
  PROVE  Resolve(sigs, EvidenceFrom(Doc(rest, kind, product, confidence, tags, httpTags)))
           = Resolve(sigs, EvidenceFrom(Doc(rest, other, product, confidence, tags, httpTags)))
<1> DEFINE e1 == EvidenceFrom(Doc(rest, kind, product, confidence, tags, httpTags))
           e2 == EvidenceFrom(Doc(rest, other, product, confidence, tags, httpTags))
<1>1. \A field : field # "kind" => Values(e1, field) = Values(e2, field)
  BY SameEvidence
<1>2. Values(e1, "kind") = {kind} /\ Values(e2, "kind") = {other}
  BY KindEvidence
<1> HIDE DEF e1, e2
<1>3. \A i \in DOMAIN sigs : Evaluate(sigs[i], e1) = Evaluate(sigs[i], e2)
  <2> SUFFICES ASSUME NEW i \in DOMAIN sigs
               PROVE  Evaluate(sigs[i], e1) = Evaluate(sigs[i], e2)
    OBVIOUS
  <2> DEFINE sig == sigs[i]
  <2>1. \A k \in DOMAIN sig.matchers :
          sig.matchers[k].field = "kind" =>
            sig.matchers[k].accepts \cap {"http", "https"} = {}
    BY DEF Usable
  <2> HIDE DEF sig
  <2>2. \A k \in DOMAIN sig.matchers :
          Matches(sig.matchers[k], Values(e1, sig.matchers[k].field))
            = Matches(sig.matchers[k], Values(e2, sig.matchers[k].field))
    <3> SUFFICES ASSUME NEW k \in DOMAIN sig.matchers
                 PROVE  Matches(sig.matchers[k], Values(e1, sig.matchers[k].field))
                          = Matches(sig.matchers[k], Values(e2, sig.matchers[k].field))
      OBVIOUS
    <3> DEFINE m == sig.matchers[k]
    <3>1. CASE m.field # "kind"
      BY <1>1, <3>1
    <3>2. CASE m.field = "kind"
      <4>1. m.accepts \cap {kind} = {} /\ m.accepts \cap {other} = {}
        BY <2>1, <3>2
      <4> HIDE DEF m
      <4>2. Matches(m, {kind}) = Matches(m, {other})
        BY <4>1 DEF Matches
      <4> QED BY <4>2, <1>2, <3>2 DEF m
    <3> QED BY <3>1, <3>2
  <2>3. Hits(sig, e1) = Hits(sig, e2)
    BY <2>2 DEF Hits
  <2>4. Evaluate(sig, e1) = Evaluate(sig, e2)
    BY <2>3 DEF Evaluate
  <2> QED BY <2>4 DEF sig
<1>4. [i \in DOMAIN sigs |-> Evaluate(sigs[i], e1)]
        = [i \in DOMAIN sigs |-> Evaluate(sigs[i], e2)]
  BY <1>3
<1>5. Resolve(sigs, e1) = Resolve(sigs, e2)
  BY <1>4 DEF Resolve
<1> QED BY <1>5 DEF e1, e2

-----------------------------------------------------------------------------
(* The best match *)

(* The score of a signature is a natural number. *)
LEMMA WeighingRuns ==
  ASSUME NEW sig, NEW hits, IsSequence(sig.matchers),
         \A k \in DOMAIN sig.matchers : sig.matchers[k].weight \in Nat
  PROVE  TotalWeight(sig, hits) \in Nat
<1> DEFINE n == Len(sig.matchers)
           Of(k) == IF k \in hits THEN sig.matchers[k].weight ELSE 0
           step == [p \in (1..n) \X Nat |-> p[2] + Of(p[1])]
           Is(f) == f = [k \in 0..n |-> IF k = 0 THEN 0 ELSE f[k - 1] + Of(k)]
<1>1. n \in Nat /\ \A k \in 1..n : Of(k) \in Nat
  BY DEF IsSequence
<1> HIDE DEF n, Of
<1>2. step \in Steps(n, Nat)
  BY <1>1 DEF Steps
<1>3. PICK f : f \in Runs(n, Nat, 0, step)
  <2> HIDE DEF step
  <2> QED BY <1>1, <1>2, LoopRuns
<1>4. /\ f \in [0..n -> Nat] /\ f[0] = 0
      /\ \A k \in 1..n : f[k] = f[k - 1] + Of(k)
  <2>1. /\ f \in [0..n -> Nat] /\ f[0] = 0
        /\ \A k \in 1..n : f[k] = step[<<k, f[k - 1]>>]
    BY <1>3 DEF Runs
  <2>2. \A k \in 1..n : <<k, f[k - 1]>> \in (1..n) \X Nat
    BY <1>1, <2>1
  <2>3. \A k \in 1..n : step[<<k, f[k - 1]>>] = f[k - 1] + Of(k)
    BY <2>2
  <2> HIDE DEF step
  <2> QED BY <2>1, <2>3
<1>5. Is(f)
  <2> DEFINE g == [k \in 0..n |-> IF k = 0 THEN 0 ELSE f[k - 1] + Of(k)]
  <2>1. \A k \in 0..n : f[k] = g[k]
    BY <1>1, <1>4
  <2> QED BY <2>1, <1>4
<1>6. Weighing(sig, hits) = CHOOSE g : Is(g)
  BY DEF Weighing, n, Of
<1> HIDE DEF Is
<1>7. Is(Weighing(sig, hits))
  BY <1>5, <1>6
<1> DEFINE w == Weighing(sig, hits)
           S == {k \in 0..n : w[k] \in Nat}
<1>8. w = [k \in 0..n |-> IF k = 0 THEN 0 ELSE w[k - 1] + Of(k)]
  BY <1>7 DEF Is
<1> HIDE DEF w
<1>9. w[0] = 0 /\ \A k \in 1..n : w[k] = w[k - 1] + Of(k)
  <2>1. \A k \in 0..n : w[k] = IF k = 0 THEN 0 ELSE w[k - 1] + Of(k)
    BY <1>8
  <2> QED BY <2>1, <1>1
<1>10. 0 \in S /\ \A k \in 1..n : k - 1 \in S => k \in S
  BY <1>1, <1>9
<1> HIDE DEF S
<1>11. 0..n \subseteq S
  BY <1>1, <1>10, PositionInduction
<1>12. w[n] \in Nat
  BY <1>1, <1>11 DEF S
<1> QED BY <1>12 DEF TotalWeight, w, n

(* The loop of resolve, step by step. *)
LEMMA ResolvingRuns ==
  ASSUME NEW sigs, IsSequence(sigs), NEW results
  PROVE  /\ Len(sigs) \in Nat /\ DOMAIN sigs = 1..Len(sigs)
         /\ Resolving(sigs, results)[0] = <<>>
         /\ \A i \in 1..Len(sigs) :
              Resolving(sigs, results)[i]
                = Consider(sigs, Resolving(sigs, results)[i - 1], results[i])
<1> DEFINE n == Len(sigs)
           X == {<<>>} \cup {<<results[i]>> : i \in 1..n}
           step == [p \in (1..n) \X X |-> Consider(sigs, p[2], results[p[1]])]
           Is(f) == f = [i \in 0..n |-> IF i = 0 THEN <<>>
                                        ELSE Consider(sigs, f[i - 1], results[i])]
<1>1. n \in Nat /\ DOMAIN sigs = 1..n
  BY DEF IsSequence
<1> HIDE DEF n
<1>2. \A i \in 1..n, best \in X : Consider(sigs, best, results[i]) \in X
  BY DEF Consider
<1>3. <<>> \in X
  OBVIOUS
<1> HIDE DEF X
<1>4. step \in Steps(n, X)
  BY <1>2 DEF Steps
<1>5. PICK f : f \in Runs(n, X, <<>>, step)
  <2> HIDE DEF step
  <2> QED BY <1>1, <1>3, <1>4, LoopRuns
<1>6. /\ f \in [0..n -> X] /\ f[0] = <<>>
      /\ \A i \in 1..n : f[i] = Consider(sigs, f[i - 1], results[i])
  <2>1. /\ f \in [0..n -> X] /\ f[0] = <<>>
        /\ \A i \in 1..n : f[i] = step[<<i, f[i - 1]>>]
    BY <1>5 DEF Runs
  <2>2. \A i \in 1..n : <<i, f[i - 1]>> \in (1..n) \X X
    BY <1>1, <2>1
  <2>3. \A i \in 1..n : step[<<i, f[i - 1]>>] = Consider(sigs, f[i - 1], results[i])
    BY <2>2
  <2> HIDE DEF step
  <2> QED BY <2>1, <2>3
<1>7. Is(f)
  <2> DEFINE g == [i \in 0..n |-> IF i = 0 THEN <<>>
                                  ELSE Consider(sigs, f[i - 1], results[i])]
  <2>1. \A i \in 0..n : f[i] = g[i]
    BY <1>1, <1>6
  <2> QED BY <2>1, <1>6
<1>8. Resolving(sigs, results) = CHOOSE g : Is(g)
  BY DEF Resolving, n
<1> HIDE DEF Is
<1>9. Is(Resolving(sigs, results))
  BY <1>7, <1>8
<1> DEFINE r == Resolving(sigs, results)
<1>10. r = [i \in 0..n |-> IF i = 0 THEN <<>> ELSE Consider(sigs, r[i - 1], results[i])]
  BY <1>9 DEF Is
<1> HIDE DEF r
<1>11. \A i \in 0..n : r[i] = IF i = 0 THEN <<>> ELSE Consider(sigs, r[i - 1], results[i])
  BY <1>10
<1>12. r[0] = <<>> /\ \A i \in 1..n : r[i] = Consider(sigs, r[i - 1], results[i])
  BY <1>1, <1>11
<1> QED BY <1>1, <1>12 DEF r, n

(* An id names its signature, where no two have the same. *)
LEMMA NamedFirst ==
  ASSUME NEW sigs, Usable(sigs), NEW i \in DOMAIN sigs
  PROVE  FirstNamed(sigs, sigs[i].id) = sigs[i]
<1> DEFINE Named(k) == /\ sigs[k].id = sigs[i].id
                       /\ \A j \in 1..(k - 1) : sigs[j].id # sigs[i].id
<1>1. Len(sigs) \in Nat /\ DOMAIN sigs = 1..Len(sigs)
  BY DEF Usable, IsSequence
<1>2. \A k \in DOMAIN sigs : sigs[k].id = sigs[i].id => k = i
  BY DEF Usable
<1>3. Named(i)
  BY <1>1, <1>2
<1>4. (CHOOSE k \in DOMAIN sigs : Named(k)) = i
  BY <1>2, <1>3
<1> QED BY <1>4 DEF FirstNamed

(* What resolve returns: nothing if nothing matches, and else the result of *)
(* a matching signature that no other beats in score, nor in priority at    *)
(* the same score.                                                          *)
Beats(sigs, results, best, i) ==
  \/ results[i].score < results[best].score
  \/ /\ results[i].score = results[best].score
     /\ sigs[i].priority <= sigs[best].priority

(* The loop of resolve keeps the best of the results it has seen. *)
LEMMA ResolvingBest ==
  ASSUME NEW sigs, Usable(sigs), NEW results,
         \A i \in DOMAIN sigs : results[i].id = sigs[i].id /\ results[i].score \in Nat
  PROVE  LET matching == {i \in DOMAIN sigs : results[i].matched}
             best     == Resolving(sigs, results)[Len(sigs)]
         IN \/ matching = {} /\ best = <<>>
            \/ \E k \in matching :
                 best = <<results[k]>> /\ \A i \in matching : Beats(sigs, results, k, i)
<1> DEFINE n == Len(sigs)
           run == Resolving(sigs, results)
           Matching(m) == {i \in 1..m : results[i].matched}
           Best(m) == \/ Matching(m) = {} /\ run[m] = <<>>
                      \/ \E k \in Matching(m) :
                           /\ run[m] = <<results[k]>>
                           /\ \A i \in Matching(m) : Beats(sigs, results, k, i)
           S == {m \in 0..n : Best(m)}
<1>1. /\ n \in Nat /\ DOMAIN sigs = 1..n /\ run[0] = <<>>
      /\ \A m \in 1..n : run[m] = Consider(sigs, run[m - 1], results[m])
  BY ResolvingRuns DEF Usable
<1> HIDE DEF n, run
<1>2. \A i \in 1..n : /\ results[i].id = sigs[i].id /\ results[i].score \in Nat
                      /\ sigs[i].priority \in Nat
                      /\ FirstNamed(sigs, results[i].id) = sigs[i]
  <2> SUFFICES ASSUME NEW i \in 1..n
               PROVE  /\ results[i].id = sigs[i].id /\ results[i].score \in Nat
                      /\ sigs[i].priority \in Nat
                      /\ FirstNamed(sigs, results[i].id) = sigs[i]
    OBVIOUS
  <2>1. i \in DOMAIN sigs /\ sigs[i].priority \in Nat
    BY <1>1 DEF Usable
  <2>2. FirstNamed(sigs, sigs[i].id) = sigs[i]
    BY <2>1, NamedFirst
  <2> QED BY <2>1, <2>2
<1>3. 0 \in S
  BY <1>1
<1>4. ASSUME NEW m \in 1..n, Best(m - 1) PROVE Best(m)
  <2>1. m - 1 \in Nat /\ Matching(m - 1) \subseteq 1..n /\ m \in 1..m
    BY <1>1
  <2>2. \A i \in Matching(m) : i # m => i \in Matching(m - 1)
    BY <1>1
  <2>3. Matching(m - 1) \subseteq Matching(m)
    BY <1>1
  <2>4. run[m] = Consider(sigs, run[m - 1], results[m])
    BY <1>1
  <2>5. CASE ~results[m].matched
    <3>1. run[m] = run[m - 1]
      BY <2>4, <2>5 DEF Consider
    <3>2. Matching(m) = Matching(m - 1)
      BY <2>2, <2>3, <2>5
    <3> HIDE DEF Matching
    <3> QED BY <3>1, <3>2, <1>4
  <2>6. CASE results[m].matched
    <3>1. m \in Matching(m)
      BY <2>1, <2>6
    <3>2. CASE Matching(m - 1) = {} /\ run[m - 1] = <<>>
      <4>1. run[m] = <<results[m]>>
        BY <2>4, <2>6, <3>2 DEF Consider, Better
      <4>2. \A i \in Matching(m) : i = m
        BY <2>2, <3>2
      <4>3. Beats(sigs, results, m, m)
        BY <1>2 DEF Beats
      <4> HIDE DEF Matching
      <4> QED BY <3>1, <4>1, <4>2, <4>3
    <3>3. CASE \E k \in Matching(m - 1) :
                 /\ run[m - 1] = <<results[k]>>
                 /\ \A i \in Matching(m - 1) : Beats(sigs, results, k, i)
      <4>1. PICK k \in Matching(m - 1) :
                 /\ run[m - 1] = <<results[k]>>
                 /\ \A i \in Matching(m - 1) : Beats(sigs, results, k, i)
        BY <3>3
      <4>2. k \in 1..n /\ k \in Matching(m)
        BY <2>1, <2>3
      <4>3. run[m - 1] # <<>> /\ run[m - 1][1] = results[k]
        BY <4>1
      <4>4. Better(sigs, results[m], run[m - 1])
              <=> \/ results[m].score > results[k].score
                  \/ /\ results[m].score = results[k].score
                     /\ sigs[m].priority > sigs[k].priority
        BY <1>2, <4>2, <4>3 DEF Better
      <4>5. CASE Better(sigs, results[m], run[m - 1])
        <5>1. run[m] = <<results[m]>>
          BY <2>4, <2>6, <4>5 DEF Consider
        <5>2. \A i \in Matching(m - 1) : Beats(sigs, results, m, i)
          BY <1>2, <2>1, <4>1, <4>2, <4>4, <4>5 DEF Beats
        <5>3. Beats(sigs, results, m, m)
          BY <1>2 DEF Beats
        <5> HIDE DEF Matching
        <5>4. \A i \in Matching(m) : Beats(sigs, results, m, i)
          BY <2>2, <5>2, <5>3
        <5> QED BY <3>1, <5>1, <5>4
      <4>6. CASE ~Better(sigs, results[m], run[m - 1])
        <5>1. run[m] = <<results[k]>>
          BY <2>4, <4>1, <4>6 DEF Consider
        <5>2. Beats(sigs, results, k, m)
          BY <1>2, <4>2, <4>4, <4>6 DEF Beats
        <5> HIDE DEF Matching
        <5>3. \A i \in Matching(m) : Beats(sigs, results, k, i)
          BY <2>2, <4>1, <5>2
        <5> QED BY <4>2, <5>1, <5>3
      <4> QED BY <4>5, <4>6
    <3> QED BY <1>4, <3>2, <3>3
  <2> QED BY <2>5, <2>6
<1>5. \A m \in 1..n : m - 1 \in S => m \in S
  BY <1>4
<1> HIDE DEF S
<1>6. 0..n \subseteq S
  BY <1>1, <1>3, <1>5, PositionInduction
<1>7. Best(n)
  BY <1>1, <1>6 DEF S
<1>8. {i \in DOMAIN sigs : results[i].matched} = Matching(n)
  BY <1>1
<1> HIDE DEF Matching
<1> QED BY <1>7, <1>8 DEF n, run

-----------------------------------------------------------------------------
(* What a probe stores *)

(* What the dispatcher found, apart from what identification changes, with  *)
(* that hash of the favicon.                                                *)
Rest(icon) ==
  [http |-> Answer.http, favicon |-> icon, facts |-> Answer.facts,
   tech |-> Answer.tech, version |-> Answer.version]

(* The answer as a document: what an HTTP answer has to begin with is only  *)
(* what its page shows.                                                     *)
LEMMA AnswerDoc ==
  ASSUME NEW icon
  PROVE  /\ Showing(icon) = Doc(Rest(icon), Answer.kind, Answer.product, -1, Answer.tags, {})
         /\ Answer = Showing(Answer.favicon)
         /\ Answer.kind = Dispatch(endpoint)
         /\ page \in Pages => Answer.product \in Names
         /\ Rest(icon).http = Answer.http
         /\ Answer.http => /\ Answer.kind \in {"http", "https"}
                           /\ Answer.product = <<>>
                           /\ Answer.tags = {}
                           /\ Rest(icon).version = None
<1> DEFINE kind == Dispatch(endpoint)
           http == kind \in {"http", "https"}
           version == IF kind \in NamesVersion THEN page.version ELSE None
           product == CASE kind = "mikrotik"     -> <<"mikrotik">>
                        [] kind \in NamesProduct -> page.product
                        [] OTHER                 -> <<>>
           tags == OwnTags(kind)
           favicon == IF http THEN page.favicon ELSE {}
           facts == CASE http             -> page.web
                      [] kind = "unknown" -> PortOnly
                      [] OTHER            -> page.told
<1>1. product \in {<<"mikrotik">>, page.product, <<>>}
  OBVIOUS
<1>2. http => product = <<>> /\ tags = {} /\ version = None
  BY DEF OwnTags, NamesProduct, NamesVersion
<1>3. Answer = [kind |-> kind, confidence |-> -1, version |-> version,
                product |-> product, tags |-> tags, http |-> http,
                httpTags |-> {}, favicon |-> favicon, facts |-> facts,
                tech |-> page.tech]
  BY DEF Answer
<1>4. page \in Pages => product \in Names
  <2>1. "mikrotik" \in Words
    BY ProductAssumption
  <2>2. <<"mikrotik">> \in Names /\ <<>> \in Names
    BY <2>1 DEF Names
  <2>3. page \in Pages => page.product \in Names
    BY ProductAssumption
  <2> QED BY <1>1, <2>2, <2>3
<1>5. kind = Dispatch(endpoint) /\ (http => kind \in {"http", "https"})
  OBVIOUS
<1> HIDE DEF kind, http, version, product, tags, favicon, facts
<1>6. /\ Answer.kind = kind /\ Answer.product = product /\ Answer.tags = tags
      /\ Answer.http = http /\ Answer.favicon = favicon /\ Answer.facts = facts
      /\ Answer.tech = page.tech /\ Answer.version = version
  BY <1>3
<1>7. Showing(icon) = Doc(Rest(icon), Answer.kind, Answer.product, -1, Answer.tags, {})
  <2>1. Showing(icon) = [kind |-> kind, confidence |-> -1, version |-> version,
                product |-> product, tags |-> tags, http |-> http,
                httpTags |-> {}, favicon |-> icon, facts |-> facts,
                tech |-> page.tech]
    BY <1>3 DEF Showing
  <2> QED BY <1>6, <2>1 DEF Doc, Rest
<1>8. Answer = Showing(Answer.favicon)
  BY <1>3 DEF Showing
<1>9. Rest(icon).http = http /\ Rest(icon).version = version
  BY <1>6 DEF Rest
<1> QED BY <1>2, <1>4, <1>5, <1>6, <1>7, <1>8, <1>9

(* A document before it is normalised, under a corpus. *)
Found(icon, sigs) == Identify(sigs, MergeTech(Showing(icon)))

HttpTags == IF Answer.http THEN Detect({}, Answer.tech) ELSE {}

(* The answer once technology detection has been over it. *)
LEMMA MergedDoc ==
  ASSUME NEW icon
  PROVE  MergeTech(Showing(icon))
           = Doc(Rest(icon), Answer.kind, Answer.product, -1, Answer.tags, HttpTags)
<1>1. Rest(icon).http = Answer.http /\ Rest(icon).tech = Answer.tech
  BY DEF Rest
<1> QED BY <1>1, AnswerDoc, MergeTechDoc DEF HttpTags

(* The best match is a signature of the corpus. *)
LEMMA BestFound ==
  ASSUME NEW sigs, Usable(sigs), NEW evidence
  PROVE  LET matching == {i \in DOMAIN sigs : Evaluate(sigs[i], evidence).matched}
         IN \/ matching = {} /\ Resolve(sigs, evidence) = <<>>
            \/ \E k \in matching :
                 /\ Resolve(sigs, evidence) = <<Evaluate(sigs[k], evidence)>>
                 /\ FirstNamed(sigs, Evaluate(sigs[k], evidence).id) = sigs[k]
                 /\ \A i \in matching :
                      \/ Evaluate(sigs[i], evidence).score < Evaluate(sigs[k], evidence).score
                      \/ /\ Evaluate(sigs[i], evidence).score
                              = Evaluate(sigs[k], evidence).score
                         /\ sigs[i].priority <= sigs[k].priority
<1> DEFINE results == [i \in DOMAIN sigs |-> Evaluate(sigs[i], evidence)]
<1>1. \A i \in DOMAIN sigs :
        results[i].id = sigs[i].id /\ results[i].score \in Nat
  <2> SUFFICES ASSUME NEW i \in DOMAIN sigs
               PROVE  results[i].id = sigs[i].id /\ results[i].score \in Nat
    OBVIOUS
  <2>1. /\ Evaluate(sigs[i], evidence).id = sigs[i].id
        /\ Evaluate(sigs[i], evidence).score
             = TotalWeight(sigs[i], Hits(sigs[i], evidence))
    BY DEF Evaluate
  <2>2. TotalWeight(sigs[i], Hits(sigs[i], evidence)) \in Nat
    BY WeighingRuns DEF Usable
  <2> QED BY <2>1, <2>2
<1>2. \A i \in DOMAIN sigs : results[i] = Evaluate(sigs[i], evidence)
  OBVIOUS
<1>3. Resolve(sigs, evidence) = Resolving(sigs, results)[Len(sigs)]
  BY DEF Resolve
<1> HIDE DEF results
<1>4. LET matching == {i \in DOMAIN sigs : results[i].matched}
          best     == Resolving(sigs, results)[Len(sigs)]
      IN \/ matching = {} /\ best = <<>>
         \/ \E k \in matching :
              best = <<results[k]>> /\ \A i \in matching : Beats(sigs, results, k, i)
  BY <1>1, ResolvingBest
<1>5. {i \in DOMAIN sigs : Evaluate(sigs[i], evidence).matched}
        = {i \in DOMAIN sigs : results[i].matched}
  BY <1>2
<1>6. \A k \in DOMAIN sigs : FirstNamed(sigs, results[k].id) = sigs[k]
  BY <1>1, NamedFirst
<1> QED BY <1>2, <1>3, <1>4, <1>5, <1>6 DEF Beats

(* What identification writes. *)
LEMMA FoundDoc ==
  ASSUME NEW sigs, Usable(sigs), NEW icon, page \in Pages
  PROVE  \E product, confidence, tags :
           /\ product \in Names
           /\ Found(icon, sigs) = Doc(Rest(icon), Answer.kind, product, confidence, tags, HttpTags)
<1> DEFINE best == Resolve(sigs, EvidenceFrom(Doc(Rest(icon), Answer.kind, Answer.product, -1,
                                                  Answer.tags, HttpTags)))
<1>1. Found(icon, sigs)
        = IF best = <<>>
          THEN Doc(Rest(icon), Answer.kind, Answer.product, -1, Answer.tags, HttpTags)
          ELSE Doc(Rest(icon), Answer.kind, FirstNamed(sigs, best[1].id).name,
                   best[1].confidence,
                   Merge(Answer.tags, FirstNamed(sigs, best[1].id).tags), HttpTags)
  BY IdentifyDoc, MergedDoc DEF Found
<1>2. best = <<>> \/ \E k \in DOMAIN sigs : FirstNamed(sigs, best[1].id) = sigs[k]
  <2> DEFINE evidence == EvidenceFrom(Doc(Rest(icon), Answer.kind, Answer.product, -1,
                                          Answer.tags, HttpTags))
  <2> HIDE DEF evidence
  <2>1. \/ Resolve(sigs, evidence) = <<>>
        \/ \E k \in DOMAIN sigs :
             FirstNamed(sigs, Resolve(sigs, evidence)[1].id) = sigs[k]
    BY BestFound
  <2> QED BY <2>1 DEF evidence
<1> HIDE DEF best
<1>3. best = <<>> \/ FirstNamed(sigs, best[1].id).name \in Names
  BY <1>2 DEF Usable
<1> QED BY <1>1, <1>3, AnswerDoc

(* A document that was identified with one hash of the favicon and has     *)
(* another by now.                                                          *)
Kept(sigs, icon, now) == [Document(sigs, Showing(icon)) EXCEPT !.favicon = now]

(* It is what normalize_service makes of a document with the new hash.      *)
LEMMA KeptDoc ==
  ASSUME NEW sigs, NEW icon, NEW now, NEW product, NEW confidence, NEW tags,
         Found(icon, sigs) = Doc(Rest(icon), Answer.kind, product, confidence, tags, HttpTags)
  PROVE  LET slug  == IF product = <<>> THEN <<>> ELSE CanonicalProduct(product)
             stags == NormalizeTags(CanonicalKind(Answer.kind), tags)
         IN /\ Document(sigs, Showing(icon))
                 = Doc(Rest(icon), CanonicalKind(Answer.kind), slug, confidence, stags,
                       HttpTags)
            /\ Kept(sigs, icon, now)
                 = Doc(Rest(now), CanonicalKind(Answer.kind), slug, confidence, stags,
                       HttpTags)
            /\ Kept(sigs, icon, now)
                 = NormalizeService(Doc(Rest(now), Answer.kind, product, confidence, tags,
                                        HttpTags))
<1> DEFINE slug == IF product = <<>> THEN <<>> ELSE CanonicalProduct(product)
           kind == CanonicalKind(Answer.kind)
           stags == NormalizeTags(kind, tags)
<1>1. /\ NormalizeService(Doc(Rest(icon), Answer.kind, product, confidence, tags, HttpTags))
           = Doc(Rest(icon), kind, slug, confidence, stags, HttpTags)
      /\ NormalizeService(Doc(Rest(now), Answer.kind, product, confidence, tags, HttpTags))
           = Doc(Rest(now), kind, slug, confidence, stags, HttpTags)
  BY NormalizeDoc
<1> HIDE DEF slug, kind, stags
<1>2. Document(sigs, Showing(icon)) = Doc(Rest(icon), kind, slug, confidence, stags, HttpTags)
  BY <1>1 DEF Document, Found
<1>3. [Doc(Rest(icon), kind, slug, confidence, stags, HttpTags) EXCEPT !.favicon = now]
        = Doc(Rest(now), kind, slug, confidence, stags, HttpTags)
  BY DEF Doc, Rest
<1>4. Kept(sigs, icon, now) = Doc(Rest(now), kind, slug, confidence, stags, HttpTags)
  BY <1>2, <1>3 DEF Kept
<1> QED BY <1>1, <1>2, <1>4 DEF slug, kind, stags

(* normalize_service has nothing left to do on what a probe or the enricher *)
(* stores.                                                                  *)
LEMMA DocumentSettles ==
  ASSUME NEW sigs, Usable(sigs), NEW icon, NEW now, page \in Pages
  PROVE  /\ NormalizeService(Kept(sigs, icon, now)) = Kept(sigs, icon, now)
         /\ Kept(sigs, icon, now).http = Answer.http
         /\ Kept(sigs, icon, now).favicon = now
         /\ Kept(sigs, icon, now).kind = CanonicalKind(Dispatch(endpoint))
         /\ Document(sigs, Showing(icon)) = Kept(sigs, icon, icon)
<1>1. PICK product, confidence, tags :
        /\ product \in Names
        /\ Found(icon, sigs)
             = Doc(Rest(icon), Answer.kind, product, confidence, tags, HttpTags)
  BY FoundDoc
<1> DEFINE found == Doc(Rest(now), Answer.kind, product, confidence, tags, HttpTags)
<1>2. Kept(sigs, icon, now) = NormalizeService(found)
  BY <1>1, KeptDoc
<1>3. /\ {"kind", "product", "tags"} \subseteq DOMAIN found
      /\ found = [field \in DOMAIN found |-> found[field]]
      /\ found.product \in Names
  BY <1>1 DEF Doc
<1>4. NormalizeService(NormalizeService(found)) = NormalizeService(found)
  <2> HIDE DEF found
  <2> QED BY <1>3, NormalizeSettles
<1> DEFINE slug == IF product = <<>> THEN <<>> ELSE CanonicalProduct(product)
           stags == NormalizeTags(CanonicalKind(Answer.kind), tags)
<1>5. /\ Document(sigs, Showing(icon))
           = Doc(Rest(icon), CanonicalKind(Answer.kind), slug, confidence, stags, HttpTags)
      /\ \A other : Kept(sigs, icon, other)
           = Doc(Rest(other), CanonicalKind(Answer.kind), slug, confidence, stags, HttpTags)
  BY <1>1, KeptDoc
<1> HIDE DEF found, slug, stags
<1>6. /\ Kept(sigs, icon, now).http = Answer.http
      /\ Kept(sigs, icon, now).favicon = now
      /\ Kept(sigs, icon, now).kind = CanonicalKind(Answer.kind)
  BY <1>5 DEF Doc, Rest
<1>7. Answer.kind = Dispatch(endpoint)
  BY AnswerDoc
<1> QED BY <1>2, <1>4, <1>5, <1>6, <1>7

(* Identifying a stored document again gives what a fresh probe would that  *)
(* takes the hash it has now, even if another corpus, or another hash, was  *)
(* used to store it.                                                        *)
LEMMA ReidentifyFresh ==
  ASSUME NEW old, Usable(old), NEW sigs, Usable(sigs), NEW icon, NEW now,
         page \in Pages, Answer.http
  PROVE  Reidentify(sigs, Kept(old, icon, now)) = Document(sigs, Showing(now))
<1> DEFINE rest == Rest(now)
<1>1. PICK product, confidence, tags :
        /\ product \in Names
        /\ Found(icon, old) = Doc(Rest(icon), Answer.kind, product, confidence, tags, HttpTags)
  BY FoundDoc
<1> DEFINE slug == IF product = <<>> THEN <<>> ELSE CanonicalProduct(product)
           stags == NormalizeTags(CanonicalKind(Answer.kind), tags)
<1>2. Kept(old, icon, now)
        = Doc(rest, CanonicalKind(Answer.kind), slug, confidence, stags, HttpTags)
  BY <1>1, KeptDoc
<1> HIDE DEF slug, stags
<1>3. CanonicalKind(Answer.kind) = "http" /\ Answer.kind \in {"http", "https"}
      /\ Answer.product = <<>> /\ Answer.tags = {}
      /\ rest.version = None /\ rest.http /\ rest.tech = Answer.tech
  BY AnswerDoc DEF CanonicalKind, Rest
<1> HIDE DEF rest
<1>4. Reset(Kept(old, icon, now)) = Doc(rest, "http", <<>>, -1, {}, HttpTags)
  BY <1>2, <1>3, ResetDoc
<1>5. Detect(HttpTags, rest.tech) = HttpTags
  BY <1>3, DetectSettles DEF HttpTags
<1>6. MergeTech(Reset(Kept(old, icon, now)))
        = Doc(rest, "http", <<>>, -1, {}, HttpTags)
  BY <1>3, <1>4, <1>5, MergeTechDoc
<1> DEFINE best == Resolve(sigs, EvidenceFrom(Doc(rest, Answer.kind, <<>>, -1, {}, HttpTags)))
           again == Resolve(sigs, EvidenceFrom(Doc(rest, "http", <<>>, -1, {}, HttpTags)))
           P == IF best = <<>> THEN <<>> ELSE FirstNamed(sigs, best[1].id).name
           C == IF best = <<>> THEN -1 ELSE best[1].confidence
           T == IF best = <<>> THEN {} ELSE Merge({}, FirstNamed(sigs, best[1].id).tags)
<1>7. again = best
  BY <1>3, SameBest
<1>8. Identify(sigs, Doc(rest, "http", <<>>, -1, {}, HttpTags))
        = Doc(rest, "http", P, C, T, HttpTags)
  <2> HIDE DEF best
  <2>1. Identify(sigs, Doc(rest, "http", <<>>, -1, {}, HttpTags))
          = IF best = <<>> THEN Doc(rest, "http", <<>>, -1, {}, HttpTags)
            ELSE Doc(rest, "http", FirstNamed(sigs, best[1].id).name,
                     best[1].confidence,
                     Merge({}, FirstNamed(sigs, best[1].id).tags), HttpTags)
    BY <1>7, IdentifyDoc
  <2> QED BY <2>1
<1>9. Found(now, sigs) = Doc(rest, Answer.kind, P, C, T, HttpTags)
  <2>1. MergeTech(Showing(now)) = Doc(rest, Answer.kind, <<>>, -1, {}, HttpTags)
    BY <1>3, MergedDoc DEF rest
  <2>2. Identify(sigs, Doc(rest, Answer.kind, <<>>, -1, {}, HttpTags))
          = IF best = <<>> THEN Doc(rest, Answer.kind, <<>>, -1, {}, HttpTags)
            ELSE Doc(rest, Answer.kind, FirstNamed(sigs, best[1].id).name,
                     best[1].confidence,
                     Merge({}, FirstNamed(sigs, best[1].id).tags), HttpTags)
    BY IdentifyDoc
  <2> HIDE DEF best
  <2> QED BY <2>1, <2>2 DEF Found
<1> HIDE DEF best, again, P, C, T
<1>10. NormalizeService(Doc(rest, "http", P, C, T, HttpTags))
         = NormalizeService(Doc(rest, Answer.kind, P, C, T, HttpTags))
  <2>1. CanonicalKind("http") = CanonicalKind(Answer.kind)
    BY <1>3 DEF CanonicalKind
  <2> QED BY <2>1, NormalizeDoc
<1>11. Kept(old, icon, now).http
  BY <1>2, <1>3 DEF Doc
<1> QED BY <1>6, <1>8, <1>9, <1>10, <1>11 DEF Reidentify, Document, Found

-----------------------------------------------------------------------------
(* The dispatcher *)

(* The registry. *)
LEMMA Registry ==
  /\ DOMAIN Probes = 1..13
  /\ Probes[1] = "ssh" /\ Probes[2] = "ftp" /\ Probes[3] = "smtp" /\ Probes[4] = "imap"
  /\ Probes[5] = "pop3" /\ Probes[6] = "telnet" /\ Probes[7] = "mysql"
  /\ Probes[8] = "pptp" /\ Probes[9] = "mqtt" /\ Probes[10] = "sccp"
  /\ Probes[11] = "mikrotik" /\ Probes[12] = "rtsp" /\ Probes[13] = "bgp"
BY DEF Probes

(* No two probes have one name. *)
LEMMA RegistryUnique ==
  ASSUME NEW i \in DOMAIN Probes, NEW j \in DOMAIN Probes, Probes[i] = Probes[j]
  PROVE  i = j
BY Registry

(* The protocols whose probe waits for no greeting. *)
LEMMA Hears ==
  ASSUME NEW banner, NEW i \in DOMAIN Probes
  PROVE  i \in Detects(banner)
           <=> \/ i = 2 /\ "220" \in banner
               \/ i = 3 /\ {"220", "SMTP"} \subseteq banner
               \/ i = 4 /\ "*OK" \in banner
               \/ i = 5 /\ "+OK" \in banner
               \/ i = 6 /\ {"0xFF", "login:"} \cap banner # {}
               \/ i = 7 /\ {"0x0a", "MySQL"} \subseteq banner
               \/ i = 11 /\ "btest" \in banner
<1> DEFINE p == Probes[i]
<1>1. p \in RequiresProbeWithoutBanner <=> i \in {1, 8, 9, 10, 12, 13}
  BY Registry DEF RequiresProbeWithoutBanner
<1>2. /\ i = 2 => p = "ftp"
      /\ i = 3 => p = "smtp"
      /\ i = 4 => p = "imap"
      /\ i = 5 => p = "pop3"
      /\ i = 6 => p = "telnet"
      /\ i = 7 => p = "mysql"
      /\ i = 11 => p = "mikrotik"
  BY Registry
<1>3. i \in 1..13
  BY Registry
<1>4. i \in Detects(banner)
        <=> p \notin RequiresProbeWithoutBanner /\ DetectsBanner(p, banner)
  BY DEF Detects
<1> HIDE DEF p
<1>5. /\ p = "ftp" => (DetectsBanner(p, banner) <=> "220" \in banner)
      /\ p = "smtp" => (DetectsBanner(p, banner) <=> {"220", "SMTP"} \subseteq banner)
      /\ p = "imap" => (DetectsBanner(p, banner) <=> "*OK" \in banner)
      /\ p = "pop3" => (DetectsBanner(p, banner) <=> "+OK" \in banner)
      /\ p = "telnet" => (DetectsBanner(p, banner)
                            <=> {"0xFF", "login:"} \cap banner # {})
      /\ p = "mysql" => (DetectsBanner(p, banner) <=> {"0x0a", "MySQL"} \subseteq banner)
      /\ p = "mikrotik" => (DetectsBanner(p, banner) <=> "btest" \in banner)
  BY DEF DetectsBanner, DetectsFtp, DetectsSmtp, DetectsImap, DetectsPop3,
         DetectsTelnet, DetectsMysql, DetectsMikrotik
<1> QED BY <1>1, <1>2, <1>3, <1>4, <1>5

(* The priorities of the probes that look at a greeting. *)
LEMMA Priorities ==
  /\ ProbePriority(Probes[2]) = 90 /\ ProbePriority(Probes[3]) = 90
  /\ ProbePriority(Probes[4]) = 80 /\ ProbePriority(Probes[5]) = 80
  /\ ProbePriority(Probes[6]) = 80 /\ ProbePriority(Probes[7]) = 80
  /\ ProbePriority(Probes[11]) = 70
BY Registry DEF ProbePriority

(* The probe that comes first among those that recognise a greeting gets it. *)
LEMMA FirstChosen ==
  ASSUME NEW banner, NEW i \in Detects(banner),
         \A j \in Detects(banner) :
           \/ ProbePriority(Probes[i]) > ProbePriority(Probes[j])
           \/ ProbePriority(Probes[i]) = ProbePriority(Probes[j]) /\ i <= j
  PROVE  BestProbe(banner) = {Probes[i]}
<1> DEFINE First(k) == \A j \in Detects(banner) :
             \/ ProbePriority(Probes[k]) > ProbePriority(Probes[j])
             \/ ProbePriority(Probes[k]) = ProbePriority(Probes[j]) /\ k <= j
           P(k) == ProbePriority(Probes[k])
<1>1. \A k \in Detects(banner) : k \in {2, 3, 4, 5, 6, 7, 11}
  <2>1. \A k \in Detects(banner) : k \in DOMAIN Probes
    BY DEF Detects
  <2> QED BY <2>1, Hears
<1>2. \A k \in Detects(banner) : P(k) \in Int /\ k \in Int
  BY <1>1, Priorities
<1>3. \A k \in Detects(banner) : First(k) => k = i
  <2> SUFFICES ASSUME NEW k \in Detects(banner), First(k) PROVE k = i
    OBVIOUS
  <2>1. P(k) > P(i) \/ (P(k) = P(i) /\ k <= i)
    OBVIOUS
  <2>2. P(i) > P(k) \/ (P(i) = P(k) /\ i <= k)
    OBVIOUS
  <2>3. P(k) \in Int /\ P(i) \in Int /\ k \in Int /\ i \in Int
    BY <1>2
  <2> HIDE DEF P
  <2> QED BY <2>1, <2>2, <2>3
<1>4. First(i)
  OBVIOUS
<1>5. {k \in Detects(banner) : First(k)} = {i}
  BY <1>3, <1>4
<1>6. BestProbe(banner) = {Probes[k] : k \in {k \in Detects(banner) : First(k)}}
  BY DEF BestProbe
<1> HIDE DEF First
<1> QED BY <1>5, <1>6

(* A server that greets as its protocol does, and whose greeting a probe    *)
(* recognises, gets the probe of its protocol.                              *)
LEMMA HeardChosen ==
  ASSUME NEW i \in {2, 4, 5, 6, 7, 11}, NEW banner \in Greetings(Probes[i]),
         ~ Unnamed(Probes[i], banner)
  PROVE  BestProbe(banner) = {Probes[i]}
<1>1. \A j \in Detects(banner) : j \in DOMAIN Probes
  BY DEF Detects
<1>2. i \in DOMAIN Probes
  BY Registry
<1>3. CASE i = 2
  <2>1. banner \in {{"220"}, {"220", "SMTP"}, {"220", "login:"}}
    BY <1>3, Registry DEF Greetings
  <2>2. i \in Detects(banner) /\ Detects(banner) \subseteq {2, 3, 6}
    BY <1>1, <1>2, <1>3, <2>1, Hears
  <2> QED BY <1>3, <2>2, Priorities, FirstChosen
<1>4. CASE i = 4
  <2>1. banner \in {{"*OK"}, {"*OK", "login:"}}
    BY <1>4, Registry DEF Greetings
  <2>2. i \in Detects(banner) /\ Detects(banner) \subseteq {4, 6}
    BY <1>1, <1>2, <1>4, <2>1, Hears
  <2> QED BY <1>4, <2>2, Priorities, FirstChosen
<1>5. CASE i = 5
  <2>1. banner \in {{"+OK"}, {"+OK", "login:"}}
    BY <1>5, Registry DEF Greetings
  <2>2. i \in Detects(banner) /\ Detects(banner) \subseteq {5, 6}
    BY <1>1, <1>2, <1>5, <2>1, Hears
  <2> QED BY <1>5, <2>2, Priorities, FirstChosen
<1>6. CASE i = 6
  <2>1. banner \in {{"0xFF"}, {"login:"}, {"0xFF", "login:"}}
    BY <1>6, Registry DEF Greetings
  <2>2. i \in Detects(banner) /\ Detects(banner) \subseteq {6}
    BY <1>1, <1>2, <1>6, <2>1, Hears
  <2> QED BY <1>6, <2>2, Priorities, FirstChosen
<1>7. CASE i = 7
  <2>1. banner = {"0x0a", "MySQL"}
    BY <1>7, Registry DEF Greetings, Unnamed
  <2>2. i \in Detects(banner) /\ Detects(banner) \subseteq {7}
    BY <1>1, <1>2, <1>7, <2>1, Hears
  <2> QED BY <1>7, <2>2, Priorities, FirstChosen
<1>8. CASE i = 11
  <2>1. banner = {"btest"}
    BY <1>8, Registry DEF Greetings
  <2>2. i \in Detects(banner) /\ Detects(banner) \subseteq {11}
    BY <1>1, <1>2, <1>8, <2>1, Hears
  <2> QED BY <1>8, <2>2, Priorities, FirstChosen
<1> QED BY <1>3, <1>4, <1>5, <1>6, <1>7, <1>8

(* The other protocols' greetings are recognised by none. *)
LEMMA UnheardNone ==
  ASSUME NEW i \in {1, 8, 9, 10, 12, 13}, NEW banner \in Greetings(Probes[i])
  PROVE  BestProbe(banner) = {}
<1>1. banner = {"SSH-"} \/ banner = {}
  BY Registry DEF Greetings
<1>2. \A j \in Detects(banner) : j \in DOMAIN Probes
  BY DEF Detects
<1>3. Detects(banner) = {}
  BY <1>1, <1>2, Hears
<1> QED BY <1>3 DEF BestProbe

(* A MySQL server that does not name itself is recognised by none.          *)
LEMMA UnnamedUnheard ==
  ASSUME NEW i \in DOMAIN Probes, NEW banner \in Greetings(Probes[i]),
         Unnamed(Probes[i], banner)
  PROVE  BestProbe(banner) = {} /\ Probes[i] = "mysql"
<1>1. Probes[i] = "mysql" /\ banner = {"0x0a"}
  BY DEF Unnamed, Greetings
<1>2. \A j \in Detects(banner) : j \in DOMAIN Probes
  BY DEF Detects
<1>3. Detects(banner) = {}
  BY <1>1, <1>2, Hears
<1> QED BY <1>1, <1>3 DEF BestProbe

(* What no probe recognises is not stored as mysql.                         *)
LEMMA UnheardNoMysql ==
  ASSUME NEW server, BestProbe(server.banner) = {}, server.reads, ~server.secure
  PROVE  CanonicalKind(Dispatch(server)) # "mysql"
<1> DEFINE fallback == TryHttpFallback(server)
           probed == Unprompted(server)
<1>1. Dispatch(server) = IF fallback \in {"http", "https"} THEN fallback
                         ELSE IF probed # {} THEN CHOOSE q \in probed : TRUE
                         ELSE "unknown"
  BY DEF Dispatch
<1>2. probed \subseteq RequiresProbeWithoutBanner
  BY DEF Unprompted
<1> HIDE DEF fallback, probed
<1>3. Dispatch(server) \in {"http", "https", "unknown"} \cup RequiresProbeWithoutBanner
  BY <1>1, <1>2
<1>4. Dispatch(server) # "mysql"
  BY <1>3 DEF RequiresProbeWithoutBanner
<1> QED BY <1>4 DEF CanonicalKind

(* The dispatcher gives a server to the probe of its protocol.              *)
LEMMA HonestDispatch ==
  ASSUME NEW server, NEW i \in DOMAIN Probes, Probes[i] # "smtp",
         Probes[i] \in server.answers, server.banner \in Greetings(Probes[i]),
         ~ Unnamed(Probes[i], server.banner), server.reads, ~server.secure,
         Probes[i] \in RequiresProbeWithoutBanner =>
           /\ server.schemes = {}
           /\ \A j \in 1..(i - 1) :
                Probes[j] \notin RequiresProbeWithoutBanner \cap server.answers
  PROVE  Dispatch(server) = Probes[i] /\ CanonicalKind(Probes[i]) = Probes[i]
<1> DEFINE p == Probes[i]
           best == BestProbe(server.banner)
           fallback == TryHttpFallback(server)
           probed == Unprompted(server)
<1>1. i \in {1, 8, 9, 10, 12, 13} \cup {2, 4, 5, 6, 7, 11}
  BY Registry
<1>2. CanonicalKind(p) = p
  BY <1>1, Registry DEF CanonicalKind
<1>3. best # {} => Dispatch(server) = IF best \subseteq server.answers
                                      THEN CHOOSE q \in best : TRUE ELSE "error"
  BY DEF Dispatch
<1>4. best = {} => Dispatch(server) = IF fallback \in {"http", "https"} THEN fallback
                                      ELSE IF probed # {} THEN CHOOSE q \in probed : TRUE
                                      ELSE "unknown"
  BY DEF Dispatch
<1>5. CASE i \in {2, 4, 5, 6, 7, 11}
  <2>1. best = {p}
    BY <1>5, HeardChosen
  <2> HIDE DEF best, p
  <2>2. {p} \subseteq server.answers
    BY DEF p
  <2>3. Dispatch(server) = CHOOSE q \in {p} : TRUE
    BY <1>3, <2>1, <2>2
  <2>4. Dispatch(server) = p
    BY <2>3
  <2> QED BY <1>2, <2>4 DEF p
<1>6. CASE i \in {1, 8, 9, 10, 12, 13}
  <2>1. best = {}
    BY <1>6, UnheardNone
  <2>2. p \in RequiresProbeWithoutBanner
    BY <1>6, Registry DEF RequiresProbeWithoutBanner
  <2>3. fallback \in {"tls", "unknown"}
    BY <2>2 DEF TryHttpFallback
  <2> DEFINE silent == RequiresProbeWithoutBanner \cap server.answers
  <2>4. p \in silent /\ \A j \in 1..(i - 1) : Probes[j] \notin silent
    BY <2>2
  <2>5. \A q \in silent : (\E j \in DOMAIN Probes :
                              /\ Probes[j] = q
                              /\ \A k \in 1..(j - 1) : Probes[k] \notin silent)
                           <=> q = p
    <3>0. i \in 1..13 /\ DOMAIN Probes = 1..13
      BY Registry
    <3>1. ASSUME NEW j \in DOMAIN Probes, Probes[j] \in silent,
                 \A k \in 1..(j - 1) : Probes[k] \notin silent
          PROVE  j = i
      <4>1. ~ (j < i)
        <5>1. j < i => j \in 1..(i - 1)
          BY <3>0
        <5> HIDE DEF silent
        <5> QED BY <5>1, <3>1, <2>4
      <4>2. ~ (i < j)
        <5>1. i < j => i \in 1..(j - 1)
          BY <3>0
        <5> HIDE DEF silent
        <5> QED BY <5>1, <3>1, <2>4 DEF p
      <4> QED BY <4>1, <4>2, <3>0
    <3> HIDE DEF silent
    <3> QED BY <3>1, <2>4 DEF p
  <2>6. probed = {p}
    <3>1. probed = {q \in silent : \E j \in DOMAIN Probes :
                      /\ Probes[j] = q
                      /\ \A k \in 1..(j - 1) : Probes[k] \notin silent}
      BY DEF Unprompted
    <3> HIDE DEF silent, probed, p
    <3> QED BY <2>4, <2>5, <3>1
  <2> HIDE DEF best, fallback, probed, p
  <2>7. Dispatch(server) = CHOOSE q \in {p} : TRUE
    BY <1>4, <2>1, <2>3, <2>6
  <2>8. Dispatch(server) = p
    BY <2>7
  <2> QED BY <1>2, <2>8 DEF p
<1> QED BY <1>1, <1>5, <1>6

-----------------------------------------------------------------------------
(* The theorems *)

(* The inductive invariant: the constants' sets, which the variables keep,  *)
(* and MaintenanceForgets, which carries the rest.                          *)
IInv ==
  /\ endpoint \in Endpoints
  /\ page \in Pages
  /\ corpus \in Corpora
  /\ used \in Corpora
  /\ MaintenanceForgets

(* The endpoint and its page stay, and with them the answer. *)
LEMMA AnswerStays ==
  ASSUME UNCHANGED <<endpoint, page>>
  PROVE  Answer' = Answer
BY DEF Answer, PortOnly

(* The invariant, over probes, deployments, enrichments and maintenance in  *)
(* any order.                                                               *)
THEOREM Invariant == Spec => []IInv
<1>1. Init => IInv
  BY DEF Init, IInv, MaintenanceForgets
<1>2. IInv /\ [Next]_vars => IInv'
  <2> SUFFICES ASSUME IInv, [Next]_vars
               PROVE  IInv'
    OBVIOUS
  <2> USE DEF IInv
  <2>1. \A c \in Corpora : Usable(LoadDir(c))
    BY CorporaUsable
  <2>2. ASSUME NEW icon, NEW now, Answer' = Answer, seen' = icon,
               stored' = Kept(LoadDir(used'), icon, now), stored'.favicon = now
        PROVE  MaintenanceForgets'
    BY <2>2 DEF MaintenanceForgets, Kept, Showing
  <2>3. /\ stored # NotStored => stored = Kept(LoadDir(used), seen, stored.favicon)
        /\ page \in Pages /\ corpus \in Corpora /\ used \in Corpora
    BY DEF MaintenanceForgets, Kept
  <2>4. CASE Probe
    <3> DEFINE icon == Answer.favicon
    <3>1. Answer' = Answer
      BY <2>4, AnswerStays DEF Probe
    <3>2. stored' = Document(LoadDir(corpus), Answer) /\ used' = corpus
          /\ seen' = icon /\ UNCHANGED <<endpoint, page, corpus>>
      BY <2>4 DEF Probe
    <3>3. Answer = Showing(icon)
      BY AnswerDoc
    <3> HIDE DEF icon
    <3>4. stored' = Kept(LoadDir(corpus), icon, icon)
          /\ Kept(LoadDir(corpus), icon, icon).favicon = icon
      BY <2>1, <2>3, <3>2, <3>3, DocumentSettles
    <3>5. MaintenanceForgets'
      BY <2>2, <3>1, <3>2, <3>4
    <3> QED BY <3>2, <3>5
  <2>5. CASE Deploy
    <3>1. Answer' = Answer
      BY <2>5, AnswerStays DEF Deploy
    <3>2. corpus' \in Corpora /\ UNCHANGED <<endpoint, page, stored, used, seen>>
      BY <2>5 DEF Deploy
    <3> QED BY <3>1, <3>2 DEF MaintenanceForgets, Showing
  <2>6. CASE EnrichFavicon
    <3>1. Answer' = Answer
      BY <2>6, AnswerStays DEF EnrichFavicon
    <3> DEFINE old == stored.favicon
               icon == page.icon
    <3>2. /\ stored # NotStored
          /\ stored' = [stored EXCEPT !.favicon = icon]
          /\ UNCHANGED <<endpoint, page, corpus, used, seen>>
      BY <2>6 DEF EnrichFavicon
    <3> HIDE DEF old, icon
    <3>3. stored = Kept(LoadDir(used), seen, old)
      BY <2>3, <3>2 DEF old
    <3>4. stored' = Kept(LoadDir(used), seen, icon)
      BY <3>2, <3>3 DEF Kept
    <3>5. Kept(LoadDir(used), seen, icon).favicon = icon
      BY <2>1, <2>3, DocumentSettles
    <3>6. MaintenanceForgets'
      BY <2>2, <3>1, <3>2, <3>4, <3>5
    <3> QED BY <3>2, <3>6
  <2>7. CASE ReidentifyHttp
    <3>1. Answer' = Answer
      BY <2>7, AnswerStays DEF ReidentifyHttp
    <3> DEFINE icon == stored.favicon
    <3>2. /\ stored # NotStored /\ stored.http
          /\ stored' = Reidentify(LoadDir(corpus), stored)
          /\ used' = corpus /\ seen' = icon
          /\ UNCHANGED <<endpoint, page, corpus>>
      BY <2>7 DEF ReidentifyHttp
    <3>3. stored = Kept(LoadDir(used), seen, icon)
      BY <2>3, <3>2
    <3> HIDE DEF icon
    <3>4. Answer.http
      BY <2>1, <2>3, <3>2, <3>3, DocumentSettles
    <3>5. Reidentify(LoadDir(corpus), Kept(LoadDir(used), seen, icon))
            = Document(LoadDir(corpus), Showing(icon))
      BY <2>1, <2>3, <3>4, ReidentifyFresh
    <3>6. stored' = Kept(LoadDir(corpus), icon, icon)
          /\ Kept(LoadDir(corpus), icon, icon).favicon = icon
      BY <2>1, <2>3, <3>2, <3>3, <3>5, DocumentSettles
    <3>7. MaintenanceForgets'
      BY <2>2, <3>1, <3>2, <3>6
    <3> QED BY <3>2, <3>7
  <2>8. CASE Backfill
    <3>1. Answer' = Answer
      BY <2>8, AnswerStays DEF Backfill
    <3> DEFINE icon == stored.favicon
    <3>2. /\ stored # NotStored /\ stored' = NormalizeService(stored)
          /\ UNCHANGED <<endpoint, page, corpus, used, seen>>
      BY <2>8 DEF Backfill
    <3>3. stored = Kept(LoadDir(used), seen, icon)
      BY <2>3, <3>2
    <3> HIDE DEF icon
    <3>4. /\ stored' = Kept(LoadDir(used), seen, icon)
          /\ Kept(LoadDir(used), seen, icon).favicon = icon
      BY <2>1, <2>3, <3>2, <3>3, DocumentSettles
    <3>5. MaintenanceForgets'
      BY <2>2, <3>1, <3>2, <3>4
    <3> QED BY <3>2, <3>5
  <2>9. CASE UNCHANGED vars
    <3>1. Answer' = Answer
      BY <2>9, AnswerStays DEF vars
    <3> QED BY <2>9, <3>1 DEF vars, MaintenanceForgets, Showing
  <2> QED BY <2>4, <2>5, <2>6, <2>7, <2>8, <2>9 DEF Next
<1> QED BY <1>1, <1>2, PTL DEF Spec

(* The product identification chose, normalised. *)
LEMMA StoredProduct ==
  ASSUME NEW sigs, NEW icon, NEW now, NEW product, NEW confidence, NEW tags,
         Found(icon, sigs) = Doc(Rest(icon), Answer.kind, product, confidence, tags, HttpTags)
  PROVE  Kept(sigs, icon, now).product
           = IF product = <<>> THEN <<>> ELSE CanonicalProduct(product)
<1> DEFINE slug == IF product = <<>> THEN <<>> ELSE CanonicalProduct(product)
           stags == NormalizeTags(CanonicalKind(Answer.kind), tags)
<1>1. Kept(sigs, icon, now)
        = Doc(Rest(now), CanonicalKind(Answer.kind), slug, confidence, stags, HttpTags)
  BY KeptDoc
<1> HIDE DEF slug, stags
<1>2. Kept(sigs, icon, now).product = slug
  BY <1>1 DEF Doc
<1> QED BY <1>2 DEF slug

(* The empty name is its own slug. *)
LEMMA NoProduct == CanonicalProduct(<<>>) = <<>>
<1>1. <<>> \in Slugs
  BY DEF Slugs, Undashed
<1> QED BY <1>1, SlugKept

(* The best signature wins in every document a probe would store. *)
LEMMA BestOfInv == IInv => BestSignatureWins
<1> SUFFICES ASSUME IInv, stored # NotStored
             PROVE  BestSignatureWins
  BY DEF BestSignatureWins
<1> DEFINE sigs == LoadDir(used)
           icon == seen
           now == stored.favicon
           evidence == EvidenceFrom(MergeTech(Showing(seen)))
           Score(i) == Evaluate(sigs[i], evidence).score
           matching == {i \in DOMAIN sigs : Evaluate(sigs[i], evidence).matched}
           best == Resolve(sigs, evidence)
<1>1. stored = Kept(sigs, icon, now) /\ Usable(sigs)
  BY CorporaUsable DEF IInv, MaintenanceForgets, Kept
<1>2. \/ matching = {} /\ best = <<>>
      \/ \E k \in matching :
           /\ best = <<Evaluate(sigs[k], evidence)>>
           /\ FirstNamed(sigs, Evaluate(sigs[k], evidence).id) = sigs[k]
           /\ \A i \in matching : \/ Score(i) < Score(k)
                                  \/ /\ Score(i) = Score(k)
                                     /\ sigs[i].priority <= sigs[k].priority
  <2> HIDE DEF sigs, evidence
  <2> QED BY <1>1, BestFound
<1>3. Found(icon, sigs)
        = IF best = <<>>
          THEN Doc(Rest(icon), Answer.kind, Answer.product, -1, Answer.tags, HttpTags)
          ELSE Doc(Rest(icon), Answer.kind, FirstNamed(sigs, best[1].id).name,
                   best[1].confidence,
                   Merge(Answer.tags, FirstNamed(sigs, best[1].id).tags), HttpTags)
  <2>1. best = Resolve(sigs, EvidenceFrom(Doc(Rest(icon), Answer.kind, Answer.product, -1,
                                              Answer.tags, HttpTags)))
    BY MergedDoc
  <2> HIDE DEF best, sigs
  <2> QED BY <2>1, IdentifyDoc, MergedDoc DEF Found
<1> HIDE DEF best, evidence, sigs, icon, now
<1>4. CASE matching = {} /\ best = <<>>
  <2>1. Kept(sigs, icon, now).product
          = IF Answer.product = <<>> THEN <<>> ELSE CanonicalProduct(Answer.product)
    <3>1. Found(icon, sigs) = Doc(Rest(icon), Answer.kind, Answer.product, -1, Answer.tags, HttpTags)
      BY <1>3, <1>4
    <3> QED BY <3>1, <1>1, StoredProduct
  <2>2. NormalizeService(Answer).product
          = IF Answer.product = <<>> THEN <<>> ELSE CanonicalProduct(Answer.product)
    <3> DEFINE slug == IF Answer.product = <<>> THEN <<>> ELSE CanonicalProduct(Answer.product)
               stags == NormalizeTags(CanonicalKind(Answer.kind), Answer.tags)
               own == Answer.favicon
    <3>0. Answer = Doc(Rest(own), Answer.kind, Answer.product, -1, Answer.tags, {})
      BY AnswerDoc
    <3> HIDE DEF own
    <3>1. NormalizeService(Answer)
            = Doc(Rest(own), CanonicalKind(Answer.kind), slug, -1, stags, {})
      BY <3>0, NormalizeDoc
    <3> HIDE DEF slug, stags
    <3>2. NormalizeService(Answer).product = slug
      BY <3>1 DEF Doc
    <3> QED BY <3>2 DEF slug
  <2> QED BY <1>1, <1>4, <2>1, <2>2 DEF BestSignatureWins, sigs, evidence
<1>5. CASE \E k \in matching :
             /\ best = <<Evaluate(sigs[k], evidence)>>
             /\ FirstNamed(sigs, Evaluate(sigs[k], evidence).id) = sigs[k]
             /\ \A i \in matching : \/ Score(i) < Score(k)
                                    \/ /\ Score(i) = Score(k)
                                       /\ sigs[i].priority <= sigs[k].priority
  <2>1. PICK k \in matching :
             /\ best = <<Evaluate(sigs[k], evidence)>>
             /\ FirstNamed(sigs, Evaluate(sigs[k], evidence).id) = sigs[k]
             /\ \A i \in matching : \/ Score(i) < Score(k)
                                    \/ /\ Score(i) = Score(k)
                                       /\ sigs[i].priority <= sigs[k].priority
    BY <1>5
  <2>2. best # <<>> /\ best[1] = Evaluate(sigs[k], evidence)
    BY <2>1
  <2>3. Found(icon, sigs) = Doc(Rest(icon), Answer.kind, sigs[k].name, best[1].confidence,
                          Merge(Answer.tags, sigs[k].tags), HttpTags)
    BY <1>3, <2>1, <2>2
  <2>4. Kept(sigs, icon, now).product
          = IF sigs[k].name = <<>> THEN <<>> ELSE CanonicalProduct(sigs[k].name)
    BY <1>1, <2>3, StoredProduct
  <2>5. stored.product = CanonicalProduct(sigs[k].name)
    BY <1>1, <2>4, NoProduct
  <2>6. matching # {}
    BY <2>1
  <2> QED BY <2>1, <2>5, <2>6 DEF BestSignatureWins, sigs, evidence
<1> QED BY <1>2, <1>4, <1>5

(* The dispatcher chose the kind that is stored. *)
LEMMA HonestOfInv == IInv => HonestServerIdentified
<1> DEFINE Honest(i) ==
             /\ Probes[i] # "smtp"
             /\ Probes[i] \in endpoint.answers
             /\ endpoint.banner \in Greetings(Probes[i])
             /\ endpoint.reads /\ ~endpoint.secure
             /\ Probes[i] \in RequiresProbeWithoutBanner =>
                  /\ endpoint.schemes = {}
                  /\ \A j \in 1..(i - 1) :
                       Probes[j] \notin RequiresProbeWithoutBanner \cap endpoint.answers
<1> SUFFICES ASSUME IInv, NEW i \in DOMAIN Probes, Honest(i)
             PROVE  IF Unnamed(Probes[i], endpoint.banner)
                    THEN stored # NotStored => stored.kind # Probes[i]
                    ELSE /\ Dispatch(endpoint) = Probes[i]
                         /\ stored # NotStored => stored.kind = Probes[i]
  BY DEF HonestServerIdentified
<1>1. stored # NotStored => stored.kind = CanonicalKind(Dispatch(endpoint))
  <2> SUFFICES ASSUME stored # NotStored
               PROVE  stored.kind = CanonicalKind(Dispatch(endpoint))
    OBVIOUS
  <2>1. /\ stored = Kept(LoadDir(used), seen, stored.favicon)
        /\ Usable(LoadDir(used)) /\ page \in Pages
    BY CorporaUsable DEF IInv, MaintenanceForgets, Kept
  <2> QED BY <2>1, DocumentSettles
<1>2. CASE Unnamed(Probes[i], endpoint.banner)
  <2>1. BestProbe(endpoint.banner) = {} /\ Probes[i] = "mysql"
    BY <1>2, UnnamedUnheard
  <2>2. CanonicalKind(Dispatch(endpoint)) # "mysql"
    BY <2>1, UnheardNoMysql
  <2> QED BY <1>1, <1>2, <2>1, <2>2
<1>3. CASE ~ Unnamed(Probes[i], endpoint.banner)
  <2>1. Dispatch(endpoint) = Probes[i] /\ CanonicalKind(Probes[i]) = Probes[i]
    BY <1>3, HonestDispatch
  <2> QED BY <1>1, <1>3, <2>1
<1> QED BY <1>2, <1>3

(* A stored document is what a fresh probe would store under the corpus and *)
(* with the favicon hash it was last identified with, but for the hash the  *)
(* enricher may have written since, however often maintenance ran.          *)
THEOREM Forgets == Spec => []MaintenanceForgets
<1>1. IInv => MaintenanceForgets
  BY DEF IInv
<1> QED BY <1>1, Invariant, PTL

(* Its product is that of a matching signature none of the others beats.    *)
THEOREM BestWins == Spec => []BestSignatureWins
BY BestOfInv, Invariant, PTL

(* A server that greets as its protocol does and answers its probe is       *)
(* stored as that kind, whatever else it answers; where the probe waits for *)
(* no greeting, it must answer nothing that is tried before.  A MySQL       *)
(* server that does not name itself is never stored as one.                 *)
THEOREM HonestIdentified == Spec => []HonestServerIdentified
BY HonestOfInv, Invariant, PTL

(* The backfill never changes a document: everything stored went through    *)
(* normalize_service, which has nothing left to do ("normalizing clean data *)
(* is a no-op", src/normalize.rs).                                          *)
THEOREM BackfillSettled == Spec => [][Backfill => stored' = stored]_vars
<1>1. IInv => [Backfill => stored' = stored]_vars
  <2> SUFFICES ASSUME IInv, Backfill PROVE stored' = stored
    OBVIOUS
  <2>1. stored # NotStored /\ stored' = NormalizeService(stored)
    BY DEF Backfill
  <2>2. /\ stored = Kept(LoadDir(used), seen, stored.favicon)
        /\ Usable(LoadDir(used)) /\ page \in Pages
    BY <2>1, CorporaUsable DEF IInv, MaintenanceForgets, Kept
  <2> QED BY <2>1, <2>2, DocumentSettles
<1> QED BY <1>1, Invariant, PTL

=============================================================================
