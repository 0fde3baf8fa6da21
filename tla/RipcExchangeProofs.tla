-------------------------- MODULE RipcExchangeProofs --------------------------
(***************************************************************************)
(* Proofs about RipcExchange: its type invariant, that a message that fits *)
(* is what its reader gets, that nothing of an earlier message is read,    *)
(* and that of the callbacks of a server the right one is found.           *)
(*                                                                         *)
(* The parts, in order: the search among patterns; what an operation of a  *)
(* view does, case by case; the types; and then one invariant after the    *)
(* other, with what each needs to be inductive.                            *)
(***************************************************************************)
EXTENDS RipcExchange, TLAPS, FiniteSetTheorems, SequenceTheorems, WellFoundedInduction

-----------------------------------------------------------------------------
(* A set of numbers has a least one.  That < is well-founded is a fact of  *)
(* the library; what is said here of all numbers rests on this lemma, in   *)
(* the place of an induction.                                              *)
LEMMA LessThanWellFounded == IsWellFoundedOn({ss \in Nat \X Nat : ss[1] < ss[2]}, Nat)
BY NatLessThanWellFounded DEF OpToRel

(* So every set of numbers that is not empty has a minimal element.        *)
LEMMA MinimalExists ==
    ASSUME NEW R, IsWellFoundedOn(R, Nat), NEW T, T \subseteq Nat, T # {}
    PROVE  \E x \in T : \A y \in T : ~(<<y, x>> \in R)
BY WFMin

(* And that element is its least one.                                      *)
LEMMA LeastExists ==
    ASSUME NEW T, T \subseteq Nat, T # {}
    PROVE  \E x \in T : \A y \in T : x <= y
<1> DEFINE R == {ss \in Nat \X Nat : ss[1] < ss[2]}
<1>1. PICK x \in T : \A y \in T : ~(<<y, x>> \in R)
  BY LessThanWellFounded, MinimalExists
<1>2. \A y \in T : y < x => <<y, x>> \in R
  OBVIOUS
<1>3. \A y \in T : ~(y < x)
  BY <1>1, <1>2
<1> QED BY <1>3

-----------------------------------------------------------------------------
(* Urls and patterns.                                                      *)

(* A url has finitely many parts.                                          *)
LEMMA SubdivideLen ==
    ASSUME NEW url, Len(url) \in Nat
    PROVE  /\ Len(Subdivide(url)) \in Nat
           /\ DOMAIN Subdivide(url) = 1..Len(Subdivide(url))
<1>1. IsFiniteSet(0..Len(url)+1)
  BY FS_Interval
<1>2. PartBars(url) \subseteq 0..Len(url)+1
  BY DEF PartBars, Bars
<1>3. Cardinality(PartBars(url)) \in Nat
  BY <1>1, <1>2, FS_Subset, FS_CardinalityType
<1> QED BY <1>3 DEF Subdivide

(* So have its tokens, and those of a pattern.                             *)
LEMMA TokensLen ==
    ASSUME NEW url, Len(url) \in Nat
    PROVE  /\ Len(Tokens(url)) \in Nat
           /\ Tokens(url) = [k \in 1..Len(Tokens(url)) |-> Tokens(url)[k]]
BY SubdivideLen DEF Tokens

(* The tokens of a pattern are finitely many, and each is that of some     *)
(* part.                                                                   *)
LEMMA PatternTokensLen ==
    ASSUME NEW pattern, Len(pattern) \in Nat
    PROVE  /\ Len(PatternTokens(pattern)) \in Nat
           /\ PatternTokens(pattern)
                = [k \in 1..Len(PatternTokens(pattern)) |-> PatternTokens(pattern)[k]]
           /\ \A k \in 1..Len(PatternTokens(pattern)) :
                \E chars : PatternTokens(pattern)[k] = PatternToken(chars)
<1>1. Len(Subdivide(pattern)) \in Nat
  BY SubdivideLen
<1> QED BY <1>1 DEF PatternTokens

(* A token of a pattern is one of the two marks, or what a url's would be. *)
AnyString == [kind |-> "any string", num |-> 0, text |-> <<>>]
AnyInt    == [kind |-> "any int", num |-> 0, text |-> <<>>]

(* What a token of a pattern can be.                                       *)
LEMMA PatternTokenKinds ==
    ASSUME NEW chars
    PROVE  \/ PatternToken(chars) = AnyString
           \/ PatternToken(chars) = AnyInt
           \/ PatternToken(chars).kind \in {"int", "string"}
<1>1. Token(chars).kind \in {"int", "string"}
  BY DEF Token
<1>2. CASE chars = <<"<string>">>
  BY <1>2 DEF PatternToken, AnyString
<1>3. CASE chars # <<"<string>">> /\ chars = <<"<int>">>
  BY <1>3 DEF PatternToken, AnyInt
<1>4. CASE chars # <<"<string>">> /\ chars # <<"<int>">>
  <2>1. PatternToken(chars) = Token(chars)
    BY <1>4, Zenon DEF PatternToken
  <2> QED BY <1>1, <2>1
<1> QED BY <1>2, <1>3, <1>4

(* The two marks have kinds of their own.                                  *)
LEMMA MarkKinds == AnyString.kind = "any string" /\ AnyInt.kind = "any int"
BY DEF AnyString, AnyInt

(* The order of tokens in the key of m_urls: what is exact comes first,    *)
(* then <string>, then <int>.                                              *)
LEMMA RankValues ==
    ASSUME NEW t
    PROVE  /\ t.kind = "any string" => Rank(t) = 1
           /\ t.kind = "any int" => Rank(t) = 2
           /\ t.kind \in {"int", "string"} => Rank(t) = 0
<1>1. t.kind = "any string" => Rank(t) = 1
  BY DEF Rank
<1>2. t.kind = "any int" => Rank(t) = 2
  BY DEF Rank
<1>3. t.kind \in {"int", "string"} => Rank(t) = 0
  BY DEF Rank
<1> QED BY <1>1, <1>2, <1>3

(* A rank is a small number.                                               *)
LEMMA RankType == \A t : Rank(t) \in 0..2
BY DEF Rank

(* Where two patterns that match a url differ, and the second does not     *)
(* come before the first, the first has the url's token and the second a   *)
(* mark.                                                                   *)
LEMMA SpecialToken ==
    ASSUME NEW c, NEW d, NEW u,
           TokenMatches(PatternToken(c), u), TokenMatches(PatternToken(d), u),
           PatternToken(c) # PatternToken(d),
           ~(Rank(PatternToken(d)) < Rank(PatternToken(c)))
    PROVE  PatternToken(c) = u /\ PatternToken(d).kind \in {"any int", "any string"}
<1> DEFINE a == PatternToken(c)
           b == PatternToken(d)
<1>1. a \in {AnyString, AnyInt} \/ a.kind \in {"int", "string"}
  BY PatternTokenKinds
<1>2. b \in {AnyString, AnyInt} \/ b.kind \in {"int", "string"}
  BY PatternTokenKinds
<1>3. TokenMatches(a, u) /\ TokenMatches(b, u) /\ a # b /\ ~(Rank(b) < Rank(a))
  OBVIOUS
<1> HIDE DEF a, b
<1> SUFFICES a = u /\ b.kind \in {"any int", "any string"}
  BY DEF a, b
<1>4. CASE a.kind \in {"int", "string"}
  <2>1. a = u
    BY <1>3, <1>4 DEF TokenMatches
  <2>2. b.kind \in {"int", "string"} => b = u
    BY <1>3 DEF TokenMatches
  <2> QED BY <1>2, <1>3, <2>1, <2>2, MarkKinds
<1>5. CASE a = AnyInt
  <2>1. u.kind = "int" /\ Rank(a) = 2
    BY <1>3, <1>5, RankValues, MarkKinds DEF TokenMatches
  <2>2. b = AnyString => u.kind = "string"
    BY <1>3, MarkKinds DEF TokenMatches
  <2>3. ~(b.kind \in {"int", "string"})
    <3>1. ~(Rank(b) < Rank(a))
      BY <1>3
    <3>2. Rank(b) # 0
      BY <2>1, <3>1
    <3> QED BY <3>2, RankValues
  <2>4. b = AnyString
    BY <1>2, <1>3, <1>5, <2>3
  <2> QED BY <2>1, <2>2, <2>4, MarkKinds
<1>6. CASE a = AnyString
  <2>1. u.kind = "string" /\ Rank(a) = 1
    BY <1>3, <1>6, RankValues, MarkKinds DEF TokenMatches
  <2>2. b = AnyInt => u.kind = "int"
    BY <1>3, MarkKinds DEF TokenMatches
  <2>3. ~(b.kind \in {"int", "string"})
    <3>1. ~(Rank(b) < Rank(a))
      BY <1>3
    <3>2. Rank(b) # 0
      BY <2>1, <3>1
    <3> QED BY <3>2, RankValues
  <2>4. b = AnyInt
    BY <1>2, <1>3, <1>6, <2>3
  <2> QED BY <2>1, <2>2, <2>4, MarkKinds
<1> QED BY <1>1, <1>4, <1>5, <1>6

(* Before is irreflexive and transitive, so among finitely many patterns   *)
(* one has no other before it.                                             *)
LEMMA BeforeIrreflexive == ASSUME NEW p PROVE ~Before(p, p)
BY RankType DEF Before

(* The order of m_urls' keys is transitive.                                *)
LEMMA BeforeTransitive ==
    ASSUME NEW p, NEW q, NEW s, Before(p, q), Before(q, s),
           Len(PatternTokens(p)) \in Nat, Len(PatternTokens(q)) \in Nat,
           Len(PatternTokens(s)) \in Nat
    PROVE  Before(p, s)
<1> DEFINE a == PatternTokens(p)
           b == PatternTokens(q)
           c == PatternTokens(s)
<1>1. PICK i \in 1..Len(a) : /\ i <= Len(b) /\ Rank(a[i]) < Rank(b[i])
                             /\ \A j \in 1..i-1 : a[j] = b[j]
  BY DEF Before
<1>2. PICK k \in 1..Len(b) : /\ k <= Len(c) /\ Rank(b[k]) < Rank(c[k])
                             /\ \A j \in 1..k-1 : b[j] = c[j]
  BY DEF Before
<1>3. \A t : Rank(t) \in 0..2
  BY RankType
<1> SUFFICES \E m \in 1..Len(a) : /\ m <= Len(c) /\ Rank(a[m]) < Rank(c[m])
                                   /\ \A j \in 1..m-1 : a[j] = c[j]
  BY DEF Before
<1> HIDE DEF a, b, c
<1>4. CASE i < k
  <2>1. a[i] = a[i] /\ b[i] = c[i] /\ \A j \in 1..i-1 : a[j] = c[j]
    BY <1>1, <1>2, <1>4
  <2> QED BY <1>1, <1>2, <1>4, <2>1
<1>5. CASE k < i
  <2>1. a[k] = b[k] /\ \A j \in 1..k-1 : a[j] = c[j]
    BY <1>1, <1>2, <1>5
  <2> QED BY <1>1, <1>2, <1>5, <2>1
<1>6. CASE i = k
  <2>1. Rank(a[i]) < Rank(c[i])
    BY <1>1, <1>2, <1>3, <1>6
  <2> QED BY <1>1, <1>2, <1>6, <2>1
<1> QED BY <1>4, <1>5, <1>6

(* If some pattern matches, a first one does: m_urls has an entry to stop  *)
(* at.  The one with the fewest others before it is first.                 *)
LEMMA FirstMatchExists ==
    ASSUME NEW pats, IsFiniteSet(pats), NEW url,
           \A p \in pats : Len(p) \in Nat,
           \E p \in pats : Matches(p, url)
    PROVE  FirstMatches(pats, url) # {}
<1> DEFINE M == {p \in pats : Matches(p, url)}
           Ahead(p) == {q \in M : Before(q, p)}
           T == {Cardinality(Ahead(p)) : p \in M}
<1>1. IsFiniteSet(M)
  BY FS_Subset
<1>2. \A p \in M : IsFiniteSet(Ahead(p)) /\ Cardinality(Ahead(p)) \in Nat
  <2> HIDE DEF M
  <2> QED BY <1>1, FS_Subset, FS_CardinalityType
<1>3. T \subseteq Nat /\ T # {}
  BY <1>2
<1>4. PICK n \in T : \A k \in T : n <= k
  <2> HIDE DEF T
  <2> QED BY <1>3, LeastExists
<1>5. PICK p \in M : n = Cardinality(Ahead(p))
  BY <1>4
<1>6. ASSUME NEW q \in M, Before(q, p)
      PROVE  FALSE
  <2>1. \A x \in M : Len(PatternTokens(x)) \in Nat
    BY PatternTokensLen
  <2>2. Ahead(q) \subseteq Ahead(p)
    BY <1>6, <2>1, BeforeTransitive
  <2>3. q \in Ahead(p) /\ q \notin Ahead(q)
    BY <1>6, BeforeIrreflexive
  <2> HIDE DEF M, Ahead
  <2>4. Cardinality(Ahead(q)) <= Cardinality(Ahead(p))
    BY <1>2, <2>2, FS_Subset
  <2>5. Cardinality(Ahead(q)) # Cardinality(Ahead(p))
    BY <1>2, <2>2, <2>3, FS_Subset
  <2>6. Cardinality(Ahead(q)) \in T
    OBVIOUS
  <2>7. n <= Cardinality(Ahead(q))
    BY <1>4, <2>6
  <2>8. Cardinality(Ahead(q)) \in Nat /\ Cardinality(Ahead(p)) \in Nat
    BY <1>2
  <2> HIDE DEF T
  <2> QED BY <1>5, <2>4, <2>5, <2>7, <2>8
<1>7. p \in FirstMatches(pats, url)
  BY <1>5, <1>6 DEF FirstMatches
<1> QED BY <1>7

(* Where two patterns first differ, the first has the token of the url     *)
(* itself.                                                                 *)
MoreSpecial(c, p, url) ==
    LET a == PatternTokens(c)
        b == PatternTokens(p)
    IN  /\ \E k \in 1..Len(a) : a[k] # b[k] /\ \A j \in 1..k-1 : a[j] = b[j]
        /\ \A k \in 1..Len(a) :
             a[k] # b[k] /\ (\A j \in 1..k-1 : a[j] = b[j]) =>
               a[k] = Tokens(url)[k] /\ b[k].kind \in {"any int", "any string"}

(* The pattern that the search stops at is the more special one wherever   *)
(* it differs from another that matches.                                   *)
LEMMA FirstMatchSpecial ==
    ASSUME NEW pats, NEW url, NEW c \in FirstMatches(pats, url), NEW p \in pats,
           Len(url) \in Nat, \A q \in pats : Len(q) \in Nat,
           Matches(p, url), PatternTokens(p) # PatternTokens(c)
    PROVE  MoreSpecial(c, p, url)
<1> DEFINE a == PatternTokens(c)
           b == PatternTokens(p)
           u == Tokens(url)
<1>1. c \in pats /\ Matches(c, url) /\ ~Before(p, c)
  BY DEF FirstMatches
<1>2. /\ Len(a) = Len(u) /\ \A k \in 1..Len(u) : TokenMatches(a[k], u[k])
      /\ Len(b) = Len(u) /\ \A k \in 1..Len(u) : TokenMatches(b[k], u[k])
  BY <1>1 DEF Matches
<1>3. Len(u) \in Nat
  BY TokensLen
<1>4. /\ a = [k \in 1..Len(u) |-> a[k]] /\ \A k \in 1..Len(u) : \E x : a[k] = PatternToken(x)
      /\ b = [k \in 1..Len(u) |-> b[k]] /\ \A k \in 1..Len(u) : \E x : b[k] = PatternToken(x)
  BY <1>1, <1>2, PatternTokensLen
<1>5. a # b
  OBVIOUS
<1>6. ~\E k \in 1..Len(b) : /\ k <= Len(a) /\ Rank(b[k]) < Rank(a[k])
                            /\ \A j \in 1..k-1 : b[j] = a[j]
  BY <1>1 DEF Before
<1> HIDE DEF a, b, u
<1>7. \E k \in 1..Len(a) : a[k] # b[k] /\ \A j \in 1..k-1 : a[j] = b[j]
  <2> DEFINE T == {k \in 1..Len(a) : a[k] # b[k]}
  <2>1. T # {} /\ T \subseteq Nat
    BY <1>2, <1>3, <1>4, <1>5
  <2>2. PICK k \in T : \A y \in T : k <= y
    <3> HIDE DEF T
    <3> QED BY <2>1, LeastExists
  <2>3. \A j \in 1..k-1 : a[j] = b[j]
    BY <1>2, <1>3, <2>2
  <2> QED BY <2>2, <2>3
<1>8. ASSUME NEW i \in 1..Len(a), a[i] # b[i], \A j \in 1..i-1 : a[j] = b[j]
      PROVE  a[i] = u[i] /\ b[i].kind \in {"any int", "any string"}
  <2>1. ~(Rank(b[i]) < Rank(a[i]))
    BY <1>2, <1>3, <1>6, <1>8
  <2>2. PICK x, y : a[i] = PatternToken(x) /\ b[i] = PatternToken(y)
    BY <1>2, <1>4, <1>8
  <2>3. TokenMatches(a[i], u[i]) /\ TokenMatches(b[i], u[i])
    BY <1>2, <1>8
  <2> QED BY <1>8, <2>1, <2>2, <2>3, SpecialToken
<1> QED BY <1>7, <1>8 DEF a, b, u, MoreSpecial

-----------------------------------------------------------------------------
(* The page.                                                               *)

(* What a cell of the page, the page, and the two kinds of view can be.    *)
Glyph == Char \cup Marks
Pages == [Cells -> Glyph]
Writers == [cur : 0..PageSize, started : BOOLEAN, headed : BOOLEAN, ended : BOOLEAN]
Readers == [cur : 0..PageSize, headed : BOOLEAN, ended : BOOLEAN]

(* The marks are three, and none of them is a character.                   *)
LEMMA MarksDiffer ==
    /\ TAB # NL /\ TAB # NUL /\ NL # NUL
    /\ TAB \notin Char /\ NL \notin Char /\ NUL \notin Char
    /\ PageSize \in Nat \ {0}
BY ExchangeAssumption, PageSizeAssumption DEF Marks, TAB, NL, NUL

(* What a search finds is the first of the characters, or the end.         *)
LEMMA FoundFirst ==
    ASSUME NEW pg, NEW at \in Nat, NEW chars
    PROVE  LET e == Found(pg, at, chars) IN
           \/ e = PageSize /\ \A i \in Cells : i >= at => pg[i] \notin chars
           \/ /\ e \in Cells /\ e >= at /\ pg[e] \in chars
              /\ \A j \in at..e-1 : pg[j] \notin chars
<1> DEFINE T == {i \in Cells : i >= at /\ pg[i] \in chars}
<1>1. CASE \E i \in Cells : i >= at /\ pg[i] \in chars
  <2>1. T \subseteq Nat /\ T # {}
    BY <1>1, PageSizeAssumption DEF Cells
  <2>2. PICK e \in T : \A y \in T : e <= y
    <3> HIDE DEF T
    <3> QED BY <2>1, LeastExists
  <2>3. \A j \in at..e-1 : pg[j] \notin chars
    BY <2>2, PageSizeAssumption DEF Cells
  <2>4. /\ e \in Cells /\ e >= at /\ pg[e] \in chars
        /\ \A j \in at..e-1 : pg[j] \notin chars
    BY <2>2, <2>3
  <2> QED BY <1>1, <2>4 DEF Found
<1>2. CASE ~\E i \in Cells : i >= at /\ pg[i] \in chars
  BY <1>2 DEF Found
<1> QED BY <1>1, <1>2

(* The first of them is what is found.                                     *)
LEMMA FoundIs ==
    ASSUME NEW pg, NEW at \in Nat, NEW chars, NEW e \in Cells, e >= at,
           pg[e] \in chars, \A j \in at..e-1 : pg[j] \notin chars
    PROVE  Found(pg, at, chars) = e
<1> DEFINE f == Found(pg, at, chars)
<1>1. \/ f = PageSize /\ \A i \in Cells : i >= at => pg[i] \notin chars
      \/ /\ f \in Cells /\ f >= at /\ pg[f] \in chars
         /\ \A j \in at..f-1 : pg[j] \notin chars
  BY FoundFirst
<1> HIDE DEF f
<1>2. f = e
  BY <1>1, PageSizeAssumption DEF Cells
<1> QED BY <1>2 DEF f

(* A search stays in the page or gives its end.                            *)
LEMMA FoundType ==
    ASSUME NEW pg, NEW at \in Nat, NEW chars
    PROVE  Found(pg, at, chars) \in 0..PageSize
BY FoundFirst, PageSizeAssumption DEF Cells

(* What is written lies where it was written, and nowhere else.            *)
LEMMA FilledIs ==
    ASSUME NEW pg \in Pages, NEW at \in Nat, NEW data \in Seq(Glyph)
    PROVE  /\ Filled(pg, at, data) \in Pages
           /\ \A i \in Cells : i < at \/ i >= at + Len(data) => Filled(pg, at, data)[i] = pg[i]
           /\ \A i \in Cells : i >= at /\ i < at + Len(data) =>
                Filled(pg, at, data)[i] = data[i - at + 1]
<1>1. \A i \in Cells : i >= at /\ i < at + Len(data) => data[i - at + 1] \in Glyph
  BY PageSizeAssumption DEF Cells
<1>2. Filled(pg, at, data) \in Pages
  BY <1>1, SMT DEF Filled, Pages
<1>3. \A i \in Cells : Filled(pg, at, data)[i]
                       = IF i >= at /\ i < at + Len(data) THEN data[i - at + 1] ELSE pg[i]
  BY DEF Filled
<1> QED BY <1>2, <1>3, PageSizeAssumption DEF Cells

(* How much of what is given Memory::write takes, by where it begins.      *)
LEMMA WriteSizeIs ==
    ASSUME NEW at \in Nat, NEW data, Len(data) \in Nat
    PROVE  /\ at >= PageSize => WriteSize(at, data) = -1
           /\ at + Len(data) <= PageSize /\ at < PageSize => WriteSize(at, data) = Len(data)
           /\ at + Len(data) > PageSize /\ at < PageSize => WriteSize(at, data) = PageSize - at
BY PageSizeAssumption DEF WriteSize

(* A string_view gives the characters that lie there.                      *)
LEMMA TextIs ==
    ASSUME page \in Pages, NEW from \in Nat, NEW G, NEW data \in Seq(G),
           from + Len(data) <= PageSize,
           \A i \in 1..Len(data) : page[from + i - 1] = data[i]
    PROVE  Text(View(from, from + Len(data))) = data
<1> DEFINE whole == [n \in 1..PageSize |-> page[n - 1]]
           text == SubSeq(whole, from + 1, from + Len(data))
<1>1. whole \in Seq(Glyph) /\ Len(whole) = PageSize
  BY PageSizeAssumption DEF Pages, Cells
<1>2. \A i \in 1..Len(data) : whole[from + 1 + i - 1] = data[i]
  BY PageSizeAssumption
<1>3. Text(View(from, from + Len(data))) = text
  BY DEF Text, View
<1> HIDE DEF whole
<1>4. from + 1 \in 1..Len(whole)+1 /\ from + Len(data) \in (from + 1) - 1..Len(whole)
  BY <1>1, PageSizeAssumption
<1>5. /\ text \in Seq(Glyph) /\ Len(text) = (from + Len(data)) - (from + 1) + 1
      /\ \A i \in 1..(from + Len(data)) - (from + 1) + 1 : text[i] = whole[from + 1 + i - 1]
  BY <1>1, <1>4, SubSeqProperties
<1> HIDE DEF text
<1>6. Len(text) = Len(data) /\ \A i \in 1..Len(data) : text[i] = data[i]
  BY <1>2, <1>5
<1>7. text = data
  BY <1>5, <1>6, SeqEqual
<1> QED BY <1>3, <1>7

-----------------------------------------------------------------------------
(* What the operations of the views do, case by case.                      *)

(* What getHeader does, by where the reader stands and what it finds.      *)
LEMMA GetHeaderCases ==
    ASSUME NEW pg \in Pages, NEW v \in Readers
    PROVE  LET h == getHeader(pg, v)
               e == Found(pg, v.cur, Marks)
           IN  \/ /\ v.ended \/ v.headed
                  /\ h = Got(None, v, "page")
               \/ /\ ~v.ended /\ ~v.headed /\ v.cur = PageSize
                  /\ h = Got(None, v, "null")
               \/ /\ ~v.ended /\ ~v.headed /\ v.cur < PageSize /\ e = PageSize
                  /\ h = Got(None, v, "past")
               \/ /\ ~v.ended /\ ~v.headed /\ v.cur < PageSize /\ e # PageSize /\ pg[e] = NUL
                  /\ h = Got(None, [cur |-> e + 1, headed |-> TRUE, ended |-> TRUE], "page")
               \/ /\ ~v.ended /\ ~v.headed /\ v.cur < PageSize /\ e # PageSize /\ pg[e] # NUL
                  /\ h = Got(View(v.cur, e),
                             [cur |-> e + 1, headed |-> pg[e] = NL, ended |-> FALSE], "page")
<1>1. v.cur \in 0..PageSize
  BY DEF Readers
<1> DEFINE e == Found(pg, v.cur, Marks)
<1> HIDE DEF e
<1>2. e = Found(pg, v.cur, Marks)
  BY DEF e
<1> QED BY <1>1, <1>2, PageSizeAssumption DEF getHeader

(* What ReadBufferView::finalizeHeader does.                               *)
LEMMA SkipHeadersCases ==
    ASSUME NEW pg \in Pages, NEW v \in Readers
    PROVE  LET h == SkipHeaders(pg, v)
               e == Found(pg, v.cur, {NL})
           IN  \/ /\ v.ended \/ v.headed \/ v.cur = PageSize
                  /\ h = Got(None, v, "page")
               \/ /\ ~v.ended /\ ~v.headed /\ v.cur < PageSize /\ e = PageSize
                  /\ h = Got(None, v, "past")
               \/ /\ ~v.ended /\ ~v.headed /\ v.cur < PageSize /\ e # PageSize
                  /\ h = Got(None, [cur |-> e + 1, headed |-> TRUE, ended |-> FALSE], "page")
<1>1. v.cur \in 0..PageSize
  BY DEF Readers
<1> QED BY <1>1, PageSizeAssumption DEF SkipHeaders

(* The parts of a reader's result.                                         *)
LEMMA GotIs ==
    ASSUME NEW v, NEW rd, NEW touched
    PROVE  /\ Got(v, rd, touched).got = v
           /\ Got(v, rd, touched).r = rd
           /\ Got(v, rd, touched).touched = touched
BY DEF Got

(* Skipping the headers leaves a view, gives nothing and never uses        *)
(* address 0.                                                              *)
LEMMA SkipHeadersType ==
    ASSUME NEW pg \in Pages, NEW v \in Readers
    PROVE  LET h == SkipHeaders(pg, v) IN
           /\ h.r \in Readers /\ h.got = None
           /\ h.touched \in {"page", "past"}
<1> DEFINE h == SkipHeaders(pg, v)
           e == Found(pg, v.cur, {NL})
<1>1. v.cur \in 0..PageSize /\ v.cur \in Nat
  BY PageSizeAssumption DEF Readers
<1>2. e \in 0..PageSize
  BY <1>1, FoundType
<1>3. \/ h = Got(None, v, "page")
      \/ h = Got(None, v, "past")
      \/ e # PageSize /\ h = Got(None, [cur |-> e + 1, headed |-> TRUE, ended |-> FALSE], "page")
  BY SkipHeadersCases
<1> HIDE DEF h, e
<1> DEFINE u == [cur |-> e + 1, headed |-> TRUE, ended |-> FALSE]
<1>4. e # PageSize => u \in Readers
  BY <1>2, PageSizeAssumption DEF Readers
<1>5. \/ h = Got(None, v, "page")
      \/ h = Got(None, v, "past")
      \/ e # PageSize /\ h = Got(None, u, "page")
  BY <1>3
<1> HIDE DEF u
<1>6. /\ h.got = None /\ h.touched \in {"page", "past"}
      /\ h.r = v \/ (e # PageSize /\ h.r = u)
  BY <1>5, GotIs
<1> QED BY <1>4, <1>6 DEF h

(* What getPayload does: it may refuse, or give what lies before the first *)
(* NUL.                                                                    *)
LEMMA GetPayloadCases ==
    ASSUME NEW pg \in Pages, NEW v \in Readers, NEW p \in getPayload(pg, v)
    PROVE  LET h == SkipHeaders(pg, v)
               e == Found(pg, h.r.cur, {NUL})
           IN  \/ (v.ended \/ ~h.r.headed) /\ p = Got(None, h.r, h.touched)
               \/ ~v.ended /\ h.r.headed /\ h.r.cur >= PageSize
                  /\ p = Got(None, h.r, "null")
               \/ ~v.ended /\ h.r.headed /\ h.r.cur < PageSize /\ e = PageSize
                  /\ p = Got(None, h.r, "past")
               \/ ~v.ended /\ h.r.headed /\ h.r.cur < PageSize
                  /\ p = Got(View(h.r.cur, e), [cur |-> e, headed |-> TRUE, ended |-> TRUE],
                             IF e = PageSize THEN "past" ELSE h.touched)
<1> DEFINE h == SkipHeaders(pg, v)
           e == Found(pg, h.r.cur, {NUL})
           q == Got(View(h.r.cur, e), [cur |-> e, headed |-> TRUE, ended |-> TRUE],
                    IF e = PageSize THEN "past" ELSE h.touched)
<1>1. h.r.cur \in 0..PageSize
  BY SkipHeadersType DEF Readers
<1>2. p \in IF v.ended \/ ~h.r.headed THEN {Got(None, h.r, h.touched)}
           ELSE IF h.r.cur >= PageSize THEN {Got(None, h.r, "null")}
           ELSE IF e = PageSize THEN {Got(None, h.r, "past"), q}
           ELSE {q}
  BY DEF getPayload
<1> HIDE DEF h, e, q
<1>3. \/ (v.ended \/ ~h.r.headed) /\ p = Got(None, h.r, h.touched)
      \/ ~v.ended /\ h.r.headed /\ h.r.cur >= PageSize /\ p = Got(None, h.r, "null")
      \/ ~v.ended /\ h.r.headed /\ h.r.cur < PageSize /\ e = PageSize
         /\ p = Got(None, h.r, "past")
      \/ ~v.ended /\ h.r.headed /\ h.r.cur < PageSize /\ p = q
  BY <1>1, <1>2, PageSizeAssumption
<1> QED BY <1>3 DEF h, e, q

(* What ReadBufferView::finalizePayload does.                              *)
LEMMA SkipPayloadCases ==
    ASSUME NEW pg \in Pages, NEW v \in Readers
    PROVE  LET h == SkipPayload(pg, v)
               past == IF v.cur < PageSize /\ Found(pg, v.cur, {NUL}) = PageSize
                       THEN "past" ELSE "page"
           IN  \/ v.ended /\ h = Got(None, v, "page")
               \/ /\ ~v.ended /\ v.cur = PageSize
                  /\ h = Got(None, [v EXCEPT !.headed = TRUE], "page")
               \/ /\ ~v.ended /\ v.cur < PageSize
                  /\ h = Got(None, [cur |-> PageSize, headed |-> TRUE, ended |-> TRUE], past)
<1>1. v.cur \in 0..PageSize
  BY DEF Readers
<1> QED BY <1>1, PageSizeAssumption DEF SkipPayload

-----------------------------------------------------------------------------

(* A writer that moves within the page is a writer.                        *)
LEMMA WriterMoved ==
    ASSUME NEW v \in Writers, NEW c \in 0..PageSize
    PROVE  /\ [v EXCEPT !.cur = c] \in Writers
           /\ [v EXCEPT !.cur = c, !.started = TRUE] \in Writers
           /\ [v EXCEPT !.cur = c, !.headed = TRUE] \in Writers
           /\ [v EXCEPT !.cur = c, !.ended = TRUE] \in Writers
<1> DEFINE m == [v EXCEPT !.cur = c]
<1>1. m \in Writers
  BY DEF Writers
<1>2. /\ [v EXCEPT !.cur = c, !.started = TRUE] = [m EXCEPT !.started = TRUE]
      /\ [v EXCEPT !.cur = c, !.headed = TRUE] = [m EXCEPT !.headed = TRUE]
      /\ [v EXCEPT !.cur = c, !.ended = TRUE] = [m EXCEPT !.ended = TRUE]
  OBVIOUS
<1> HIDE DEF m
<1>3. /\ [m EXCEPT !.started = TRUE] \in Writers
      /\ [m EXCEPT !.headed = TRUE] \in Writers
      /\ [m EXCEPT !.ended = TRUE] \in Writers
  BY <1>1 DEF Writers
<1> QED BY <1>1, <1>2, <1>3 DEF m

(* A mark that is written changes its cell and no other.                   *)
LEMMA MarkFilled ==
    ASSUME NEW pg \in Pages, NEW at \in Nat, NEW mark \in Marks
    PROVE  /\ Filled(pg, at, <<mark>>) \in Pages
           /\ at < PageSize => Filled(pg, at, <<mark>>)[at] = mark
           /\ \A i \in Cells : i # at => Filled(pg, at, <<mark>>)[i] = pg[i]
<1>1. <<mark>> \in Seq(Glyph) /\ Len(<<mark>>) = 1 /\ <<mark>>[1] = mark
  BY DEF Glyph
<1> DEFINE d == <<mark>>
<1> HIDE DEF d
<1>2. /\ Filled(pg, at, d) \in Pages
      /\ \A i \in Cells : i < at \/ i >= at + 1 => Filled(pg, at, d)[i] = pg[i]
      /\ \A i \in Cells : i >= at /\ i < at + 1 => Filled(pg, at, d)[i] = d[i - at + 1]
  BY <1>1, FilledIs DEF d
<1>3. at < PageSize => Filled(pg, at, d)[at] = mark
  BY <1>1, <1>2, PageSizeAssumption DEF Cells, d
<1> QED BY <1>2, <1>3, PageSizeAssumption DEF Cells, d

(* What WriteBufferView::finalizeHeader does.                              *)
LEMMA FinalizeHeaderCases ==
    ASSUME NEW pg \in Pages, NEW v \in Writers
    PROVE  LET a == finalizeHeader(pg, v) IN
           /\ a.page \in Pages /\ a.w \in Writers /\ a.ok \in BOOLEAN
           /\ \/ v.headed /\ a.ok /\ a.page = pg /\ a.w = v
              \/ ~v.headed /\ (v.ended \/ v.cur = PageSize) /\ ~a.ok /\ a.page = pg /\ a.w = v
              \/ /\ ~v.headed /\ ~v.ended /\ v.cur < PageSize /\ a.ok
                 /\ a.page[v.cur] = NL
                 /\ \A i \in Cells : i # v.cur => a.page[i] = pg[i]
                 /\ a.w.cur = v.cur + 1 /\ a.w.started = v.started /\ a.w.headed /\ ~a.w.ended
<1> DEFINE a == finalizeHeader(pg, v)
<1>0. v.cur \in 0..PageSize /\ NL \in Marks
  BY DEF Writers, Marks
<1>1. CASE v.headed
  <2>1. a = Done(pg, v)
    BY <1>1 DEF finalizeHeader
  <2> QED BY <1>1, <2>1 DEF Done
<1>2. CASE ~v.headed /\ (v.ended \/ v.cur = PageSize)
  <2>1. a = Refused(pg, v)
    BY <1>0, <1>2, PageSizeAssumption DEF finalizeHeader
  <2> QED BY <1>2, <2>1 DEF Refused
<1>3. CASE ~v.headed /\ ~v.ended /\ v.cur < PageSize
  <2> DEFINE p == Filled(pg, v.cur, <<NL>>)
             u == [v EXCEPT !.cur = v.cur + 1, !.headed = TRUE]
  <2>1. a = Done(p, u)
    BY <1>0, <1>3, PageSizeAssumption DEF finalizeHeader
  <2>2. u \in Writers /\ u.cur = v.cur + 1 /\ u.started = v.started /\ u.headed /\ ~u.ended
    <3>1. v.cur + 1 \in 0..PageSize
      BY <1>0, <1>3, PageSizeAssumption
    <3>2. u \in Writers
      BY <3>1, WriterMoved
    <3> QED BY <1>3, <3>2 DEF Writers
  <2>3. /\ p \in Pages /\ p[v.cur] = NL
        /\ \A i \in Cells : i # v.cur => p[i] = pg[i]
    <3>1. v.cur \in Nat /\ v.cur < PageSize /\ NL \in Marks
      BY <1>0, <1>3, PageSizeAssumption
    <3> HIDE DEF a, u
    <3> QED BY <3>1, MarkFilled
  <2> HIDE DEF p, u
  <2>4. a.ok = TRUE /\ a.page = p /\ a.w = u
    BY <2>1 DEF Done
  <2> HIDE DEF a
  <2>5. /\ a.page \in Pages /\ a.w \in Writers /\ a.ok \in BOOLEAN /\ a.ok
        /\ a.page[v.cur] = NL
        /\ \A i \in Cells : i # v.cur => a.page[i] = pg[i]
        /\ a.w.cur = v.cur + 1 /\ a.w.started = v.started /\ a.w.headed /\ ~a.w.ended
    BY <2>2, <2>3, <2>4
  <2> QED BY <1>3, <2>5 DEF a
<1> QED BY <1>0, <1>1, <1>2, <1>3, PageSizeAssumption

(* What WriteBufferView::finalizePayload does: of the two marks it writes  *)
(* those that have room.                                                   *)
LEMMA FinalizePayloadCases ==
    ASSUME NEW pg \in Pages, NEW v \in Writers
    PROVE  LET a == finalizePayload(pg, v) IN
           /\ a.page \in Pages /\ a.w \in Writers
           /\ \/ (v.ended \/ v.cur = PageSize) /\ a.page = pg /\ a.w = v
              \/ /\ ~v.ended /\ v.headed /\ v.cur < PageSize
                 /\ a.page[v.cur] = NUL
                 /\ \A i \in Cells : i # v.cur => a.page[i] = pg[i]
                 /\ a.w.cur = v.cur + 1 /\ a.w.started = v.started /\ a.w.headed /\ a.w.ended
              \/ /\ ~v.ended /\ ~v.headed /\ v.cur = PageSize - 1
                 /\ a.page[v.cur] = NL
                 /\ \A i \in Cells : i # v.cur => a.page[i] = pg[i]
                 /\ a.w.cur = PageSize /\ a.w.started = v.started /\ a.w.headed /\ ~a.w.ended
              \/ /\ ~v.ended /\ ~v.headed /\ v.cur < PageSize - 1
                 /\ a.page[v.cur] = NL /\ a.page[v.cur + 1] = NUL
                 /\ \A i \in Cells : i # v.cur /\ i # v.cur + 1 => a.page[i] = pg[i]
                 /\ a.w.cur = v.cur + 2 /\ a.w.started = v.started /\ a.w.headed /\ a.w.ended
<1> DEFINE a == finalizePayload(pg, v)
           h == finalizeHeader(pg, v)
           p == Filled(h.page, h.w.cur, <<NUL>>)
           u == [h.w EXCEPT !.cur = h.w.cur + 1, !.ended = TRUE]
<1>0. v.cur \in 0..PageSize
  BY DEF Writers
<1>1. CASE v.ended
  <2>1. a = Done(pg, v)
    BY <1>1 DEF finalizePayload
  <2> QED BY <1>1, <2>1 DEF Done
<1>2. ASSUME ~v.ended PROVE
       /\ h.page \in Pages /\ h.w \in Writers
       /\ \/ v.headed /\ h.ok /\ h.page = pg /\ h.w = v
          \/ ~v.headed /\ v.cur = PageSize /\ ~h.ok /\ h.page = pg /\ h.w = v
          \/ /\ ~v.headed /\ v.cur < PageSize /\ h.ok
             /\ h.page[v.cur] = NL
             /\ \A i \in Cells : i # v.cur => h.page[i] = pg[i]
             /\ h.w.cur = v.cur + 1 /\ h.w.started = v.started /\ h.w.headed /\ ~h.w.ended
  BY <1>2, FinalizeHeaderCases
<1>3. CASE ~v.ended /\ (~h.ok \/ h.w.cur >= PageSize)
  <2>1. a = Refused(h.page, h.w)
    BY <1>3 DEF finalizePayload
  <2> HIDE DEF h
  <2>2. a.page = h.page /\ a.w = h.w
    BY <2>1 DEF Refused
  <2> QED BY <1>0, <1>2, <1>3, <2>2, PageSizeAssumption
<1>4. CASE ~v.ended /\ ~(~h.ok \/ h.w.cur >= PageSize)
  <2>1. a = Done(p, u)
    BY <1>4 DEF finalizePayload
  <2> HIDE DEF h
  <2>2. h.w.cur \in 0..PageSize /\ h.w.cur < PageSize
    BY <1>2, <1>4, PageSizeAssumption DEF Writers
  <2>3. /\ p \in Pages /\ p[h.w.cur] = NUL
        /\ \A i \in Cells : i # h.w.cur => p[i] = h.page[i]
    <3>1. h.page \in Pages /\ h.w.cur \in Nat /\ NUL \in Marks
      BY <1>2, <1>4, <2>2, PageSizeAssumption DEF Marks
    <3> QED BY <2>2, <3>1, MarkFilled
  <2>4. u \in Writers
    <3>1. h.w.cur + 1 \in 0..PageSize
      BY <2>2, PageSizeAssumption
    <3> QED BY <1>2, <1>4, <3>1, WriterMoved
  <2>5. /\ u.cur = h.w.cur + 1 /\ u.started = h.w.started /\ u.headed = h.w.headed
        /\ u.ended
    BY <1>2, <1>4 DEF Writers
  <2> HIDE DEF p, u
  <2>6. a.page = p /\ a.w = u
    BY <2>1 DEF Done
  <2>7. CASE v.headed
    BY <1>0, <1>2, <1>4, <2>2, <2>3, <2>4, <2>5, <2>6, <2>7, PageSizeAssumption
  <2>8. CASE ~v.headed
    <3>1. v.cur + 1 < PageSize /\ v.cur \in Cells /\ v.cur + 1 \in Cells
      BY <1>0, <1>2, <1>4, <2>2, <2>8, PageSizeAssumption DEF Cells
    <3>2. a.page[v.cur] = NL /\ a.page[v.cur + 1] = NUL
      BY <1>0, <1>2, <1>4, <2>2, <2>3, <2>6, <2>8, <3>1, PageSizeAssumption
    <3>3. \A i \in Cells : i # v.cur /\ i # v.cur + 1 => a.page[i] = pg[i]
      BY <1>0, <1>2, <1>4, <2>2, <2>3, <2>6, <2>8, <3>1, PageSizeAssumption
    <3>4. a.w.cur = v.cur + 2 /\ a.w.started = v.started /\ a.w.headed /\ a.w.ended
      BY <1>0, <1>2, <1>4, <2>2, <2>5, <2>6, <2>8, PageSizeAssumption
    <3>5. v.cur < PageSize - 1
      BY <1>0, <3>1, PageSizeAssumption
    <3> QED BY <1>4, <2>3, <2>4, <2>6, <2>8, <3>2, <3>3, <3>4, <3>5
  <2> QED BY <2>7, <2>8
<1> QED BY <1>1, <1>3, <1>4


(* What setPayload does: all of the payload with its NUL, or as much as    *)
(* has room and no NUL.                                                    *)
LEMMA SetPayloadCases ==
    ASSUME NEW pg \in Pages, NEW v \in Writers, NEW data \in Seq(Glyph)
    PROVE  LET a == setPayload(pg, v, data)
               c == IF v.headed THEN v.cur ELSE v.cur + 1
           IN
           /\ a.page \in Pages /\ a.w \in Writers
           /\ \/ (v.ended \/ (~v.headed /\ v.cur = PageSize)) /\ a.page = pg /\ a.w = v
              \/ /\ ~v.ended /\ c = PageSize
                 /\ a.page[PageSize - 1] = NUL
                 /\ \A i \in Cells : i # PageSize - 1 => a.page[i] = pg[i]
                 /\ a.w.cur = PageSize /\ a.w.started = v.started /\ a.w.headed /\ a.w.ended
              \/ /\ ~v.ended /\ c < PageSize
                 /\ \A i \in Cells : i < v.cur => a.page[i] = pg[i]
                 /\ ~v.headed => a.page[v.cur] = NL
                 /\ a.w.started = v.started /\ a.w.headed
                 /\ \/ data = <<>> /\ a.w.cur = c /\ ~a.w.ended
                    \/ c + Len(data) >= PageSize /\ a.w.cur = PageSize /\ ~a.w.ended
                    \/ /\ data # <<>> /\ c + Len(data) < PageSize
                       /\ a.w.cur = c + Len(data) + 1 /\ a.w.ended
                       /\ \A i \in 1..Len(data) : a.page[c + i - 1] = data[i]
                       /\ a.page[c + Len(data)] = NUL
<1> DEFINE a == setPayload(pg, v, data)
           h == finalizeHeader(pg, v)
           c == IF v.headed THEN v.cur ELSE v.cur + 1
           n == WriteSize(h.w.cur, data)
           p == Filled(h.page, h.w.cur, data)
           u == [h.w EXCEPT !.cur = h.w.cur + n]
           z == finalizePayload(p, u)
<1>0. /\ v.cur \in 0..PageSize /\ Len(data) \in Nat
      /\ (Len(data) = 0 <=> data = <<>>)
  BY EmptySeq DEF Writers
<1>1. CASE v.ended
  <2>1. a = Refused(pg, v)
    BY <1>1 DEF setPayload
  <2> QED BY <1>1, <2>1 DEF Refused
<1>2. ASSUME ~v.ended PROVE
       /\ h.page \in Pages /\ h.w \in Writers
       /\ \/ v.headed /\ h.ok /\ h.page = pg /\ h.w = v
          \/ ~v.headed /\ v.cur = PageSize /\ ~h.ok /\ h.page = pg /\ h.w = v
          \/ /\ ~v.headed /\ v.cur < PageSize /\ h.ok
             /\ h.page[v.cur] = NL
             /\ \A i \in Cells : i # v.cur => h.page[i] = pg[i]
             /\ h.w.cur = v.cur + 1 /\ h.w.started = v.started /\ h.w.headed /\ ~h.w.ended
  BY <1>2, FinalizeHeaderCases
<1>3. CASE ~v.ended /\ ~h.ok
  <2>1. a = Refused(h.page, h.w)
    BY <1>3 DEF setPayload
  <2> HIDE DEF h
  <2>2. a.page = h.page /\ a.w = h.w
    BY <2>1 DEF Refused
  <2> QED BY <1>0, <1>2, <1>3, <2>2, PageSizeAssumption
<1>4. ASSUME ~v.ended, h.ok
      PROVE  /\ h.page \in Pages /\ h.w \in Writers
             /\ h.w.cur = c /\ c \in 0..PageSize
             /\ h.w.headed /\ ~h.w.ended /\ h.w.started = v.started
             /\ \A i \in Cells : i < v.cur => h.page[i] = pg[i]
             /\ ~v.headed => h.page[v.cur] = NL /\ v.cur < PageSize
             /\ c = PageSize => \A i \in Cells : i # PageSize - 1 => h.page[i] = pg[i]
  <2> HIDE DEF h
  <2>1. CASE v.headed
    BY <1>0, <1>2, <1>4, <2>1
  <2>2. CASE ~v.headed
    BY <1>0, <1>2, <1>4, <2>2, PageSizeAssumption DEF Cells
  <2> QED BY <2>1, <2>2
<1>5. CASE ~v.ended /\ h.ok /\ n = 0
  <2>1. a = Refused(h.page, h.w)
    BY <1>5 DEF setPayload
  <2> HIDE DEF h
  <2>2. a.page = h.page /\ a.w = h.w
    BY <2>1 DEF Refused
  <2>3. c < PageSize /\ data = <<>>
    <3>1. h.w.cur \in Nat /\ h.w.cur = c /\ c \in 0..PageSize
      BY <1>4, <1>5, PageSizeAssumption
    <3> HIDE DEF c
    <3> QED BY <1>0, <1>5, <3>1, WriteSizeIs, PageSizeAssumption
  <2> QED BY <1>4, <1>5, <2>2, <2>3
<1>6. CASE ~v.ended /\ h.ok /\ n # 0
  <2>1. a = z
    BY <1>6 DEF setPayload
  <2> HIDE DEF h
  <2>2. /\ p \in Pages
        /\ \A i \in Cells : i < c => p[i] = h.page[i]
        /\ \A i \in Cells : i >= c /\ i < c + Len(data) => p[i] = data[i - c + 1]
    <3>1. h.page \in Pages /\ h.w.cur = c /\ c \in Nat
      BY <1>4, <1>6, PageSizeAssumption
    <3> HIDE DEF c
    <3> QED BY <3>1, FilledIs
  <2>3. /\ c = PageSize => n = -1
        /\ c < PageSize /\ c + Len(data) <= PageSize => n = Len(data)
        /\ c < PageSize /\ c + Len(data) > PageSize => n = PageSize - c
        /\ c \in 0..PageSize
    <3>1. h.w.cur \in Nat /\ h.w.cur = c /\ c \in 0..PageSize
      BY <1>4, <1>6, PageSizeAssumption
    <3> HIDE DEF c
    <3> QED BY <1>0, <3>1, WriteSizeIs, PageSizeAssumption
  <2>4. /\ c + n \in 0..PageSize
        /\ c = PageSize => c + n = PageSize - 1
        /\ c < PageSize /\ c + Len(data) <= PageSize => c + n = c + Len(data)
        /\ c < PageSize /\ c + Len(data) > PageSize => c + n = PageSize
    <3> HIDE DEF c, n
    <3> QED BY <1>0, <2>3, PageSizeAssumption
  <2>5. /\ u \in Writers /\ u.cur = c + n
        /\ u.headed /\ ~u.ended /\ u.started = v.started
    <3> HIDE DEF c, n
    <3>1. /\ h.w.cur = c /\ h.w \in Writers /\ h.w.headed /\ ~h.w.ended
          /\ h.w.started = v.started
      BY <1>4, <1>6
    <3>2. u \in Writers
      BY <2>4, <3>1, WriterMoved
    <3>3. u.cur = c + n /\ u.headed = h.w.headed /\ u.ended = h.w.ended
          /\ u.started = h.w.started
      BY <3>1 DEF Writers
    <3> QED BY <3>1, <3>2, <3>3
  <2> HIDE DEF p, u, n
  <2>6. /\ z.page \in Pages /\ z.w \in Writers
        /\ \/ u.cur = PageSize /\ z.page = p /\ z.w = u
           \/ /\ u.cur < PageSize
              /\ z.page[u.cur] = NUL
              /\ \A i \in Cells : i # u.cur => z.page[i] = p[i]
              /\ z.w.cur = u.cur + 1 /\ z.w.started = u.started /\ z.w.headed /\ z.w.ended
    BY <2>2, <2>5, FinalizePayloadCases
  <2> HIDE DEF z, a
  <2>7. CASE c = PageSize
    <3>1. u.cur = PageSize - 1 /\ u.cur < PageSize
      BY <2>4, <2>5, <2>7, PageSizeAssumption
    <3>2. /\ z.page[PageSize - 1] = NUL
          /\ \A i \in Cells : i # PageSize - 1 => z.page[i] = p[i]
          /\ z.w.cur = PageSize /\ z.w.started = u.started /\ z.w.headed /\ z.w.ended
      BY <2>6, <3>1, PageSizeAssumption
    <3>3. \A i \in Cells : i # PageSize - 1 => z.page[i] = pg[i]
      BY <1>4, <1>6, <2>2, <2>7, <3>2, PageSizeAssumption DEF Cells
    <3>4. ~v.ended /\ z.w.started = v.started
      BY <1>6, <2>5, <3>2
    <3> QED BY <2>1, <2>6, <2>7, <3>2, <3>3, <3>4 DEF a
  <2>8. CASE c < PageSize
    <3>1. n # 0 => Len(data) # 0
      BY <1>0, <2>3, <2>8, PageSizeAssumption
    <3>2. data # <<>> /\ Len(data) > 0
      BY <1>0, <1>6, <3>1 DEF n
    <3>3. CASE c + Len(data) >= PageSize
      <4>1. u.cur = PageSize
        BY <1>0, <2>3, <2>4, <2>5, <2>8, <3>3, PageSizeAssumption
      <4>2. z.page = p /\ z.w = u
        BY <2>6, <4>1, PageSizeAssumption
      <4>3. \A i \in Cells : i < v.cur => p[i] = pg[i]
        BY <1>0, <1>4, <1>6, <2>2, PageSizeAssumption DEF Cells
      <4>4. ~v.headed => p[v.cur] = NL
        BY <1>0, <1>4, <1>6, <2>2, PageSizeAssumption DEF Cells
      <4> QED BY <1>6, <2>1, <2>5, <2>6, <2>8, <3>3, <4>1, <4>2, <4>3, <4>4 DEF a
    <3>4. CASE c + Len(data) < PageSize
      <4>1. u.cur = c + Len(data) /\ u.cur < PageSize
        BY <1>0, <2>3, <2>4, <2>5, <2>8, <3>4, PageSizeAssumption
      <4>2. /\ z.page[u.cur] = NUL
            /\ \A i \in Cells : i # u.cur => z.page[i] = p[i]
            /\ z.w.cur = u.cur + 1 /\ z.w.started = u.started /\ z.w.headed /\ z.w.ended
        BY <2>6, <4>1, PageSizeAssumption
      <4>3. \A i \in Cells : i < v.cur => z.page[i] = pg[i]
        <5>1. \A i \in Cells : i < v.cur => p[i] = pg[i]
          BY <1>0, <1>4, <1>6, <2>2, PageSizeAssumption DEF Cells
        <5>2. v.cur <= u.cur
          BY <1>0, <4>1, PageSizeAssumption
        <5> QED BY <1>0, <4>1, <4>2, <5>1, <5>2, PageSizeAssumption DEF Cells
      <4>4. ~v.headed => z.page[v.cur] = NL
        <5>1. ~v.headed => p[v.cur] = NL /\ v.cur \in Cells /\ v.cur # u.cur
          BY <1>0, <1>4, <1>6, <2>2, <4>1, PageSizeAssumption DEF Cells
        <5> QED BY <4>2, <5>1
      <4>5. \A i \in 1..Len(data) : z.page[c + i - 1] = data[i]
        <5> HIDE DEF c
        <5> TAKE i \in 1..Len(data)
        <5>1. c + i - 1 \in Cells /\ c + i - 1 >= c /\ c + i - 1 < c + Len(data)
          BY <1>0, <2>3, <3>4, PageSizeAssumption DEF Cells
        <5>2. (c + i - 1) - c + 1 = i /\ c + i - 1 # u.cur
          BY <1>0, <2>3, <4>1, PageSizeAssumption
        <5>3. p[c + i - 1] = data[i]
          BY <2>2, <5>1, <5>2
        <5> QED BY <4>2, <5>1, <5>2, <5>3
      <4> HIDE DEF c
      <4>6. z.page[c + Len(data)] = NUL /\ z.w.cur = c + Len(data) + 1
        BY <4>1, <4>2
      <4> QED BY <1>6, <2>1, <2>5, <2>6, <2>8, <3>2, <3>4, <4>2, <4>3, <4>4, <4>5, <4>6 DEF a, c
    <3> HIDE DEF c
    <3> QED BY <1>0, <2>3, <3>3, <3>4, PageSizeAssumption
  <2> QED BY <2>3, <2>7, <2>8, PageSizeAssumption
<1> QED BY <1>1, <1>3, <1>5, <1>6

(* What addHeader does: the TAB after an earlier header, and as much of    *)
(* the header as has room.                                                 *)
LEMMA AddHeaderCases ==
    ASSUME NEW pg \in Pages, NEW v \in Writers, NEW data \in Seq(Glyph),
           ~v.headed, ~v.ended
    PROVE  LET a == addHeader(pg, v, data)
               at == IF v.started THEN v.cur + 1 ELSE v.cur
           IN
           /\ a.page \in Pages /\ a.w \in Writers
           /\ \/ v.started /\ v.cur = PageSize
                 /\ a.page = pg /\ a.w = v
              \/ /\ ~(v.started /\ v.cur = PageSize)
                 /\ a.w.started /\ ~a.w.headed /\ ~a.w.ended
                 /\ \A i \in Cells : i < v.cur => a.page[i] = pg[i]
                 /\ v.started => a.page[v.cur] = TAB
                 /\ \A i \in 1..Len(data) :
                      at + i - 1 < PageSize => a.page[at + i - 1] = data[i]
                 /\ \/ at >= PageSize /\ a.w.cur = at - 1
                    \/ at < PageSize /\ at + Len(data) <= PageSize /\ a.w.cur = at + Len(data)
                    \/ at < PageSize /\ at + Len(data) > PageSize /\ a.w.cur = PageSize
<1> DEFINE a == addHeader(pg, v, data)
           at == IF v.started THEN v.cur + 1 ELSE v.cur
           n == WriteSize(at, data)
           tab == IF v.started THEN Filled(pg, v.cur, <<TAB>>) ELSE pg
           p == Filled(tab, at, data)
           u == [v EXCEPT !.cur = at + n, !.started = TRUE]
<1>0. v.cur \in 0..PageSize /\ v.cur \in Nat /\ Len(data) \in Nat /\ v.started \in BOOLEAN
  BY PageSizeAssumption DEF Writers
<1>1. CASE v.started /\ v.cur = PageSize
  <2>1. a = Refused(pg, v)
    BY <1>1, PageSizeAssumption DEF addHeader
  <2> QED BY <1>1, <2>1 DEF Refused
<1>2. CASE ~(v.started /\ v.cur = PageSize)
  <2>1. a = [ok |-> n = Len(data), page |-> p, w |-> u]
    BY <1>0, <1>2, PageSizeAssumption DEF addHeader
  <2>2. at \in Nat /\ at \in 0..PageSize
    BY <1>0, <1>2, PageSizeAssumption
  <2>3. /\ tab \in Pages
        /\ \A i \in Cells : i < v.cur => tab[i] = pg[i]
        /\ v.started => v.cur \in Cells /\ tab[v.cur] = TAB
    <3>1. TAB \in Marks
      BY DEF Marks
    <3>2. CASE v.started
      <4>1. v.cur \in Cells /\ v.cur < PageSize
        BY <1>0, <1>2, <3>2, PageSizeAssumption DEF Cells
      <4>2. /\ Filled(pg, v.cur, <<TAB>>) \in Pages
            /\ Filled(pg, v.cur, <<TAB>>)[v.cur] = TAB
            /\ \A i \in Cells : i # v.cur => Filled(pg, v.cur, <<TAB>>)[i] = pg[i]
        BY <1>0, <3>1, <4>1, MarkFilled
      <4> QED BY <1>0, <3>2, <4>1, <4>2, PageSizeAssumption DEF Cells
    <3>3. CASE ~v.started
      BY <3>3
    <3> QED BY <3>2, <3>3
  <2> HIDE DEF tab
  <2>4. /\ p \in Pages
        /\ \A i \in Cells : i < at => p[i] = tab[i]
        /\ \A i \in Cells : i >= at /\ i < at + Len(data) => p[i] = data[i - at + 1]
    <3> HIDE DEF at
    <3> QED BY <2>2, <2>3, FilledIs
  <2>5. /\ \A i \in Cells : i < v.cur => p[i] = pg[i]
        /\ v.started => p[v.cur] = TAB
    BY <1>0, <2>3, <2>4, PageSizeAssumption DEF Cells
  <2>6. \A i \in 1..Len(data) : at + i - 1 < PageSize => p[at + i - 1] = data[i]
    <3> HIDE DEF at, p
    <3> SUFFICES ASSUME NEW i \in 1..Len(data), at + i - 1 < PageSize
                 PROVE  p[at + i - 1] = data[i]
      OBVIOUS
    <3>1. at + i - 1 \in Cells /\ at + i - 1 >= at /\ at + i - 1 < at + Len(data)
      BY <1>0, <2>2, PageSizeAssumption DEF Cells
    <3>2. (at + i - 1) - at + 1 = i
      BY <1>0, <2>2
    <3> QED BY <2>4, <3>1, <3>2
  <2>7. /\ at >= PageSize => n = -1
        /\ at + Len(data) <= PageSize /\ at < PageSize => n = Len(data)
        /\ at + Len(data) > PageSize /\ at < PageSize => n = PageSize - at
    <3> HIDE DEF at
    <3> QED BY <1>0, <2>2, WriteSizeIs
  <2>8. /\ at + n \in 0..PageSize
        /\ at >= PageSize => at + n = at - 1
        /\ at + Len(data) <= PageSize /\ at < PageSize => at + n = at + Len(data)
        /\ at + Len(data) > PageSize /\ at < PageSize => at + n = PageSize
    <3> HIDE DEF at, n
    <3> QED BY <1>0, <2>2, <2>7, PageSizeAssumption
  <2>9. u \in Writers /\ u.cur = at + n /\ u.started /\ ~u.headed /\ ~u.ended
    <3> HIDE DEF at, n
    <3>1. u \in Writers
      BY <2>8, WriterMoved
    <3> QED BY <3>1 DEF Writers
  <2> HIDE DEF p, u
  <2>10. a.page = p /\ a.w = u
    BY <2>1
  <2>11. \/ at >= PageSize /\ u.cur = at - 1
         \/ at < PageSize /\ at + Len(data) <= PageSize /\ u.cur = at + Len(data)
         \/ at < PageSize /\ at + Len(data) > PageSize /\ u.cur = PageSize
    <3> HIDE DEF at, n
    <3> QED BY <1>0, <2>2, <2>8, <2>9, PageSizeAssumption
  <2> QED BY <1>2, <2>4, <2>5, <2>6, <2>9, <2>10, <2>11
<1> QED BY <1>1, <1>2

-----------------------------------------------------------------------------
(* What each turn leaves for the next, and what kind of thing each         *)
(* variable holds.                                                         *)
Written == stage \in Stages \ {"idle", "request", "answer"}

(* The kinds of the two history variables.                                 *)
Messages == [headers : Seq(Seq(Char)), payload : Seq(Char \cup {TAB, NL}), size : Nat,
             told : BOOLEAN, reset : BOOLEAN]
Gots == [headers : Seq(ViewType), payload : ViewType, skipped : BOOLEAN,
         refused : BOOLEAN, touched : {"page", "past", "null"}]

(* The type invariant the proofs use: TypeOK, with what the histories      *)
(* hold.                                                                   *)
Types ==
    /\ patterns \in Tables
    /\ stage \in Stages
    /\ page \in Pages
    /\ w \in Writers
    /\ r \in Readers
    /\ msg \in Messages
    /\ got \in Gots

(* It says no less than TypeOK.                                            *)
LEMMA TypesOK == Types => TypeOK
<1> SUFFICES ASSUME Types PROVE TypeOK
  OBVIOUS
<1>1. got.payload \in ViewType /\ got.headers \in Seq(ViewType)
  BY DEF Types, Gots
<1>2. \A n \in 1..Len(got.headers) : got.headers[n] \in ViewType
  BY <1>1
<1> QED BY <1>1, <1>2 DEF Types, TypeOK, Writers, Readers

(* What the callbacks write are strings of the page's characters.          *)
LEMMA Plain ==
    /\ \A u \in Urls : u \in Seq(Char) /\ u \in Seq(Glyph)
    /\ \A u \in Headers : u \in Seq(Char) /\ u \in Seq(Glyph)
    /\ \A d \in Payloads : d \in Seq(Char \cup {TAB, NL}) /\ d \in Seq(Glyph)
<1>1. \A u : u \in Seq(Char) => u \in Seq(Glyph)
  BY DEF Glyph
<1>2. \A d : d \in Seq(Char \cup {TAB, NL}) => d \in Seq(Glyph)
  BY DEF Glyph, Marks
<1> QED BY <1>1, <1>2, ExchangeAssumption

(* The values a connection starts with are of their kinds.                 *)
LEMMA Fresh ==
    /\ NewWriter \in Writers /\ NewReader \in Readers
    /\ NoMessage \in Messages /\ [NoMessage EXCEPT !.reset = TRUE] \in Messages
    /\ None \in ViewType /\ Nothing \in Gots
<1>1. NewWriter \in Writers /\ NewReader \in Readers
  BY PageSizeAssumption DEF NewWriter, NewReader, Writers, Readers
<1>2. NoMessage \in Messages
  BY DEF NoMessage, Messages
<1>3. [NoMessage EXCEPT !.reset = TRUE] \in Messages
  BY <1>2 DEF Messages
<1>4. None \in ViewType
  BY PageSizeAssumption DEF None, ViewType
<1>5. Nothing \in Gots
  BY <1>4 DEF Nothing, Gots
<1> QED BY <1>1, <1>2, <1>3, <1>4, <1>5

(* setPayload answers yes or no.                                           *)
LEMMA SetPayloadOk ==
    ASSUME NEW pg, NEW v, NEW data
    PROVE  setPayload(pg, v, data).ok \in BOOLEAN
<1> DEFINE a == setPayload(pg, v, data)
           h == finalizeHeader(pg, v)
<1>1. \A q, u : finalizePayload(q, u).ok \in BOOLEAN
  BY DEF finalizePayload, Done, Refused
<1>2. \/ a = Refused(pg, v)
      \/ a = Refused(h.page, h.w)
      \/ \E q, u : a = finalizePayload(q, u)
  BY DEF setPayload
<1>3. \A q, u : Refused(q, u).ok \in BOOLEAN
  BY DEF Refused
<1> HIDE DEF a
<1> QED BY <1>1, <1>2, <1>3 DEF a

(* What AddHeader makes of the history.                                    *)
LEMMA HeaderAdded ==
    ASSUME NEW m \in Messages, NEW data \in Seq(Char)
    PROVE  LET a == AddHeader(m, data) IN
           /\ a \in Messages
           /\ a.headers = Append(m.headers, data)
           /\ a.size = m.size + Len(data) + (IF m.headers = <<>> THEN 0 ELSE 1)
           /\ a.payload = m.payload /\ a.reset = m.reset
<1> DEFINE s == m.size + Len(data) + (IF m.headers = <<>> THEN 0 ELSE 1)
           hs == Append(m.headers, data)
           b == [m EXCEPT !.headers = hs]
<1>1. s \in Nat /\ hs \in Seq(Seq(Char))
  BY DEF Messages
<1>2. b \in Messages
  BY <1>1 DEF Messages
<1>3. AddHeader(m, data) = [b EXCEPT !.size = s]
  BY DEF AddHeader
<1>4. b.headers = hs /\ b.payload = m.payload /\ b.reset = m.reset
  BY DEF Messages
<1> HIDE DEF b, s, hs
<1>5. [b EXCEPT !.size = s] \in Messages
  BY <1>1, <1>2 DEF Messages
<1>6. LET a == [b EXCEPT !.size = s]
      IN  a.headers = hs /\ a.size = s /\ a.payload = b.payload /\ a.reset = b.reset
  BY <1>2, <1>4 DEF Messages
<1> QED BY <1>3, <1>4, <1>5, <1>6 DEF hs, s

(* What WritePayload makes of the history.                                 *)
LEMMA PayloadAdded ==
    ASSUME NEW m \in Messages, NEW data \in Seq(Char \cup {TAB, NL}), NEW ok \in BOOLEAN
    PROVE  LET a == [m EXCEPT !.payload = data, !.size = m.size + Len(data), !.told = ok] IN
           /\ a \in Messages
           /\ a.headers = m.headers /\ a.payload = data
           /\ a.size = m.size + Len(data) /\ a.reset = m.reset
<1> DEFINE s == m.size + Len(data)
           b == [m EXCEPT !.payload = data]
           d == [b EXCEPT !.size = s]
           a == [d EXCEPT !.told = ok]
<1>1. s \in Nat
  BY DEF Messages
<1>2. b \in Messages /\ b.headers = m.headers /\ b.payload = data /\ b.reset = m.reset
  BY DEF Messages
<1>3. [m EXCEPT !.payload = data, !.size = m.size + Len(data), !.told = ok] = a
  OBVIOUS
<1> HIDE DEF b, s
<1>4. d \in Messages /\ d.headers = b.headers /\ d.payload = b.payload /\ d.reset = b.reset
      /\ d.size = s
  BY <1>1, <1>2 DEF Messages
<1> HIDE DEF d
<1>5. a \in Messages /\ a.headers = d.headers /\ a.payload = d.payload /\ a.reset = d.reset
      /\ a.size = d.size
  BY <1>4 DEF Messages
<1> QED BY <1>2, <1>3, <1>4, <1>5 DEF s

(* What getHeader gives is of its kind.                                    *)
LEMMA GetHeaderType ==
    ASSUME NEW pg \in Pages, NEW v \in Readers
    PROVE  LET h == getHeader(pg, v) IN
           h.r \in Readers /\ h.got \in ViewType /\ h.touched \in {"page", "past", "null"}
<1> DEFINE h == getHeader(pg, v)
           e == Found(pg, v.cur, Marks)
           u == [cur |-> e + 1, headed |-> TRUE, ended |-> TRUE]
           x == [cur |-> e + 1, headed |-> pg[e] = NL, ended |-> FALSE]
<1>1. v.cur \in 0..PageSize /\ v.cur \in Nat
  BY PageSizeAssumption DEF Readers
<1>2. e \in 0..PageSize
  BY <1>1, FoundType
<1>3. \/ \E t \in {"page", "past", "null"} : h = Got(None, v, t)
      \/ e # PageSize /\ h = Got(None, u, "page")
      \/ e # PageSize /\ h = Got(View(v.cur, e), x, "page")
  BY GetHeaderCases
<1> HIDE DEF h, e
<1>4. e # PageSize => u \in Readers
  BY <1>2, PageSizeAssumption DEF Readers
<1>5. e # PageSize => x \in Readers
  BY <1>2, PageSizeAssumption DEF Readers
<1>6. View(v.cur, e) \in ViewType /\ None \in ViewType
  BY <1>1, <1>2, Fresh, PageSizeAssumption DEF View, ViewType
<1> HIDE DEF u, x
<1>7. h.r \in Readers /\ h.got \in ViewType /\ h.touched \in {"page", "past", "null"}
  BY <1>3, <1>4, <1>5, <1>6, GotIs
<1> QED BY <1>7 DEF h

(* What getPayload gives is of its kind.                                   *)
LEMMA GetPayloadType ==
    ASSUME NEW pg \in Pages, NEW v \in Readers, NEW p \in getPayload(pg, v)
    PROVE  p.r \in Readers /\ p.got \in ViewType /\ p.touched \in {"page", "past", "null"}
<1> DEFINE h == SkipHeaders(pg, v)
           e == Found(pg, h.r.cur, {NUL})
           u == [cur |-> e, headed |-> TRUE, ended |-> TRUE]
           t == IF e = PageSize THEN "past" ELSE h.touched
<1>1. h.r \in Readers /\ h.touched \in {"page", "past"}
  BY SkipHeadersType
<1>2. h.r.cur \in 0..PageSize /\ h.r.cur \in Nat
  BY <1>1, PageSizeAssumption DEF Readers
<1>3. e \in 0..PageSize
  BY <1>2, FoundType
<1>4. \/ p = Got(None, h.r, h.touched)
      \/ p = Got(None, h.r, "null")
      \/ p = Got(None, h.r, "past")
      \/ p = Got(View(h.r.cur, e), u, t)
  BY GetPayloadCases
<1> HIDE DEF h, e
<1>5. u \in Readers
  BY <1>3, PageSizeAssumption DEF Readers
<1>6. View(h.r.cur, e) \in ViewType /\ None \in ViewType
  BY <1>2, <1>3, Fresh, PageSizeAssumption DEF View, ViewType
<1>7. t \in {"page", "past"}
  BY <1>1
<1> HIDE DEF u, t
<1> QED BY <1>1, <1>4, <1>5, <1>6, <1>7, GotIs

(* What finalizePayload of a reader gives is of its kind.                  *)
LEMMA SkipPayloadType ==
    ASSUME NEW pg \in Pages, NEW v \in Readers
    PROVE  LET h == SkipPayload(pg, v) IN
           h.r \in Readers /\ h.touched \in {"page", "past"}
<1> DEFINE h == SkipPayload(pg, v)
           u == [v EXCEPT !.headed = TRUE]
           x == [cur |-> PageSize, headed |-> TRUE, ended |-> TRUE]
<1>1. \/ h = Got(None, v, "page")
      \/ h = Got(None, u, "page")
      \/ \E t \in {"page", "past"} : h = Got(None, x, t)
  BY SkipPayloadCases
<1>2. u \in Readers
  BY DEF Readers
<1>3. x \in Readers
  BY PageSizeAssumption DEF Readers
<1> HIDE DEF h, u, x
<1>4. h.r \in Readers /\ h.touched \in {"page", "past"}
  BY <1>1, <1>2, <1>3, GotIs
<1> QED BY <1>4 DEF h

(* What a reader has touched is the page, the byte past it, or address 0.  *)
LEMMA WorseType ==
    ASSUME got \in Gots, NEW t \in {"page", "past", "null"}
    PROVE  Worse(t) \in {"page", "past", "null"}
BY DEF Worse, Gots

(* A reader's step leaves a stage.                                         *)
LEMMA AfterType ==
    ASSUME stage \in Stages, NEW t
    PROVE  After(t) \in Stages
BY DEF After, Stages

(* ReadHeader, variable by variable.                                       *)
LEMMA ReadHeaderIs ==
    ASSUME Types, ReadHeader
    PROVE  LET h == getHeader(page, r) IN
           /\ r' = h.r /\ r' \in Readers /\ got' \in Gots /\ stage' \in Stages
           /\ got'.headers = IF h.got = None THEN got.headers ELSE Append(got.headers, h.got)
           /\ got'.payload = got.payload
           /\ got'.refused <=> got.refused
           /\ got'.skipped <=> got.skipped
           /\ got'.touched = Worse(h.touched)
           /\ stage' = After(h.touched)
<1> USE DEF Types
<1> DEFINE h == getHeader(page, r)
           hs == IF h.got = None THEN got.headers ELSE Append(got.headers, h.got)
           t == Worse(h.touched)
           b == [got EXCEPT !.headers = hs]
           a == [b EXCEPT !.touched = t]
<1>1. r' = h.r /\ got' = a /\ stage' = After(h.touched)
  BY DEF ReadHeader
<1>2. h.r \in Readers /\ h.got \in ViewType /\ h.touched \in {"page", "past", "null"}
  BY GetHeaderType
<1> HIDE DEF h
<1>3. hs \in Seq(ViewType)
  BY <1>2 DEF Gots
<1>4. t \in {"page", "past", "null"} /\ stage' \in Stages
  BY <1>1, <1>2, WorseType, AfterType
<1> HIDE DEF hs, t
<1>5. b \in Gots /\ b.headers = hs /\ b.payload = got.payload
      /\ (b.refused <=> got.refused) /\ (b.skipped <=> got.skipped)
  BY <1>3 DEF Gots
<1> HIDE DEF b
<1>6. a \in Gots /\ a.headers = b.headers /\ a.payload = b.payload
      /\ (a.refused <=> b.refused) /\ (a.skipped <=> b.skipped) /\ a.touched = t
  BY <1>4, <1>5 DEF Gots
<1> HIDE DEF a
<1> QED BY <1>1, <1>2, <1>4, <1>5, <1>6 DEF h, hs, t

(* SkipToPayload, variable by variable.                                    *)
LEMMA SkipToPayloadIs ==
    ASSUME Types, SkipToPayload
    PROVE  LET h == SkipHeaders(page, r) IN
           /\ r' = h.r /\ r' \in Readers /\ got' \in Gots
           /\ got'.headers = got.headers /\ got'.payload = got.payload
           /\ got'.refused <=> got.refused
           /\ got'.skipped <=> got.skipped \/ ~r.headed
           /\ got'.touched = Worse(h.touched)
<1> USE DEF Types
<1> DEFINE h == SkipHeaders(page, r)
           s == got.skipped \/ ~r.headed
           t == Worse(h.touched)
           b == [got EXCEPT !.skipped = s]
           a == [b EXCEPT !.touched = t]
<1>1. r' = h.r /\ got' = a
  BY DEF SkipToPayload
<1>2. h.r \in Readers /\ h.touched \in {"page", "past"}
  BY SkipHeadersType
<1>3. t \in {"page", "past", "null"}
  BY <1>2, WorseType
<1>4. b \in Gots /\ b.headers = got.headers /\ b.payload = got.payload
      /\ (b.refused <=> got.refused) /\ (b.skipped <=> s)
  BY DEF Gots
<1> HIDE DEF t, b
<1>5. a \in Gots /\ a.headers = b.headers /\ a.payload = b.payload
      /\ (a.refused <=> b.refused) /\ (a.skipped <=> b.skipped) /\ a.touched = t
  BY <1>3, <1>4 DEF Gots
<1> HIDE DEF a
<1> QED BY <1>1, <1>2, <1>4, <1>5 DEF t

(* SkipToEnd, variable by variable.                                        *)
LEMMA SkipToEndIs ==
    ASSUME Types, SkipToEnd
    PROVE  LET h == SkipPayload(page, r) IN
           /\ r' = h.r /\ r' \in Readers /\ got' \in Gots
           /\ got'.headers = got.headers /\ got'.payload = got.payload
           /\ got'.refused <=> got.refused
           /\ got'.skipped <=> got.skipped \/ ~r.headed
           /\ got'.touched = Worse(h.touched)
<1> USE DEF Types
<1> DEFINE h == SkipPayload(page, r)
           s == got.skipped \/ ~r.headed
           t == Worse(h.touched)
           b == [got EXCEPT !.skipped = s]
           a == [b EXCEPT !.touched = t]
<1>1. r' = h.r /\ got' = a
  BY DEF SkipToEnd
<1>2. h.r \in Readers /\ h.touched \in {"page", "past"}
  BY SkipPayloadType
<1>3. t \in {"page", "past", "null"}
  BY <1>2, WorseType
<1>4. b \in Gots /\ b.headers = got.headers /\ b.payload = got.payload
      /\ (b.refused <=> got.refused) /\ (b.skipped <=> s)
  BY DEF Gots
<1> HIDE DEF t, b
<1>5. a \in Gots /\ a.headers = b.headers /\ a.payload = b.payload
      /\ (a.refused <=> b.refused) /\ (a.skipped <=> b.skipped) /\ a.touched = t
  BY <1>3, <1>4 DEF Gots
<1> HIDE DEF a
<1> QED BY <1>1, <1>2, <1>4, <1>5 DEF t

(* ReadPayload, variable by variable.                                      *)
LEMMA ReadPayloadIs ==
    ASSUME Types, ReadPayload
    PROVE  /\ r' \in Readers /\ got' \in Gots /\ stage' \in Stages
           /\ \E p \in getPayload(page, r) :
                /\ r' = p.r
                /\ got'.headers = got.headers
                /\ got'.payload = IF p.got = None THEN got.payload ELSE p.got
                /\ got'.refused <=> got.refused \/ (p.got = None /\ ~r.ended)
                /\ got'.skipped <=> got.skipped \/ ~r.headed
                /\ got'.touched = Worse(p.touched)
                /\ stage' = After(p.touched)
<1> USE DEF Types
<1>1. PICK p \in getPayload(page, r) :
        /\ r' = p.r
        /\ got' = [got EXCEPT
                     !.payload = IF p.got = None THEN got.payload ELSE p.got,
                     !.refused = got.refused \/ (p.got = None /\ ~r.ended),
                     !.skipped = got.skipped \/ ~r.headed,
                     !.touched = Worse(p.touched)]
        /\ stage' = After(p.touched)
  BY DEF ReadPayload
<1> DEFINE y == IF p.got = None THEN got.payload ELSE p.got
           f == got.refused \/ (p.got = None /\ ~r.ended)
           s == got.skipped \/ ~r.headed
           t == Worse(p.touched)
           b == [got EXCEPT !.payload = y]
           c == [b EXCEPT !.refused = f]
           d == [c EXCEPT !.skipped = s]
           a == [d EXCEPT !.touched = t]
<1>2. p.r \in Readers /\ p.got \in ViewType /\ p.touched \in {"page", "past", "null"}
  BY GetPayloadType
<1>3. t \in {"page", "past", "null"} /\ stage' \in Stages
  BY <1>1, <1>2, WorseType, AfterType
<1>4. y \in ViewType
  BY <1>2 DEF Gots
<1>5. got' = a
  BY <1>1
<1>6. b \in Gots /\ b.headers = got.headers /\ b.payload = y
      /\ (b.skipped <=> got.skipped)
  BY <1>4 DEF Gots
<1> HIDE DEF y, t, b
<1>7. c \in Gots /\ c.headers = b.headers /\ c.payload = b.payload /\ (c.refused <=> f)
      /\ (c.skipped <=> b.skipped)
  BY <1>6 DEF Gots
<1> HIDE DEF c
<1>8. d \in Gots /\ d.headers = c.headers /\ d.payload = c.payload /\ (d.skipped <=> s)
      /\ (d.refused <=> c.refused)
  BY <1>7 DEF Gots
<1> HIDE DEF d
<1>9. a \in Gots /\ a.headers = d.headers /\ a.payload = d.payload /\ (a.skipped <=> d.skipped)
      /\ (a.refused <=> d.refused) /\ a.touched = t
  BY <1>3, <1>8 DEF Gots
<1> HIDE DEF a
<1>10. r' \in Readers /\ got' \in Gots /\ stage' \in Stages
  BY <1>1, <1>2, <1>3, <1>5, <1>9
<1>11. /\ got'.headers = got.headers /\ got'.payload = y
       /\ got'.refused <=> f
       /\ got'.skipped <=> s
       /\ got'.touched = t
  BY <1>5, <1>6, <1>7, <1>8, <1>9
<1> QED BY <1>1, <1>10, <1>11 DEF y, t

(* The types hold at the start,                                            *)
LEMMA InitTypes == Init => Types
<1> SUFFICES ASSUME Init PROVE Types
  OBVIOUS
<1>1. page \in Pages
  BY DEF Init, Pages, Glyph, Marks
<1>2. stage \in Stages
  BY DEF Init, Stages
<1> QED BY <1>1, <1>2, Fresh DEF Init, Types

(* and every step keeps them.                                              *)
LEMMA TypesStep == Types /\ [Next]_vars => Types'
<1> SUFFICES ASSUME Types, [Next]_vars PROVE Types'
  OBVIOUS
<1> USE DEF Types
<1>1. ASSUME NEW u \in Urls, Call(u) PROVE Types'
  <2> DEFINE a == addHeader(page, NewWriter, u)
  <2>1. NewWriter \in Writers /\ ~NewWriter.headed /\ ~NewWriter.ended
        /\ u \in Seq(Glyph) /\ u \in Seq(Char)
    BY Fresh, Plain DEF NewWriter
  <2>2. a.page \in Pages /\ a.w \in Writers
    BY <2>1, AddHeaderCases
  <2>3. AddHeader(NoMessage, u) \in Messages
    BY <2>1, Fresh, HeaderAdded
  <2>4. "request" \in Stages
    BY DEF Stages
  <2> HIDE DEF a
  <2>5. page' = a.page /\ w' = a.w
    BY <1>1 DEF Call, a
  <2> QED BY <1>1, <2>2, <2>3, <2>4, <2>5 DEF Call
<1>2. ASSUME NEW d \in Headers, WriteHeader(d) PROVE Types'
  <2> DEFINE a == addHeader(page, w, d)
  <2>1. d \in Seq(Glyph) /\ d \in Seq(Char)
    BY Plain
  <2>2. a.page \in Pages /\ a.w \in Writers
    BY <1>2, <2>1, AddHeaderCases DEF WriteHeader
  <2>3. AddHeader(msg, d) \in Messages
    BY <2>1, HeaderAdded
  <2> HIDE DEF a
  <2>4. page' = a.page /\ w' = a.w
    BY <1>2 DEF WriteHeader, a
  <2> QED BY <1>2, <2>2, <2>3, <2>4 DEF WriteHeader
<1>3. ASSUME NEW d \in Payloads, WritePayload(d) PROVE Types'
  <2> DEFINE a == setPayload(page, w, d)
             m == [msg EXCEPT !.payload = d, !.size = msg.size + Len(d), !.told = a.ok]
  <2>1. d \in Seq(Glyph) /\ d \in Seq(Char \cup {TAB, NL})
    BY Plain
  <2>2. a.page \in Pages /\ a.w \in Writers /\ a.ok \in BOOLEAN
    BY <2>1, SetPayloadCases, SetPayloadOk
  <2> HIDE DEF a
  <2>3. m \in Messages
    BY <2>1, <2>2, PayloadAdded
  <2>4. page' = a.page /\ w' = a.w /\ msg' = m
    BY <1>3 DEF WritePayload, a
  <2> HIDE DEF m
  <2> QED BY <1>3, <2>2, <2>3, <2>4 DEF WritePayload
<1>4. ASSUME EndHeaders PROVE Types'
  <2> DEFINE a == finalizeHeader(page, w)
  <2>1. a.page \in Pages /\ a.w \in Writers
    BY FinalizeHeaderCases
  <2> HIDE DEF a
  <2>2. page' = a.page /\ w' = a.w
    BY <1>4 DEF EndHeaders, a
  <2> QED BY <1>4, <2>1, <2>2 DEF EndHeaders
<1>5. ASSUME ResetWriter PROVE Types'
  <2>1. reset(w) \in Writers
    <3> DEFINE a == [w EXCEPT !.cur = 0]
               b == [a EXCEPT !.headed = FALSE]
               c == [b EXCEPT !.ended = FALSE]
    <3>1. a \in Writers
      BY PageSizeAssumption DEF Writers
    <3>2. reset(w) = c
      BY DEF reset
    <3> HIDE DEF a
    <3>3. b \in Writers
      BY <3>1 DEF Writers
    <3> HIDE DEF b
    <3>4. c \in Writers
      BY <3>3 DEF Writers
    <3> QED BY <3>2, <3>4
  <2> QED BY <1>5, <2>1, Fresh DEF ResetWriter
<1>6. ASSUME EndMessage PROVE Types'
  <2> DEFINE a == finalizePayload(page, w)
  <2>1. a.page \in Pages /\ a.w \in Writers
    BY FinalizePayloadCases
  <2> HIDE DEF a
  <2>2. page' = a.page /\ w' = a.w /\ stage' \in Stages
    BY <1>6 DEF EndMessage, a, Stages
  <2> QED BY <1>6, <2>1, <2>2 DEF EndMessage
<1>7. ASSUME TakeRequest PROVE Types'
  <2> DEFINE h == getHeader(page, NewReader)
  <2>1. h.r \in Readers /\ h.got \in ViewType
    BY Fresh, GetHeaderType
  <2> HIDE DEF h
  <2>2. r' = h.r /\ got' = [Nothing EXCEPT !.headers = <<h.got>>] /\ stage' \in Stages
    BY <1>7 DEF TakeRequest, h, Stages
  <2>3. <<h.got>> \in Seq(ViewType)
    BY <2>1
  <2>4. [Nothing EXCEPT !.headers = <<h.got>>] \in Gots
    BY <2>3, Fresh DEF Gots
  <2> QED BY <1>7, <2>1, <2>2, <2>4 DEF TakeRequest
<1>8. ASSUME LoseRequest PROVE Types'
  <2> DEFINE h == getHeader(page, NewReader)
  <2>1. h.touched \in {"page", "past", "null"}
    BY Fresh, GetHeaderType
  <2> HIDE DEF h
  <2>2. got' = [Nothing EXCEPT !.touched = h.touched] /\ stage' \in Stages
    BY <1>8 DEF LoseRequest, h, Stages
  <2>3. [Nothing EXCEPT !.touched = h.touched] \in Gots
    BY <2>1, Fresh DEF Gots
  <2> QED BY <1>8, <2>2, <2>3 DEF LoseRequest
<1>9. ASSUME ReadHeader PROVE Types'
  BY <1>9, ReadHeaderIs DEF ReadHeader
<1>10. ASSUME ReadPayload PROVE Types'
  BY <1>10, ReadPayloadIs DEF ReadPayload
<1>11. ASSUME SkipToPayload PROVE Types'
  BY <1>11, SkipToPayloadIs DEF SkipToPayload
<1>12. ASSUME SkipToEnd PROVE Types'
  BY <1>12, SkipToEndIs DEF SkipToEnd
<1>13. ASSUME ResetReader PROVE Types'
  <2>1. got.touched \in {"page", "past", "null"}
    BY DEF Gots
  <2>2. [Nothing EXCEPT !.touched = got.touched] \in Gots
    BY <2>1, Fresh DEF Gots
  <2> QED BY <1>13, <2>2, Fresh DEF ResetReader
<1>14. ASSUME BeginAnswer PROVE Types'
  BY <1>14, Fresh DEF BeginAnswer, Stages
<1>15. ASSUME TakeAnswer PROVE Types'
  BY <1>15 DEF TakeAnswer, Stages
<1>16. ASSUME Idle PROVE Types'
  BY <1>16, Fresh DEF Idle, Stages
<1>17. CASE UNCHANGED vars
  BY <1>17 DEF vars
<1> QED BY <1>1, <1>2, <1>3, <1>4, <1>5, <1>6, <1>7, <1>8, <1>9, <1>10, <1>11, <1>12,
           <1>13, <1>14, <1>15, <1>16, <1>17 DEF Next, EndReading, Reuse

-----------------------------------------------------------------------------
(* A message that was ended, or fills the page, is what a reader finds.    *)
Turns ==
    /\ stage \notin {"serving", "reading", "lost", "crashed"} => r = NewReader /\ got = Nothing
    /\ stage = "idle" => w = NewWriter /\ msg = NoMessage
    /\ Written => w.ended \/ w.cur = PageSize

(* So do the turns: at the start,                                          *)
LEMMA InitTurns == Init => Turns
BY DEF Init, Turns, Written, Stages

(* and after every step.                                                   *)
LEMMA TurnsStep == Types /\ Turns /\ [Next]_vars => Turns'
<1> SUFFICES ASSUME Types, Turns, [Next]_vars PROVE Turns'
  OBVIOUS
<1>1. ASSUME EndMessage PROVE Turns'
  <2> DEFINE a == finalizePayload(page, w)
  <2>1. a.w.ended \/ a.w.cur = PageSize
    BY FinalizePayloadCases DEF Types
  <2> HIDE DEF a
  <2>2. w' = a.w
    BY <1>1 DEF EndMessage, a
  <2> QED BY <1>1, <2>1, <2>2 DEF EndMessage, Turns, Writing, Written, Stages
<1>2. ASSUME UNCHANGED w, stage' = stage \/ stage' = "crashed", Reading PROVE Turns'
  BY <1>2 DEF Reading, Turns, Written, Stages
<1>3. CASE ReadHeader \/ ReadPayload \/ SkipToPayload \/ SkipToEnd \/ ResetReader
  <2>1. UNCHANGED w /\ (stage' = stage \/ stage' = "crashed") /\ Reading
    BY <1>3 DEF ReadHeader, ReadPayload, SkipToPayload, SkipToEnd, ResetReader, After
  <2> QED BY <1>2, <2>1
<1>4. ASSUME NEW u \in Urls, Call(u) PROVE Turns'
  BY <1>4 DEF Call, Turns, Written
<1>5. ASSUME NEW d \in Headers, WriteHeader(d) PROVE Turns'
  BY <1>5 DEF WriteHeader, Writing, Turns, Written
<1>6. ASSUME NEW d \in Payloads, WritePayload(d) PROVE Turns'
  BY <1>6 DEF WritePayload, Writing, Turns, Written
<1>7. CASE EndHeaders
  BY <1>7 DEF EndHeaders, Writing, Turns, Written
<1>8. CASE ResetWriter
  BY <1>8 DEF ResetWriter, Writing, Turns, Written
<1>9. CASE TakeRequest
  BY <1>9 DEF TakeRequest, Turns, Written, Stages
<1>10. CASE LoseRequest
  BY <1>10 DEF LoseRequest, Turns, Written, Stages
<1>11. CASE BeginAnswer
  BY <1>11 DEF BeginAnswer, Turns, Written
<1>12. CASE TakeAnswer
  BY <1>12 DEF TakeAnswer, Turns, Written, Stages
<1>13. CASE Idle
  BY <1>13 DEF Idle, Turns, Written
<1>14. CASE UNCHANGED vars
  BY <1>14 DEF vars, Turns, Written
<1> QED BY <1>1, <1>3, <1>4, <1>5, <1>6, <1>7, <1>8, <1>9, <1>10, <1>11, <1>12,
           <1>13, <1>14 DEF Next, EndReading, Reuse

(* A message that was ended has an end: a NUL below the writer's cursor,   *)
(* and the NL of the headers below that.  The page may be too small for    *)
(* both, but then the cursor is at its end.                                *)
HeadersEnd(pg, v) == \E i \in Cells : i < v.cur /\ pg[i] = NL
MessageEnds(pg, v) ==
    /\ v.cur >= 2 /\ pg[v.cur - 1] = NUL
    /\ \E i \in Cells : i < v.cur - 1 /\ pg[i] = NL

(* The two ends are there whenever the writer's flags say so.              *)
Sealed(pg, v) ==
    /\ v.headed /\ v.cur < PageSize => HeadersEnd(pg, v)
    /\ v.ended /\ v.cur < PageSize => MessageEnds(pg, v)
    /\ v.ended => v.headed

(* The reader has such an end before it, or is through.                    *)
Below(pg, v, rd) ==
    \/ rd.ended
    \/ rd.headed /\ rd.cur < v.cur
    \/ ~rd.headed /\ \E i \in Cells : rd.cur <= i /\ i < v.cur - 1 /\ pg[i] = NL

(* NothingStale with what makes it inductive.                              *)
StaleInv ==
    /\ Sealed(page, w)
    /\ Reading /\ w.cur < PageSize => Below(page, w, r)
    /\ NothingStale

(* finalizeHeader of the writer keeps what it sealed,                      *)
LEMMA HeaderSealed ==
    ASSUME NEW pg \in Pages, NEW v \in Writers, Sealed(pg, v)
    PROVE  LET a == finalizeHeader(pg, v) IN Sealed(a.page, a.w)
<1> DEFINE a == finalizeHeader(pg, v)
<1> SUFFICES Sealed(a.page, a.w)
  OBVIOUS
<1>1. /\ a.page \in Pages /\ a.w \in Writers
      /\ \/ v.headed /\ a.page = pg /\ a.w = v
         \/ ~v.headed /\ (v.ended \/ v.cur = PageSize) /\ a.page = pg /\ a.w = v
         \/ /\ ~v.headed /\ ~v.ended /\ v.cur < PageSize
            /\ a.page[v.cur] = NL
            /\ a.w.cur = v.cur + 1 /\ a.w.headed /\ ~a.w.ended
  BY FinalizeHeaderCases
<1> HIDE DEF a
<1>2. v.cur \in 0..PageSize
  BY DEF Writers
<1>3. CASE v.cur < PageSize /\ a.page[v.cur] = NL /\ a.w.cur = v.cur + 1 /\ a.w.headed
           /\ ~a.w.ended
  <2>1. v.cur \in Cells /\ v.cur < a.w.cur
    BY <1>2, <1>3, PageSizeAssumption DEF Cells
  <2> QED BY <1>3, <2>1 DEF Sealed, HeadersEnd
<1> QED BY <1>1, <1>3

(* and so does finalizePayload,                                            *)
LEMMA PayloadSealed ==
    ASSUME NEW pg \in Pages, NEW v \in Writers, Sealed(pg, v)
    PROVE  LET a == finalizePayload(pg, v) IN Sealed(a.page, a.w)
<1> DEFINE a == finalizePayload(pg, v)
<1> SUFFICES Sealed(a.page, a.w)
  OBVIOUS
<1>1. /\ \/ a.page = pg /\ a.w = v
         \/ /\ v.headed /\ v.cur < PageSize
            /\ a.page[v.cur] = NUL
            /\ \A i \in Cells : i # v.cur => a.page[i] = pg[i]
            /\ a.w.cur = v.cur + 1 /\ a.w.headed /\ a.w.ended
         \/ a.w.cur = PageSize /\ a.w.headed
         \/ /\ v.cur < PageSize - 1
            /\ a.page[v.cur] = NL /\ a.page[v.cur + 1] = NUL
            /\ a.w.cur = v.cur + 2 /\ a.w.headed /\ a.w.ended
  BY FinalizePayloadCases
<1> HIDE DEF a
<1>2. v.cur \in 0..PageSize
  BY DEF Writers
<1>3. CASE /\ v.headed /\ v.cur < PageSize
           /\ a.page[v.cur] = NUL
           /\ \A i \in Cells : i # v.cur => a.page[i] = pg[i]
           /\ a.w.cur = v.cur + 1 /\ a.w.headed /\ a.w.ended
  <2>1. PICK i \in Cells : i < v.cur /\ pg[i] = NL
    BY <1>3 DEF Sealed, HeadersEnd
  <2>2. a.page[i] = NL /\ i < a.w.cur - 1 /\ i < a.w.cur /\ a.w.cur >= 2
        /\ a.page[a.w.cur - 1] = NUL
    BY <1>2, <1>3, <2>1, PageSizeAssumption DEF Cells
  <2> QED BY <1>3, <2>2 DEF Sealed, HeadersEnd, MessageEnds
<1>4. CASE /\ v.cur < PageSize - 1
           /\ a.page[v.cur] = NL /\ a.page[v.cur + 1] = NUL
           /\ a.w.cur = v.cur + 2 /\ a.w.headed /\ a.w.ended
  <2>1. v.cur \in Cells /\ v.cur < a.w.cur - 1 /\ v.cur < a.w.cur /\ a.w.cur >= 2
        /\ a.page[a.w.cur - 1] = NUL
    BY <1>2, <1>4, PageSizeAssumption DEF Cells
  <2> QED BY <1>4, <2>1 DEF Sealed, HeadersEnd, MessageEnds
<1>5. CASE a.w.cur = PageSize /\ a.w.headed
  BY <1>5, PageSizeAssumption DEF Sealed
<1> QED BY <1>1, <1>3, <1>4, <1>5

(* and setPayload,                                                         *)
LEMMA SetPayloadSealed ==
    ASSUME NEW pg \in Pages, NEW v \in Writers, NEW data \in Seq(Glyph), Sealed(pg, v)
    PROVE  LET a == setPayload(pg, v, data) IN Sealed(a.page, a.w)
<1> DEFINE a == setPayload(pg, v, data)
           c == IF v.headed THEN v.cur ELSE v.cur + 1
<1> SUFFICES Sealed(a.page, a.w)
  OBVIOUS
<1>1. \/ a.page = pg /\ a.w = v
      \/ a.w.cur = PageSize /\ a.w.headed
      \/ /\ ~v.ended /\ c < PageSize /\ a.w.headed
         /\ \A i \in Cells : i < v.cur => a.page[i] = pg[i]
         /\ ~v.headed => a.page[v.cur] = NL
         /\ \/ a.w.cur = c /\ ~a.w.ended
            \/ /\ a.w.cur = c + Len(data) + 1 /\ a.w.ended
               /\ a.page[c + Len(data)] = NUL
  BY SetPayloadCases
<1> HIDE DEF a
<1>2. v.cur \in 0..PageSize /\ Len(data) \in Nat
  BY DEF Writers
<1>3. ASSUME c < PageSize,
             \A i \in Cells : i < v.cur => a.page[i] = pg[i],
             ~v.headed => a.page[v.cur] = NL
      PROVE  \E i \in Cells : i < c /\ a.page[i] = NL
  <2>1. CASE v.headed
    <3>1. PICK i \in Cells : i < v.cur /\ pg[i] = NL
      BY <1>3, <2>1 DEF Sealed, HeadersEnd
    <3> QED BY <1>3, <2>1, <3>1
  <2>2. CASE ~v.headed
    <3>1. v.cur \in Cells /\ v.cur < c
      BY <1>2, <1>3, <2>2, PageSizeAssumption DEF Cells
    <3> QED BY <1>3, <2>2, <3>1
  <2> QED BY <2>1, <2>2
<1>4. c \in Nat
  BY <1>2, PageSizeAssumption
<1> HIDE DEF c
<1>5. ASSUME NEW i \in Cells, i < c, a.page[i] = NL, a.w.headed,
             \/ a.w.cur = c /\ ~a.w.ended
             \/ /\ a.w.cur = c + Len(data) + 1 /\ a.w.ended
                /\ a.page[c + Len(data)] = NUL
      PROVE  Sealed(a.page, a.w)
  <2>1. CASE a.w.cur = c /\ ~a.w.ended
    BY <1>5, <2>1 DEF Sealed, HeadersEnd
  <2>2. CASE a.w.cur = c + Len(data) + 1 /\ a.w.ended /\ a.page[c + Len(data)] = NUL
    <3>1. i < a.w.cur - 1 /\ i < a.w.cur /\ a.w.cur >= 2 /\ a.page[a.w.cur - 1] = NUL
      BY <1>2, <1>4, <1>5, <2>2, PageSizeAssumption DEF Cells
    <3> QED BY <1>5, <3>1 DEF Sealed, HeadersEnd, MessageEnds
  <2> QED BY <1>5, <2>1, <2>2
<1>6. CASE a.w.cur = PageSize /\ a.w.headed
  BY <1>6, PageSizeAssumption DEF Sealed
<1> QED BY <1>1, <1>3, <1>5, <1>6

(* and addHeader, for which nothing is sealed yet.                         *)
LEMMA AddHeaderSealed ==
    ASSUME NEW pg \in Pages, NEW v \in Writers, NEW data \in Seq(Glyph), ~v.headed, ~v.ended
    PROVE  LET a == addHeader(pg, v, data) IN Sealed(a.page, a.w)
<1> DEFINE a == addHeader(pg, v, data)
<1> SUFFICES Sealed(a.page, a.w)
  OBVIOUS
<1>1. ~a.w.headed /\ ~a.w.ended
  <2>1. a.w = v \/ (~a.w.headed /\ ~a.w.ended)
    BY AddHeaderCases
  <2> HIDE DEF a
  <2> QED BY <2>1
<1> HIDE DEF a
<1> QED BY <1>1 DEF Sealed

(* An operation of the reader leaves such an end before it and gives it    *)
(* nothing from beyond.                                                    *)
LEMMA GetHeaderBelow ==
    ASSUME NEW pg \in Pages, NEW v \in Writers, NEW rd \in Readers,
           Below(pg, v, rd)
    PROVE  LET h == getHeader(pg, rd) IN
           Below(pg, v, h.r) /\ h.got.to <= v.cur
<1> DEFINE h == getHeader(pg, rd)
           e == Found(pg, rd.cur, Marks)
           u == [cur |-> e + 1, headed |-> TRUE, ended |-> TRUE]
           x == [cur |-> e + 1, headed |-> pg[e] = NL, ended |-> FALSE]
<1> SUFFICES Below(pg, v, h.r) /\ h.got.to <= v.cur
  OBVIOUS
<1>1. rd.cur \in 0..PageSize /\ rd.cur \in Nat /\ v.cur \in 0..PageSize
  BY PageSizeAssumption DEF Readers, Writers
<1>2. \/ \E t \in {"page", "past", "null"} : h = Got(None, rd, t)
      \/ h = Got(None, u, "page")
      \/ /\ ~rd.ended /\ ~rd.headed /\ e # PageSize /\ pg[e] # NUL
         /\ h = Got(View(rd.cur, e), x, "page")
  BY GetHeaderCases
<1>3. \/ e = PageSize
      \/ /\ e \in Cells /\ e >= rd.cur /\ pg[e] \in Marks
         /\ \A j \in rd.cur..e-1 : pg[j] \notin Marks
  BY <1>1, FoundFirst
<1> HIDE DEF h, e
<1>4. None.to <= v.cur /\ u.ended
  BY <1>1 DEF None
<1>5. ASSUME ~rd.ended, ~rd.headed, e # PageSize, pg[e] # NUL
      PROVE  Below(pg, v, x) /\ View(rd.cur, e).to <= v.cur
  <2>1. PICK i \in Cells : rd.cur <= i /\ i < v.cur - 1 /\ pg[i] = NL
    BY <1>5 DEF Below
  <2>2. e <= i /\ NL \in Marks
    BY <1>1, <1>3, <1>5, <2>1, PageSizeAssumption DEF Cells, Marks
  <2>3. View(rd.cur, e).to <= v.cur
    BY <1>1, <1>3, <1>5, <2>1, <2>2, PageSizeAssumption DEF View, Cells
  <2>4. x.cur = e + 1 /\ (x.headed <=> pg[e] = NL)
    OBVIOUS
  <2> HIDE DEF x
  <2>5. CASE pg[e] = NL
    BY <1>1, <1>3, <1>5, <2>1, <2>2, <2>3, <2>4, <2>5, PageSizeAssumption DEF Below, Cells
  <2>6. CASE pg[e] # NL
    <3>1. e + 1 <= i
      BY <1>3, <1>5, <2>1, <2>2, <2>6, PageSizeAssumption DEF Cells
    <3> QED BY <2>1, <2>3, <2>4, <2>6, <3>1 DEF Below
  <2> QED BY <2>3, <2>5, <2>6
<1>6. Below(pg, v, u)
  BY <1>4 DEF Below
<1> HIDE DEF u, x
<1>7. CASE \E t \in {"page", "past", "null"} : h = Got(None, rd, t)
  BY <1>4, <1>7, GotIs
<1>8. CASE h = Got(None, u, "page")
  BY <1>4, <1>6, <1>8, GotIs
<1>9. CASE /\ ~rd.ended /\ ~rd.headed /\ e # PageSize /\ pg[e] # NUL
           /\ h = Got(View(rd.cur, e), x, "page")
  BY <1>5, <1>9, GotIs
<1> QED BY <1>2, <1>7, <1>8, <1>9

(* A reader that skips the headers stays below the end of the message,     *)
LEMMA SkipHeadersBelow ==
    ASSUME NEW pg \in Pages, NEW v \in Writers, NEW rd \in Readers,
           Below(pg, v, rd)
    PROVE  Below(pg, v, SkipHeaders(pg, rd).r)
<1> DEFINE h == SkipHeaders(pg, rd)
           e == Found(pg, rd.cur, {NL})
           u == [cur |-> e + 1, headed |-> TRUE, ended |-> FALSE]
<1>1. rd.cur \in 0..PageSize /\ rd.cur \in Nat /\ v.cur \in 0..PageSize
  BY PageSizeAssumption DEF Readers, Writers
<1>2. \/ \E t \in {"page", "past", "null"} : h = Got(None, rd, t)
      \/ ~rd.ended /\ ~rd.headed /\ e # PageSize /\ h = Got(None, u, "page")
  BY SkipHeadersCases
<1>3. \/ e = PageSize
      \/ /\ e \in Cells /\ e >= rd.cur /\ pg[e] \in {NL}
         /\ \A j \in rd.cur..e-1 : pg[j] \notin {NL}
  BY <1>1, FoundFirst
<1> HIDE DEF h, e
<1>4. ASSUME ~rd.ended, ~rd.headed, e # PageSize PROVE Below(pg, v, u)
  <2>1. PICK i \in Cells : rd.cur <= i /\ i < v.cur - 1 /\ pg[i] = NL
    BY <1>4 DEF Below
  <2>2. e <= i
    BY <1>1, <1>3, <1>4, <2>1, PageSizeAssumption DEF Cells
  <2>3. e + 1 < v.cur
    BY <1>1, <1>3, <1>4, <2>1, <2>2, PageSizeAssumption DEF Cells
  <2> QED BY <2>3 DEF Below
<1> HIDE DEF u
<1>5. Below(pg, v, h.r)
  BY <1>2, <1>4, GotIs
<1> QED BY <1>5 DEF h

(* so does one that takes the payload, which lies below that end,          *)
LEMMA GetPayloadBelow ==
    ASSUME NEW pg \in Pages, NEW v \in Writers, NEW rd \in Readers, Below(pg, v, rd),
           MessageEnds(pg, v), NEW p \in getPayload(pg, rd)
    PROVE  Below(pg, v, p.r) /\ p.got.to <= v.cur
<1> DEFINE h == SkipHeaders(pg, rd)
           e == Found(pg, h.r.cur, {NUL})
           u == [cur |-> e, headed |-> TRUE, ended |-> TRUE]
<1>1. h.r \in Readers /\ Below(pg, v, h.r)
  BY SkipHeadersType, SkipHeadersBelow
<1>2. h.r.cur \in 0..PageSize /\ h.r.cur \in Nat /\ v.cur \in 0..PageSize
  BY <1>1, PageSizeAssumption DEF Readers, Writers
<1>3. \/ \E t : p = Got(None, h.r, t)
      \/ /\ ~rd.ended /\ h.r.headed /\ h.r.cur < PageSize
         /\ \E t : p = Got(View(h.r.cur, e), u, t)
  BY GetPayloadCases
<1>4. \/ e = PageSize /\ \A i \in Cells : i >= h.r.cur => pg[i] \notin {NUL}
      \/ /\ e \in Cells /\ e >= h.r.cur /\ pg[e] \in {NUL}
         /\ \A j \in h.r.cur..e-1 : pg[j] \notin {NUL}
  BY <1>2, FoundFirst
<1>5. h.r.ended => rd.ended
  <2> DEFINE y == [cur |-> Found(pg, rd.cur, {NL}) + 1, headed |-> TRUE, ended |-> FALSE]
  <2>1. (\E t : h = Got(None, rd, t)) \/ h = Got(None, y, "page")
    BY SkipHeadersCases
  <2>2. y.ended = FALSE
    OBVIOUS
  <2> HIDE DEF h, y
  <2> QED BY <2>1, <2>2, GotIs
<1> HIDE DEF h, e
<1>6. None.to <= v.cur /\ u.ended
  BY <1>2 DEF None
<1>7. ASSUME ~rd.ended, h.r.headed
      PROVE  View(h.r.cur, e).to <= v.cur
  <2>1. h.r.cur < v.cur
    BY <1>1, <1>5, <1>7 DEF Below
  <2>2. v.cur - 1 \in Cells /\ v.cur - 1 >= h.r.cur /\ pg[v.cur - 1] = NUL
    BY <1>2, <2>1, PageSizeAssumption DEF Cells, MessageEnds
  <2>3. e <= v.cur - 1
    BY <1>2, <1>4, <2>2, PageSizeAssumption DEF Cells
  <2> QED BY <1>2, <1>4, <2>3, PageSizeAssumption DEF View, Cells
<1>8. Below(pg, v, u)
  BY <1>6 DEF Below
<1> HIDE DEF u
<1>9. CASE \E t : p = Got(None, h.r, t)
  BY <1>1, <1>6, <1>9, GotIs
<1>10. CASE ~rd.ended /\ h.r.headed /\ \E t : p = Got(View(h.r.cur, e), u, t)
  BY <1>7, <1>8, <1>10, GotIs
<1> QED BY <1>3, <1>9, <1>10

(* and one that skips it.                                                  *)
LEMMA SkipPayloadBelow ==
    ASSUME NEW pg \in Pages, NEW v \in Writers, NEW rd \in Readers, Below(pg, v, rd)
    PROVE  Below(pg, v, SkipPayload(pg, rd).r)
<1> DEFINE h == SkipPayload(pg, rd)
           u == [rd EXCEPT !.headed = TRUE]
           x == [cur |-> PageSize, headed |-> TRUE, ended |-> TRUE]
<1>1. \/ h = Got(None, rd, "page")
      \/ ~rd.ended /\ rd.cur = PageSize /\ h = Got(None, u, "page")
      \/ \E t : h = Got(None, x, t)
  BY SkipPayloadCases
<1>2. x.ended
  OBVIOUS
<1>3. v.cur \in 0..PageSize
  BY DEF Writers
<1>4. ~(~rd.ended /\ rd.cur = PageSize)
  BY <1>3, PageSizeAssumption DEF Below, Cells
<1> HIDE DEF h, u, x
<1>5. Below(pg, v, x)
  BY <1>2 DEF Below
<1>6. Below(pg, v, h.r)
  BY <1>1, <1>4, <1>5, GotIs
<1> QED BY <1>6 DEF h

(* A message that was sent has its end before a reader that begins.        *)
LEMMA BelowNew ==
    ASSUME Types, Sealed(page, w), w.ended \/ w.cur = PageSize, w.cur < PageSize
    PROVE  Below(page, w, NewReader) /\ MessageEnds(page, w)
<1>1. MessageEnds(page, w)
  BY PageSizeAssumption DEF Sealed, Types, Writers
<1>2. PICK i \in Cells : i < w.cur - 1 /\ page[i] = NL
  BY <1>1 DEF MessageEnds
<1>3. NewReader.cur <= i /\ ~NewReader.headed
  BY PageSizeAssumption DEF NewReader, Cells
<1> QED BY <1>1, <1>2, <1>3 DEF Below

(* Who was given nothing was given nothing stale.                          *)
LEMMA NothingGot ==
    ASSUME Types, NEW g, g.headers = <<>>, g.payload = None
    PROVE  /\ \A n \in 1..Len(g.headers) : g.headers[n].to <= w.cur
           /\ g.payload.to <= w.cur
<1>1. w.cur \in 0..PageSize
  BY DEF Types, Writers
<1> QED BY <1>1, PageSizeAssumption DEF None

(* StaleInv holds at the start,                                            *)
LEMMA InitStale == Init => StaleInv
<1> SUFFICES ASSUME Init PROVE StaleInv
  OBVIOUS
<1>1. ~Reading /\ w = NewWriter
  BY DEF Init, Reading
<1>2. Sealed(page, w)
  BY <1>1 DEF Sealed, NewWriter
<1> QED BY <1>1, <1>2 DEF StaleInv, NothingStale

(* The operations of the reader, of which each has been seen above.        *)
LEMMA ReaderStale ==
    ASSUME Types, Turns, StaleInv, Types', UNCHANGED <<page, w>>,
           Reading', w.ended \/ w.cur = PageSize,
           w.cur < PageSize => Below(page, w, r'),
           w.cur < PageSize =>
             /\ \A n \in 1..Len(got'.headers) : got'.headers[n].to <= w.cur
             /\ got'.payload.to <= w.cur
    PROVE  StaleInv'
<1>1. Sealed(page, w)'
  BY DEF StaleInv, Sealed, HeadersEnd, MessageEnds
<1>2. Reading' /\ w'.cur < PageSize => Below(page', w', r')
  OBVIOUS
<1>3. CASE w.cur < PageSize
  <2>1. NothingStale'
    BY <1>3 DEF NothingStale
  <2> QED BY <1>1, <1>2, <2>1 DEF StaleInv, Below
<1>4. CASE w.cur = PageSize
  <2>1. \A n \in 1..Len(got'.headers) : got'.headers[n] \in ViewType
    BY DEF Types, Gots
  <2>2. \A n \in 1..Len(got'.headers) : got'.headers[n].to <= PageSize
    BY <2>1, PageSizeAssumption DEF ViewType
  <2>3. got'.payload.to <= PageSize
    BY PageSizeAssumption DEF Types, Gots, ViewType
  <2>4. NothingStale'
    BY <1>4, <2>2, <2>3 DEF NothingStale
  <2> QED BY <1>1, <1>2, <2>4 DEF StaleInv, Below
<1> QED BY <1>3, <1>4, PageSizeAssumption DEF Types, Writers

(* and every step keeps it.                                                *)
LEMMA StaleStep ==
    Types /\ Types' /\ Turns /\ StaleInv /\ [Next]_vars => StaleInv'
<1> SUFFICES ASSUME Types, Types', Turns, StaleInv, [Next]_vars PROVE StaleInv'
  OBVIOUS
<1>0. /\ page \in Pages /\ w \in Writers /\ r \in Readers /\ got \in Gots
      /\ Sealed(page, w)
      /\ w.cur \in 0..PageSize
  BY DEF Types, StaleInv, Writers
<1>a. ASSUME ~Reading', Sealed(page', w') PROVE StaleInv'
  BY <1>a DEF StaleInv, NothingStale, Sealed, HeadersEnd, MessageEnds
<1>b. ASSUME Reading PROVE w.ended \/ w.cur = PageSize
  BY <1>b DEF Reading, Turns, Written, Stages
<1>c. ASSUME Reading, w.cur < PageSize
      PROVE  /\ Below(page, w, r) /\ MessageEnds(page, w)
             /\ \A n \in 1..Len(got.headers) : got.headers[n].to <= w.cur
             /\ got.payload.to <= w.cur
  BY <1>0, <1>b, <1>c, BelowNew DEF StaleInv, NothingStale
<1>1. ASSUME NEW u \in Urls, Call(u) PROVE StaleInv'
  <2> DEFINE a == addHeader(page, NewWriter, u)
  <2>1. Sealed(a.page, a.w)
    BY <1>0, Fresh, Plain, AddHeaderSealed DEF NewWriter
  <2>2. page' = a.page /\ w' = a.w /\ ~Reading'
    BY <1>1 DEF Call, Reading
  <2> HIDE DEF a
  <2> QED BY <1>a, <2>1, <2>2
<1>2. ASSUME NEW d \in Headers, WriteHeader(d) PROVE StaleInv'
  <2> DEFINE a == addHeader(page, w, d)
  <2>1. Sealed(a.page, a.w)
    BY <1>0, <1>2, Plain, AddHeaderSealed DEF WriteHeader
  <2>2. page' = a.page /\ w' = a.w /\ ~Reading'
    BY <1>2 DEF WriteHeader, Reading, Writing
  <2> HIDE DEF a
  <2> QED BY <1>a, <2>1, <2>2
<1>3. ASSUME NEW d \in Payloads, WritePayload(d) PROVE StaleInv'
  <2> DEFINE a == setPayload(page, w, d)
  <2>1. Sealed(a.page, a.w)
    BY <1>0, Plain, SetPayloadSealed
  <2>2. page' = a.page /\ w' = a.w /\ ~Reading'
    BY <1>3 DEF WritePayload, Reading, Writing
  <2> HIDE DEF a
  <2> QED BY <1>a, <2>1, <2>2
<1>4. CASE EndHeaders
  <2> DEFINE a == finalizeHeader(page, w)
  <2>1. Sealed(a.page, a.w)
    BY <1>0, HeaderSealed
  <2>2. page' = a.page /\ w' = a.w /\ ~Reading'
    BY <1>4 DEF EndHeaders, Reading, Writing
  <2> HIDE DEF a
  <2> QED BY <1>a, <2>1, <2>2
<1>5. CASE ResetWriter
  <2>1. ~reset(w).headed /\ ~reset(w).ended
    BY <1>0 DEF reset, Writers
  <2>2. w' = reset(w) /\ page' = page /\ ~Reading'
    BY <1>5 DEF ResetWriter, Reading, Writing
  <2>3. Sealed(page', w')
    BY <2>1, <2>2 DEF Sealed
  <2> QED BY <1>a, <2>2, <2>3
<1>6. CASE EndMessage
  <2> DEFINE a == finalizePayload(page, w)
  <2>1. Sealed(a.page, a.w)
    BY <1>0, PayloadSealed
  <2>2. page' = a.page /\ w' = a.w /\ ~Reading'
    BY <1>6 DEF EndMessage, Reading, Writing
  <2> HIDE DEF a
  <2> QED BY <1>a, <2>1, <2>2
<1>7. CASE TakeRequest
  <2> DEFINE h == getHeader(page, NewReader)
  <2>1. UNCHANGED <<page, w>> /\ Reading' /\ (w.ended \/ w.cur = PageSize)
    BY <1>7 DEF TakeRequest, Reading, Turns, Written, Stages
  <2>2. r' = h.r /\ got'.headers = <<h.got>> /\ got'.payload = None
    BY <1>7 DEF TakeRequest, Nothing
  <2>3. ASSUME w.cur < PageSize PROVE Below(page, w, h.r) /\ h.got.to <= w.cur
    BY <1>0, <2>1, <2>3, BelowNew, GetHeaderBelow, Fresh
  <2> HIDE DEF h
  <2>4. None.to <= w.cur
    BY <1>0, PageSizeAssumption DEF None
  <2>5. ASSUME w.cur < PageSize
        PROVE  \A n \in 1..Len(got'.headers) : got'.headers[n].to <= w.cur
    BY <2>2, <2>3, <2>5
  <2> QED BY <2>1, <2>2, <2>3, <2>4, <2>5, ReaderStale
<1>8. CASE LoseRequest
  BY <1>0, <1>8, <1>a DEF LoseRequest, Reading
<1>9. CASE ReadHeader
  <2> DEFINE h == getHeader(page, r)
  <2>1. UNCHANGED <<page, w>> /\ Reading /\ (stage' = stage \/ ~Reading')
    BY <1>9 DEF ReadHeader, After, Reading
  <2>2. /\ r' = h.r /\ got'.payload = got.payload
        /\ got'.headers = IF h.got = None THEN got.headers ELSE Append(got.headers, h.got)
    BY <1>9, ReadHeaderIs
  <2>3. h.got \in ViewType
    BY <1>0, GetHeaderType
  <2>4. ASSUME w.cur < PageSize PROVE Below(page, w, h.r) /\ h.got.to <= w.cur
    BY <1>0, <1>c, <2>1, <2>4, GetHeaderBelow
  <2> HIDE DEF h
  <2>5. ASSUME w.cur < PageSize
        PROVE  \A n \in 1..Len(got'.headers) : got'.headers[n].to <= w.cur
    BY <1>0, <1>c, <2>1, <2>2, <2>3, <2>4, <2>5 DEF Gots
  <2>6. CASE Reading'
    BY <1>b, <1>c, <2>1, <2>2, <2>4, <2>5, <2>6, ReaderStale
  <2> QED BY <1>0, <1>a, <2>1, <2>6
<1>10. CASE ReadPayload
  <2>1. UNCHANGED <<page, w>> /\ Reading /\ (stage' = stage \/ ~Reading')
    BY <1>10 DEF ReadPayload, After, Reading
  <2>2. PICK p \in getPayload(page, r) :
          /\ r' = p.r /\ got'.headers = got.headers
          /\ got'.payload = IF p.got = None THEN got.payload ELSE p.got
    BY <1>10, ReadPayloadIs
  <2>3. ASSUME w.cur < PageSize PROVE Below(page, w, p.r) /\ p.got.to <= w.cur
    BY <1>0, <1>c, <2>1, <2>3, GetPayloadBelow
  <2>4. CASE Reading'
    BY <1>b, <1>c, <2>1, <2>2, <2>3, <2>4, ReaderStale
  <2> QED BY <1>0, <1>a, <2>1, <2>4
<1>11. CASE SkipToPayload
  <2> DEFINE h == SkipHeaders(page, r)
  <2>1. UNCHANGED <<page, w>> /\ Reading /\ Reading'
    BY <1>11 DEF SkipToPayload, Reading
  <2>2. r' = h.r /\ got'.headers = got.headers /\ got'.payload = got.payload
    BY <1>11, SkipToPayloadIs
  <2>3. ASSUME w.cur < PageSize PROVE Below(page, w, h.r)
    BY <1>0, <1>c, <2>1, <2>3, SkipHeadersBelow
  <2> HIDE DEF h
  <2> QED BY <1>b, <1>c, <2>1, <2>2, <2>3, ReaderStale
<1>12. CASE SkipToEnd
  <2> DEFINE h == SkipPayload(page, r)
  <2>1. UNCHANGED <<page, w>> /\ Reading /\ Reading'
    BY <1>12 DEF SkipToEnd, Reading
  <2>2. r' = h.r /\ got'.headers = got.headers /\ got'.payload = got.payload
    BY <1>12, SkipToEndIs
  <2>3. ASSUME w.cur < PageSize PROVE Below(page, w, h.r)
    BY <1>0, <1>c, <2>1, <2>3, SkipPayloadBelow
  <2> HIDE DEF h
  <2> QED BY <1>b, <1>c, <2>1, <2>2, <2>3, ReaderStale
<1>13. CASE ResetReader
  <2>1. UNCHANGED <<page, w>> /\ Reading /\ Reading' /\ r' = NewReader
    BY <1>13 DEF ResetReader, Reading
  <2>2. got'.headers = <<>> /\ got'.payload = None
    BY <1>13 DEF ResetReader, Nothing
  <2>3. None.to <= w.cur
    BY <1>0, PageSizeAssumption DEF None
  <2> QED BY <1>0, <1>b, <2>1, <2>2, <2>3, BelowNew, ReaderStale
<1>14. CASE BeginAnswer
  <2>1. Sealed(page', w') /\ ~Reading'
    BY <1>14 DEF BeginAnswer, Reading, Sealed, NewWriter
  <2> QED BY <1>a, <2>1
<1>15. CASE TakeAnswer
  <2>1. UNCHANGED <<page, w>> /\ Reading' /\ r' = NewReader /\ got' = Nothing
        /\ (w.ended \/ w.cur = PageSize)
    BY <1>15 DEF TakeAnswer, Reading, Turns, Written, Stages
  <2>2. got'.headers = <<>> /\ got'.payload = None
    BY <2>1 DEF Nothing
  <2>3. None.to <= w.cur
    BY <1>0, PageSizeAssumption DEF None
  <2> QED BY <1>0, <2>1, <2>2, <2>3, BelowNew, ReaderStale
<1>16. CASE Idle
  <2>1. Sealed(page', w') /\ ~Reading'
    BY <1>16 DEF Idle, Reading, Sealed, NewWriter
  <2> QED BY <1>a, <2>1
<1>17. CASE UNCHANGED vars
  BY <1>17 DEF vars, StaleInv, NothingStale, Reading, Sealed, HeadersEnd, MessageEnds, Below
<1> QED BY <1>1, <1>2, <1>3, <1>4, <1>5, <1>6, <1>7, <1>8, <1>9, <1>10, <1>11, <1>12,
           <1>13, <1>14, <1>15, <1>16, <1>17 DEF Next, EndReading, Reuse

(* The url of a request lies at the start of the page with a mark after    *)
(* it, unless it fills the page.                                           *)
UrlAt(pg, v, u) ==
    /\ v.started
    /\ \A i \in Cells : i < Len(u) => pg[i] = u[i + 1]
    /\ IF Len(u) >= PageSize
       THEN v.cur = PageSize /\ ~v.headed /\ ~v.ended
       ELSE /\ v.cur >= Len(u)
            /\ v.cur > Len(u) => pg[Len(u)] \in Marks
            /\ v.headed \/ v.ended => v.cur > Len(u)

(* That the url lies there is known of every request as long as nobody     *)
(* resets its writer.                                                      *)
UrlKnown ==
    /\ msg.headers # <<>> /\ msg.headers[1] \in Seq(Char)
    /\ UrlAt(page, w, msg.headers[1])
    /\ Written => Len(msg.headers[1]) >= PageSize \/ w.cur > Len(msg.headers[1])

UrlFirst == stage \in {"request", "sent", "serving", "lost"} /\ ~msg.reset => UrlKnown

(* The callback that runs is the one the search stopped at.                *)
ChosenFirst ==
    stage = "serving" => chosen \in FirstMatches(patterns, Asked) /\ Len(Asked) \in Nat

(* call() writes the url where it belongs,                                 *)
LEMMA CallUrl ==
    ASSUME NEW pg \in Pages, NEW u \in Seq(Char)
    PROVE  LET a == addHeader(pg, NewWriter, u) IN UrlAt(a.page, a.w, u)
<1> DEFINE a == addHeader(pg, NewWriter, u)
<1> SUFFICES UrlAt(a.page, a.w, u)
  OBVIOUS
<1>1. /\ NewWriter \in Writers /\ ~NewWriter.headed /\ ~NewWriter.ended
      /\ ~NewWriter.started /\ NewWriter.cur = 0
      /\ u \in Seq(Glyph) /\ Len(u) \in Nat
  BY Fresh DEF NewWriter, Glyph
<1>2. /\ a.w.started /\ ~a.w.headed /\ ~a.w.ended
      /\ \A i \in 1..Len(u) : 0 + i - 1 < PageSize => a.page[0 + i - 1] = u[i]
      /\ \/ 0 >= PageSize /\ a.w.cur = 0 - 1
         \/ 0 < PageSize /\ 0 + Len(u) <= PageSize /\ a.w.cur = 0 + Len(u)
         \/ 0 < PageSize /\ 0 + Len(u) > PageSize /\ a.w.cur = PageSize
  BY <1>1, AddHeaderCases
<1> HIDE DEF a
<1>3. \A i \in Cells : i < Len(u) => a.page[i] = u[i + 1]
  <2> SUFFICES ASSUME NEW i \in Cells, i < Len(u) PROVE a.page[i] = u[i + 1]
    OBVIOUS
  <2>1. i + 1 \in 1..Len(u) /\ 0 + (i + 1) - 1 = i /\ i < PageSize
    BY <1>1, PageSizeAssumption DEF Cells
  <2> QED BY <1>2, <2>1
<1> QED BY <1>1, <1>2, <1>3, PageSizeAssumption DEF UrlAt

(* a further header leaves it there,                                       *)
LEMMA AddHeaderUrl ==
    ASSUME NEW pg \in Pages, NEW v \in Writers, NEW u \in Seq(Char), UrlAt(pg, v, u),
           NEW data \in Seq(Glyph), ~v.headed, ~v.ended
    PROVE  LET a == addHeader(pg, v, data) IN UrlAt(a.page, a.w, u)
<1> DEFINE a == addHeader(pg, v, data)
<1> SUFFICES UrlAt(a.page, a.w, u)
  OBVIOUS
<1>1. /\ v.started /\ v.cur \in 0..PageSize /\ Len(u) \in Nat /\ Len(data) \in Nat
  BY DEF UrlAt, Writers
<1>2. \/ a.page = pg /\ a.w = v
      \/ /\ v.cur # PageSize
         /\ a.w.started /\ ~a.w.headed /\ ~a.w.ended
         /\ \A i \in Cells : i < v.cur => a.page[i] = pg[i]
         /\ a.page[v.cur] = TAB
         /\ \/ v.cur + 1 >= PageSize /\ a.w.cur = v.cur + 1 - 1
            \/ v.cur + 1 < PageSize /\ a.w.cur = v.cur + 1 + Len(data)
            \/ a.w.cur = PageSize
  BY <1>1, AddHeaderCases
<1> HIDE DEF a
<1>3. CASE a.page = pg /\ a.w = v
  BY <1>3
<1>4. CASE /\ v.cur # PageSize
           /\ a.w.started /\ ~a.w.headed /\ ~a.w.ended
           /\ \A i \in Cells : i < v.cur => a.page[i] = pg[i]
           /\ a.page[v.cur] = TAB
           /\ \/ v.cur + 1 >= PageSize /\ a.w.cur = v.cur + 1 - 1
              \/ v.cur + 1 < PageSize /\ a.w.cur = v.cur + 1 + Len(data)
              \/ a.w.cur = PageSize
  <2>1. Len(u) < PageSize /\ v.cur >= Len(u) /\ (v.cur > Len(u) => pg[Len(u)] \in Marks)
    BY <1>1, <1>4, PageSizeAssumption DEF UrlAt
  <2>2. \A i \in Cells : i < Len(u) => a.page[i] = u[i + 1]
    BY <1>1, <1>4, <2>1, PageSizeAssumption DEF UrlAt, Cells
  <2>3. a.page[Len(u)] \in Marks
    <3>1. CASE v.cur = Len(u)
      BY <1>4, <3>1 DEF Marks
    <3>2. CASE v.cur > Len(u)
      BY <1>1, <1>4, <2>1, <3>2, PageSizeAssumption DEF Cells
    <3> QED BY <1>1, <2>1, <3>1, <3>2, PageSizeAssumption
  <2>4. a.w.cur >= Len(u)
    BY <1>1, <1>4, <2>1, PageSizeAssumption
  <2> QED BY <1>1, <1>4, <2>1, <2>2, <2>3, <2>4, PageSizeAssumption DEF UrlAt
<1> QED BY <1>2, <1>3, <1>4

(* What ends the headers or the message writes a mark where the cursor is, *)
(* and nothing before it, but for the NUL that may be put on the last byte *)
(* of the page.                                                            *)
LEMMA UrlKept ==
    ASSUME NEW pg, NEW v \in Writers, NEW u \in Seq(Char), UrlAt(pg, v, u),
           NEW pg2, NEW v2 \in Writers, v2.started = v.started, v2.cur >= v.cur,
           \A i \in Cells : i < v.cur =>
             pg2[i] = pg[i] \/ (i = PageSize - 1 /\ pg2[i] \in Marks),
           ~v.headed => v.cur < PageSize /\ pg2[v.cur] \in Marks /\ v2.cur > v.cur
    PROVE  UrlAt(pg2, v2, u) /\ v2.cur > Len(u)
<1>1. /\ v.cur \in 0..PageSize /\ v2.cur \in 0..PageSize /\ Len(u) \in Nat
  BY DEF Writers
<1>2. /\ Len(u) < PageSize /\ v.cur >= Len(u)
      /\ v.cur > Len(u) => pg[Len(u)] \in Marks
      /\ v.headed => v.cur > Len(u)
  BY <1>1, PageSizeAssumption DEF UrlAt
<1>3. v2.cur > Len(u)
  BY <1>1, <1>2, PageSizeAssumption
<1>4. \A i \in Cells : i < Len(u) => pg2[i] = u[i + 1]
  BY <1>1, <1>2, PageSizeAssumption DEF UrlAt, Cells
<1>5. pg2[Len(u)] \in Marks
  <2>1. CASE v.cur > Len(u)
    <3>1. Len(u) \in Cells
      BY <1>1, <1>2, PageSizeAssumption DEF Cells
    <3> QED BY <1>2, <2>1, <3>1
  <2>2. CASE v.cur = Len(u)
    BY <1>1, <1>2, <2>2
  <2> QED BY <1>1, <1>2, <2>1, <2>2, PageSizeAssumption
<1>6. v2.started
  BY DEF UrlAt
<1> QED BY <1>1, <1>2, <1>3, <1>4, <1>5, <1>6, PageSizeAssumption DEF UrlAt

(* and the end of the headers,                                             *)
LEMMA HeaderUrl ==
    ASSUME NEW pg \in Pages, NEW v \in Writers, NEW u \in Seq(Char), UrlAt(pg, v, u)
    PROVE  LET a == finalizeHeader(pg, v) IN UrlAt(a.page, a.w, u)
<1> DEFINE a == finalizeHeader(pg, v)
<1> SUFFICES UrlAt(a.page, a.w, u)
  OBVIOUS
<1>1. /\ a.w \in Writers
      /\ \/ a.page = pg /\ a.w = v
         \/ /\ ~v.headed /\ ~v.ended /\ v.cur < PageSize
            /\ a.page[v.cur] = NL
            /\ \A i \in Cells : i # v.cur => a.page[i] = pg[i]
            /\ a.w.cur = v.cur + 1 /\ a.w.started = v.started
  BY FinalizeHeaderCases
<1> HIDE DEF a
<1>2. v.cur \in 0..PageSize
  BY DEF Writers
<1>3. CASE /\ ~v.headed /\ ~v.ended /\ v.cur < PageSize
           /\ a.page[v.cur] = NL
           /\ \A i \in Cells : i # v.cur => a.page[i] = pg[i]
           /\ a.w.cur = v.cur + 1 /\ a.w.started = v.started
  <2>1. a.page[v.cur] \in Marks /\ a.w.cur > v.cur /\ a.w.cur >= v.cur
    BY <1>2, <1>3, PageSizeAssumption DEF Marks
  <2>2. \A i \in Cells : i < v.cur => a.page[i] = pg[i]
    BY <1>2, <1>3, PageSizeAssumption DEF Cells
  <2> QED BY <1>1, <1>3, <2>1, <2>2, UrlKept
<1> QED BY <1>1, <1>3

(* the end of the message, which leaves the cursor after the url,          *)
LEMMA PayloadUrl ==
    ASSUME NEW pg \in Pages, NEW v \in Writers, NEW u \in Seq(Char), UrlAt(pg, v, u)
    PROVE  LET a == finalizePayload(pg, v)
           IN  UrlAt(a.page, a.w, u) /\ (Len(u) >= PageSize \/ a.w.cur > Len(u))
<1> DEFINE a == finalizePayload(pg, v)
<1> SUFFICES UrlAt(a.page, a.w, u) /\ (Len(u) >= PageSize \/ a.w.cur > Len(u))
  OBVIOUS
<1>1. /\ a.w \in Writers
      /\ \/ (v.ended \/ v.cur = PageSize) /\ a.page = pg /\ a.w = v
         \/ /\ ~v.headed => v.cur < PageSize /\ a.page[v.cur] \in Marks
            /\ \A i \in Cells : i # v.cur /\ i # v.cur + 1 => a.page[i] = pg[i]
            /\ a.w.cur > v.cur /\ a.w.started = v.started
  <2>1. v.cur \in 0..PageSize /\ NL \in Marks /\ NUL \in Marks
    BY DEF Writers, Marks
  <2>2. /\ a.w \in Writers
        /\ \/ (v.ended \/ v.cur = PageSize) /\ a.page = pg /\ a.w = v
           \/ /\ v.headed /\ v.cur < PageSize
              /\ \A i \in Cells : i # v.cur => a.page[i] = pg[i]
              /\ a.w.cur = v.cur + 1 /\ a.w.started = v.started
           \/ /\ ~v.headed /\ v.cur = PageSize - 1
              /\ a.page[v.cur] = NL
              /\ \A i \in Cells : i # v.cur => a.page[i] = pg[i]
              /\ a.w.cur = PageSize /\ a.w.started = v.started
           \/ /\ ~v.headed /\ v.cur < PageSize - 1
              /\ a.page[v.cur] = NL
              /\ \A i \in Cells : i # v.cur /\ i # v.cur + 1 => a.page[i] = pg[i]
              /\ a.w.cur = v.cur + 2 /\ a.w.started = v.started
    BY FinalizePayloadCases
  <2> HIDE DEF a
  <2> QED BY <2>1, <2>2, PageSizeAssumption
<1> HIDE DEF a
<1>2. v.cur \in 0..PageSize /\ Len(u) \in Nat
  BY DEF Writers
<1>3. CASE (v.ended \/ v.cur = PageSize) /\ a.page = pg /\ a.w = v
  BY <1>2, <1>3, PageSizeAssumption DEF UrlAt
<1>4. CASE /\ ~v.headed => v.cur < PageSize /\ a.page[v.cur] \in Marks
           /\ \A i \in Cells : i # v.cur /\ i # v.cur + 1 => a.page[i] = pg[i]
           /\ a.w.cur > v.cur /\ a.w.started = v.started
  <2>1. \A i \in Cells : i < v.cur => a.page[i] = pg[i]
    BY <1>2, <1>4, PageSizeAssumption DEF Cells
  <2>2. a.w.cur >= v.cur
    BY <1>1, <1>2, <1>4, PageSizeAssumption DEF Writers
  <2>3. ~v.headed => v.cur < PageSize /\ a.page[v.cur] \in Marks /\ a.w.cur > v.cur
    BY <1>4
  <2>4. a.w \in Writers /\ a.w.started = v.started
    BY <1>1, <1>4
  <2>5. \A i \in Cells : i < v.cur =>
          a.page[i] = pg[i] \/ (i = PageSize - 1 /\ a.page[i] \in Marks)
    BY <2>1
  <2>6. UrlAt(a.page, a.w, u) /\ a.w.cur > Len(u)
    BY <2>2, <2>3, <2>4, <2>5, UrlKept
  <2> QED BY <2>6
<1> QED BY <1>1, <1>3, <1>4

(* and the payload do.                                                     *)
LEMMA SetPayloadUrl ==
    ASSUME NEW pg \in Pages, NEW v \in Writers, NEW u \in Seq(Char), UrlAt(pg, v, u),
           NEW data \in Seq(Glyph)
    PROVE  LET a == setPayload(pg, v, data) IN UrlAt(a.page, a.w, u)
<1> DEFINE a == setPayload(pg, v, data)
           c == IF v.headed THEN v.cur ELSE v.cur + 1
<1> SUFFICES UrlAt(a.page, a.w, u)
  OBVIOUS
<1>1. /\ a.w \in Writers
      /\ \/ a.page = pg /\ a.w = v
         \/ /\ c = PageSize
            /\ a.page[PageSize - 1] = NUL
            /\ \A i \in Cells : i # PageSize - 1 => a.page[i] = pg[i]
            /\ a.w.cur = PageSize /\ a.w.started = v.started
         \/ /\ c < PageSize
            /\ \A i \in Cells : i < v.cur => a.page[i] = pg[i]
            /\ ~v.headed => a.page[v.cur] = NL
            /\ a.w.started = v.started
            /\ \/ a.w.cur = c
               \/ a.w.cur = PageSize
               \/ a.w.cur = c + Len(data) + 1
  BY SetPayloadCases
<1> HIDE DEF a
<1>2. v.cur \in 0..PageSize /\ Len(data) \in Nat
  BY DEF Writers
<1>3. CASE /\ c = PageSize
           /\ a.page[PageSize - 1] = NUL
           /\ \A i \in Cells : i # PageSize - 1 => a.page[i] = pg[i]
           /\ a.w.cur = PageSize /\ a.w.started = v.started
  <2>1. NUL \in Marks /\ a.w.cur >= v.cur
    BY <1>2, <1>3, PageSizeAssumption DEF Marks
  <2>2. ~v.headed => v.cur < PageSize /\ a.page[v.cur] \in Marks /\ a.w.cur > v.cur
    <3>1. ~v.headed => v.cur = PageSize - 1
      BY <1>2, <1>3, PageSizeAssumption
    <3> QED BY <1>2, <1>3, <2>1, <3>1, PageSizeAssumption
  <2>3. \A i \in Cells : i < v.cur =>
          a.page[i] = pg[i] \/ (i = PageSize - 1 /\ a.page[i] \in Marks)
    BY <1>3, <2>1
  <2> QED BY <1>1, <1>3, <2>1, <2>2, <2>3, UrlKept
<1>4. CASE /\ c < PageSize
           /\ \A i \in Cells : i < v.cur => a.page[i] = pg[i]
           /\ ~v.headed => a.page[v.cur] = NL
           /\ a.w.started = v.started
           /\ \/ a.w.cur = c
              \/ a.w.cur = PageSize
              \/ a.w.cur = c + Len(data) + 1
  <2>1. NL \in Marks /\ a.w.cur >= v.cur
    BY <1>2, <1>4, PageSizeAssumption DEF Marks
  <2>2. ~v.headed => v.cur < PageSize /\ a.page[v.cur] \in Marks /\ a.w.cur > v.cur
    BY <1>2, <1>4, <2>1, PageSizeAssumption
  <2> QED BY <1>1, <1>4, <2>1, <2>2, UrlKept
<1> QED BY <1>1, <1>3, <1>4

(* The url that a request begins with is what its reader is given, unless  *)
(* it is given nothing.                                                    *)
LEMMA UrlIsRead ==
    ASSUME page \in Pages, NEW v \in Writers, NEW u \in Seq(Char), UrlAt(page, v, u),
           Len(u) >= PageSize \/ v.cur > Len(u)
    PROVE  LET h == getHeader(page, NewReader) IN
           /\ h.got # None => Text(h.got) = u
           /\ Len(u) < PageSize /\ page[Len(u)] # NUL => h.got # None
<1> DEFINE h == getHeader(page, NewReader)
           e == Found(page, 0, Marks)
           k == [cur |-> e + 1, headed |-> TRUE, ended |-> TRUE]
           x == [cur |-> e + 1, headed |-> page[e] = NL, ended |-> FALSE]
<1> SUFFICES /\ h.got # None => Text(h.got) = u
             /\ Len(u) < PageSize /\ page[Len(u)] # NUL => h.got # None
  OBVIOUS
<1>1. /\ NewReader \in Readers /\ ~NewReader.ended /\ ~NewReader.headed /\ NewReader.cur = 0
      /\ Len(u) \in Nat /\ 0 \in Nat /\ v.cur \in 0..PageSize
  BY Fresh DEF NewReader, Writers
<1>2. \/ e = PageSize /\ h = Got(None, NewReader, "past")
      \/ e # PageSize /\ page[e] = NUL /\ h = Got(None, k, "page")
      \/ e # PageSize /\ page[e] # NUL /\ h = Got(View(0, e), x, "page")
  <2>1. LET e1 == Found(page, NewReader.cur, Marks) IN
        \/ /\ NewReader.ended \/ NewReader.headed
        \/ NewReader.cur = PageSize
        \/ e1 = PageSize /\ h = Got(None, NewReader, "past")
        \/ e1 # PageSize /\ page[e1] = NUL
           /\ h = Got(None, [cur |-> e1 + 1, headed |-> TRUE, ended |-> TRUE], "page")
        \/ e1 # PageSize /\ page[e1] # NUL
           /\ h = Got(View(NewReader.cur, e1),
                      [cur |-> e1 + 1, headed |-> page[e1] = NL, ended |-> FALSE], "page")
    BY <1>1, GetHeaderCases
  <2> QED BY <1>1, <2>1, PageSizeAssumption
<1>3. \A i \in Cells : i < Len(u) => page[i] = u[i + 1] /\ page[i] \notin Marks
  <2> SUFFICES ASSUME NEW i \in Cells, i < Len(u)
               PROVE  page[i] = u[i + 1] /\ page[i] \notin Marks
    OBVIOUS
  <2>1. page[i] = u[i + 1] /\ u[i + 1] \in Char
    BY <1>1, PageSizeAssumption DEF UrlAt, Cells
  <2> QED BY <2>1, ExchangeAssumption
<1>4. CASE Len(u) >= PageSize
  <2>1. \A i \in Cells : page[i] \notin Marks
    BY <1>1, <1>3, <1>4, PageSizeAssumption DEF Cells
  <2>2. e = PageSize
    BY <1>1, <2>1, FoundFirst
  <2> HIDE DEF h, e
  <2> QED BY <1>1, <1>2, <1>4, <2>2, GotIs, PageSizeAssumption
<1>5. CASE Len(u) < PageSize
  <2>1. page[Len(u)] \in Marks
    BY <1>1, <1>5, PageSizeAssumption DEF UrlAt
  <2>2. Len(u) \in Cells /\ Len(u) >= 0
    BY <1>1, <1>5, PageSizeAssumption DEF Cells
  <2>3. \A j \in 0..Len(u)-1 : page[j] \notin Marks
    BY <1>1, <1>3, <2>2, PageSizeAssumption DEF Cells
  <2>4. e = Len(u)
    BY <1>1, <2>1, <2>2, <2>3, FoundIs
  <2>5. Text(View(0, 0 + Len(u))) = u
    <3>1. \A i \in 1..Len(u) : page[0 + i - 1] = u[i]
      <4> SUFFICES ASSUME NEW i \in 1..Len(u) PROVE page[0 + i - 1] = u[i]
        OBVIOUS
      <4>1. i - 1 \in Cells /\ i - 1 < Len(u) /\ (i - 1) + 1 = i /\ 0 + i - 1 = i - 1
        BY <1>1, <1>5, PageSizeAssumption DEF Cells
      <4> QED BY <1>3, <4>1
    <3>2. 0 + Len(u) <= PageSize
      BY <1>1, <1>5, PageSizeAssumption
    <3> QED BY <1>1, <3>1, <3>2, TextIs
  <2>6. View(0, e) # None /\ View(0, e) = View(0, 0 + Len(u))
    BY <1>1, <2>4 DEF View, None
  <2> HIDE DEF h, e, k, x
  <2> QED BY <1>2, <1>5, <2>2, <2>4, <2>5, <2>6, GotIs, PageSizeAssumption
<1> QED BY <1>1, <1>4, <1>5, PageSizeAssumption

(* The patterns of a server are finitely many strings.                     *)
LEMMA PatternsKnown ==
    ASSUME Types
    PROVE  IsFiniteSet(patterns) /\ \A p \in patterns : Len(p) \in Nat
<1>1. patterns \subseteq Seq(Char \cup {"<int>", "<string>"}) /\ IsFiniteSet(patterns)
  BY ExchangeAssumption DEF Types
<1> QED BY <1>1

(* The url is where it should be at the start, as there is none,           *)
LEMMA InitUrl == Init => UrlFirst
BY DEF Init, UrlFirst

(* and after every step.                                                   *)
LEMMA UrlStep == Types /\ Turns /\ UrlFirst /\ [Next]_vars => UrlFirst'
<1> SUFFICES ASSUME Types, Turns, UrlFirst, [Next]_vars,
                    stage' \in {"request", "sent", "serving", "lost"}, ~msg'.reset
             PROVE  UrlKnown'
  BY DEF UrlFirst
<1>0. page \in Pages /\ w \in Writers /\ r \in Readers /\ msg \in Messages
  BY DEF Types
<1>a. ASSUME stage \in {"request", "sent", "serving", "lost"}, ~msg.reset
      PROVE  /\ UrlKnown
             /\ msg.headers # <<>> /\ msg.headers[1] \in Seq(Char)
             /\ UrlAt(page, w, msg.headers[1])
             /\ Written => Len(msg.headers[1]) >= PageSize \/ w.cur > Len(msg.headers[1])
  BY <1>a DEF UrlFirst, UrlKnown
(* The message and the page are as they were. *)
<1>b. ASSUME UNCHANGED <<page, w, msg>>, stage \in {"request", "sent", "serving", "lost"},
             Written' => Written
      PROVE  UrlKnown'
  BY <1>a, <1>b DEF UrlKnown, UrlAt
<1>1. ASSUME NEW u \in Urls, Call(u) PROVE UrlKnown'
  <2>1. msg'.headers = Append(<<>>, u) /\ stage' = "request" /\ u \in Seq(Char)
    BY <1>1, Plain, Fresh, HeaderAdded DEF Call, NoMessage
  <2>2. msg'.headers # <<>> /\ msg'.headers[1] = u
    BY <2>1
  <2>3. UrlAt(page', w', u)
    BY <1>0, <1>1, <2>1, CallUrl DEF Call
  <2> QED BY <2>1, <2>2, <2>3 DEF UrlKnown, UrlAt, Written
<1>2. ASSUME NEW d \in Headers, WriteHeader(d) PROVE UrlKnown'
  <2>1. msg'.headers = Append(msg.headers, d) /\ msg'.reset = msg.reset /\ d \in Seq(Char)
        /\ stage' = stage /\ d \in Seq(Glyph)
    BY <1>0, <1>2, Plain, HeaderAdded DEF WriteHeader
  <2>2. stage = "request" /\ ~msg.reset
    BY <1>2, <2>1 DEF WriteHeader, Writing
  <2>3. msg.headers \in Seq(Seq(Char))
    BY <1>0 DEF Messages
  <2>4. msg'.headers # <<>> /\ msg'.headers[1] = msg.headers[1]
    BY <1>a, <2>1, <2>2, <2>3, AppendProperties, EmptySeq, LenProperties
  <2>5. UrlAt(page', w', msg.headers[1])
    BY <1>0, <1>2, <1>a, <2>1, <2>2, AddHeaderUrl DEF WriteHeader
  <2> QED BY <1>a, <2>1, <2>2, <2>4, <2>5 DEF UrlKnown, UrlAt, Written
<1>3. ASSUME NEW d \in Payloads, WritePayload(d) PROVE UrlKnown'
  <2> DEFINE a == setPayload(page, w, d)
  <2>1. /\ d \in Seq(Glyph) /\ d \in Seq(Char \cup {TAB, NL}) /\ a.ok \in BOOLEAN
    BY Plain, SetPayloadOk
  <2>2. page' = a.page /\ w' = a.w /\ stage' = stage
        /\ msg' = [msg EXCEPT !.payload = d, !.size = msg.size + Len(d), !.told = a.ok]
    BY <1>3 DEF WritePayload
  <2>3. msg'.headers = msg.headers /\ msg'.reset = msg.reset
    <3> HIDE DEF a
    <3> QED BY <1>0, <2>2 DEF Messages
  <2>4. stage = "request" /\ ~msg.reset
    BY <1>3, <2>2, <2>3 DEF WritePayload, Writing
  <2>5. UrlAt(page', w', msg.headers[1])
    BY <1>0, <1>a, <2>1, <2>2, <2>4, SetPayloadUrl
  <2> HIDE DEF a
  <2> QED BY <1>a, <2>2, <2>3, <2>4, <2>5 DEF UrlKnown, UrlAt, Written
<1>4. CASE EndHeaders
  <2>1. stage = "request" /\ ~msg.reset /\ msg' = msg /\ stage' = stage
    BY <1>4 DEF EndHeaders, Writing
  <2>2. UrlAt(page', w', msg.headers[1])
    BY <1>0, <1>4, <1>a, <2>1, HeaderUrl DEF EndHeaders
  <2> QED BY <1>a, <2>1, <2>2 DEF UrlKnown, UrlAt, Written
<1>5. CASE ResetWriter
  BY <1>5, Fresh DEF ResetWriter, NoMessage
<1>6. CASE EndMessage
  <2>1. stage = "request" /\ ~msg.reset /\ msg' = msg
    BY <1>6 DEF EndMessage, Writing
  <2>2. UrlAt(page', w', msg.headers[1])
        /\ (Len(msg.headers[1]) >= PageSize \/ w'.cur > Len(msg.headers[1]))
    BY <1>0, <1>6, <1>a, <2>1, PayloadUrl DEF EndMessage
  <2> QED BY <1>a, <2>1, <2>2 DEF UrlKnown, UrlAt
<1>7. CASE TakeRequest
  BY <1>7, <1>b DEF TakeRequest, Written, Stages
<1>8. CASE LoseRequest
  BY <1>8, <1>b DEF LoseRequest, Written, Stages
<1>9. CASE ReadHeader \/ ReadPayload \/ SkipToPayload \/ SkipToEnd \/ ResetReader
  <2>1. UNCHANGED <<page, w, msg>> /\ Reading /\ (stage' = stage \/ stage' = "crashed")
    BY <1>9 DEF ReadHeader, ReadPayload, SkipToPayload, SkipToEnd, ResetReader, After
  <2> QED BY <1>b, <2>1 DEF Reading, Written
<1>10. CASE BeginAnswer \/ TakeAnswer \/ Idle
  BY <1>10 DEF BeginAnswer, TakeAnswer, Idle
<1>11. CASE UNCHANGED vars
  BY <1>11, <1>b DEF vars, Written
<1> QED BY <1>1, <1>2, <1>3, <1>4, <1>5, <1>6, <1>7, <1>8, <1>9, <1>10, <1>11
        DEF Next, EndReading, Reuse

-----------------------------------------------------------------------------
(* No callback runs at the start,                                          *)
LEMMA InitChosen == Init => ChosenFirst
BY DEF Init, ChosenFirst

(* and the one that runs was found by the search.                          *)
LEMMA ChosenStep ==
    Types /\ Turns /\ UrlFirst /\ ChosenFirst /\ [Next]_vars => ChosenFirst'
<1> SUFFICES ASSUME Types, Turns, UrlFirst, ChosenFirst, [Next]_vars, stage' = "serving"
             PROVE  (chosen \in FirstMatches(patterns, Asked) /\ Len(Asked) \in Nat)'
  BY DEF ChosenFirst
<1>1. CASE TakeRequest
  <2> DEFINE h == getHeader(page, NewReader)
             u == msg.headers[1]
  <2>1. /\ h.got # None /\ chosen' \in FirstMatches(patterns, Text(h.got))
        /\ UNCHANGED <<patterns, page, msg, w>> /\ stage = "sent"
    BY <1>1 DEF TakeRequest
  <2>2. Asked' = IF msg.reset THEN Text(h.got) ELSE u
    BY <2>1 DEF Asked, Text
  <2>3. Len(Text(h.got)) \in Nat
    <3>1. h.got \in ViewType
      BY Fresh, GetHeaderType DEF Types
    <3> DEFINE e == Found(page, 0, Marks)
               whole == [n \in 1..PageSize |-> page[n - 1]]
    <3>2. e \in 0..PageSize
      BY FoundType
    <3>3. h.got = View(0, e)
      <4> DEFINE k == [cur |-> e + 1, headed |-> TRUE, ended |-> TRUE]
                 x == [cur |-> e + 1, headed |-> page[e] = NL, ended |-> FALSE]
      <4>1. NewReader.cur = 0 /\ NewReader \in Readers /\ page \in Pages
        BY Fresh DEF NewReader, Types
      <4>2. \/ \E t : h = Got(None, NewReader, t)
            \/ h = Got(None, k, "page")
            \/ h = Got(View(0, e), x, "page")
        <5>1. LET e1 == Found(page, NewReader.cur, Marks) IN
              \/ \E t : h = Got(None, NewReader, t)
              \/ h = Got(None, [cur |-> e1 + 1, headed |-> TRUE, ended |-> TRUE], "page")
              \/ h = Got(View(NewReader.cur, e1),
                         [cur |-> e1 + 1, headed |-> page[e1] = NL, ended |-> FALSE], "page")
          BY <4>1, GetHeaderCases
        <5> QED BY <4>1, <5>1
      <4> HIDE DEF h, e, k, x
      <4> QED BY <2>1, <4>2, GotIs
    <3>4. whole \in Seq(Glyph) /\ Len(whole) = PageSize
      BY PageSizeAssumption DEF Types, Pages, Cells
    <3>5. Text(h.got) = SubSeq(whole, 1, e)
      <4> HIDE DEF h, e
      <4>1. h.got.from + 1 = 1 /\ h.got.to = e
        BY <3>3 DEF View
      <4> QED BY <4>1 DEF Text
    <3> HIDE DEF whole, e, h
    <3>6. 1 \in 1..Len(whole)+1 /\ e \in 1 - 1..Len(whole)
      BY <3>2, <3>4, PageSizeAssumption
    <3>7. \A i \in 1..e : whole[i] \in Glyph
      BY <3>2, <3>4, PageSizeAssumption
    <3>8. Len(SubSeq(whole, 1, e)) = e - 1 + 1
      BY <3>4, <3>6, <3>7, SubSeqProperties
    <3> QED BY <3>2, <3>5, <3>8, PageSizeAssumption
  <2>4. ~msg.reset => Text(h.got) = u
    <3> SUFFICES ASSUME ~msg.reset PROVE Text(h.got) = u
      OBVIOUS
    <3>1. /\ u \in Seq(Char) /\ UrlAt(page, w, u) /\ (Len(u) >= PageSize \/ w.cur > Len(u))
          /\ page \in Pages /\ w \in Writers
      BY <2>1 DEF UrlFirst, UrlKnown, Written, Stages, Types
    <3> HIDE DEF u
    <3> QED BY <2>1, <3>1, UrlIsRead
  <2> HIDE DEF h, u
  <2> QED BY <2>1, <2>2, <2>3, <2>4
<1>2. CASE stage = "serving" /\ UNCHANGED <<patterns, page, msg, chosen>>
  <2>1. Asked' = Asked
    BY <1>2 DEF Asked, Text
  <2> QED BY <1>2, <2>1 DEF ChosenFirst
<1>3. TakeRequest \/ (stage = "serving" /\ UNCHANGED <<patterns, page, msg, chosen>>)
  <2>1. ASSUME NEW u \in Urls, Call(u) PROVE FALSE
    BY <2>1 DEF Call
  <2>2. ASSUME NEW d \in Headers, WriteHeader(d) PROVE FALSE
    BY <2>2 DEF WriteHeader, Writing
  <2>3. ASSUME NEW d \in Payloads, WritePayload(d) PROVE FALSE
    BY <2>3 DEF WritePayload, Writing
  <2>4. CASE EndHeaders \/ ResetWriter \/ EndMessage \/ LoseRequest \/ BeginAnswer
             \/ TakeAnswer \/ Idle
    BY <2>4 DEF EndHeaders, ResetWriter, EndMessage, LoseRequest, BeginAnswer, TakeAnswer,
                Idle, Writing
  <2>5. CASE ReadHeader \/ ReadPayload
    BY <2>5 DEF ReadHeader, ReadPayload, After
  <2>6. CASE SkipToPayload \/ SkipToEnd \/ ResetReader
    BY <2>6 DEF SkipToPayload, SkipToEnd, ResetReader
  <2>7. CASE UNCHANGED vars
    BY <2>7 DEF vars
  <2> QED BY <2>1, <2>2, <2>3, <2>4, <2>5, <2>6, <2>7 DEF Next, EndReading, Reuse
<1> QED BY <1>1, <1>2, <1>3

(* What the search stops at is what MostSpecial asks for.                  *)
LEMMA ChosenSpecial == Types /\ ChosenFirst => MostSpecial
<1> SUFFICES ASSUME Types, ChosenFirst, stage = "serving"
    PROVE /\ Matches(chosen, Asked)
          /\ \A p \in patterns :
              Matches(p, Asked) /\ PatternTokens(p) # PatternTokens(chosen) =>
                LET a == PatternTokens(chosen)
                    b == PatternTokens(p)
                    i == CHOOSE k \in 1..Len(a) :
                           a[k] # b[k] /\ \A j \in 1..k-1 : a[j] = b[j]
                IN  a[i] = Tokens(Asked)[i] /\ b[i].kind \in {"any int", "any string"}
  BY DEF MostSpecial
<1> DEFINE u == Asked
<1> HIDE DEF u
<1>1. chosen \in FirstMatches(patterns, u) /\ Len(u) \in Nat
  BY DEF ChosenFirst, u
<1>2. Matches(chosen, u)
  BY <1>1 DEF FirstMatches
<1>3. ASSUME NEW p \in patterns, Matches(p, u), PatternTokens(p) # PatternTokens(chosen)
      PROVE LET a == PatternTokens(chosen)
                b == PatternTokens(p)
                i == CHOOSE k \in 1..Len(a) :
                       a[k] # b[k] /\ \A j \in 1..k-1 : a[j] = b[j]
            IN  a[i] = Tokens(u)[i] /\ b[i].kind \in {"any int", "any string"}
  <2> DEFINE a == PatternTokens(chosen)
             b == PatternTokens(p)
             i == CHOOSE k \in 1..Len(a) : a[k] # b[k] /\ \A j \in 1..k-1 : a[j] = b[j]
  <2>1. /\ \E k \in 1..Len(a) : a[k] # b[k] /\ \A j \in 1..k-1 : a[j] = b[j]
        /\ \A k \in 1..Len(a) :
             a[k] # b[k] /\ (\A j \in 1..k-1 : a[j] = b[j]) =>
               a[k] = Tokens(u)[k] /\ b[k].kind \in {"any int", "any string"}
    <3>1. \A q \in patterns : Len(q) \in Nat
      BY PatternsKnown
    <3>2. MoreSpecial(chosen, p, u)
      BY <1>1, <1>3, <3>1, FirstMatchSpecial
    <3> QED BY <3>2 DEF MoreSpecial
  <2> HIDE DEF a, b
  <2>2. i \in 1..Len(a) /\ a[i] # b[i] /\ \A j \in 1..i-1 : a[j] = b[j]
    BY <2>1
  <2> HIDE DEF i
  <2>3. a[i] = Tokens(u)[i] /\ b[i].kind \in {"any int", "any string"}
    BY <2>1, <2>2
  <2> QED BY <2>3 DEF a, b, i
<1> QED BY <1>2, <1>3 DEF u

(* Where the headers of a message that fits begin: f[n + 1] is where a     *)
(* header after the n-th would, or the payload.                            *)
Places(hs) == [1..Len(hs) + 1 -> 0..PageSize]

(* Between two headers is one mark, and after the last one.                *)
Offsets(f, hs) ==
    /\ f[1] = 0
    /\ \A k \in 1..Len(hs) : f[k + 1] = f[k] + Len(hs[k]) + 1
    /\ \A j, k \in 1..Len(hs) + 1 : j <= k => f[j] <= f[k]

(* The headers lie at their places, with TABs between them, and no other   *)
(* end before that of the last.                                            *)
HeadersAt(f, hs, pg) ==
    /\ \A k \in 1..Len(hs) : \A i \in 1..Len(hs[k]) : pg[f[k] + i - 1] = hs[k][i]
    /\ \A k \in 1..Len(hs) - 1 : pg[f[k + 1] - 1] = TAB
    /\ \A i \in 0..f[Len(hs) + 1] - 2 : pg[i] \notin {NL, NUL}

(* The payload lies between its two marks.                                 *)
PayloadAt(e, d, pg) ==
    /\ pg[e - 1] = NL
    /\ \A i \in 1..Len(d) : pg[e + i - 1] = d[i]
    /\ pg[e + Len(d)] = NUL

(* The writer stands after the headers, after their end, or has ended the  *)
(* message; the history counts what it wrote.                              *)
WriterAt(e, m, pg, v) ==
    /\ m.size = e - 1 + Len(m.payload)
    /\ v.started <=> m.headers # <<>>
    /\ \/ ~v.headed /\ ~v.ended /\ v.cur = e - 1 /\ m.payload = <<>>
       \/ v.headed /\ ~v.ended /\ v.cur = e /\ m.payload = <<>> /\ pg[e - 1] = NL
       \/ v.headed /\ v.ended /\ PayloadAt(e, m.payload, pg)

(* The reader was given the first headers, and stands before the next,     *)
(* before the payload, or is through.                                      *)
ReaderAt(f, hs, m, rd, g) ==
    LET n == Len(g.headers)
        e == f[Len(hs) + 1]
    IN  /\ n <= Len(hs)
        /\ \A j \in 1..n : g.headers[j] = View(f[j], f[j] + Len(hs[j]))
        /\ g.payload \in {None, View(e, e + Len(m.payload))}
        /\ ~g.refused /\ g.touched = "page"
        /\ \/ ~rd.headed /\ ~rd.ended /\ n < Len(hs) /\ rd.cur = f[n + 1]
           \/ rd.headed /\ (rd.ended \/ rd.cur = e) /\ (g.skipped \/ n = Len(hs))

(* The part of the page that holds the headers.                            *)
Layout(f, hs, pg) == Offsets(f, hs) /\ HeadersAt(f, hs, pg)

(* A message that fits is in the page as it was written, and its reader    *)
(* has got what is before its cursor.  This is WrittenIsRead with what     *)
(* makes it inductive: where in the page every part of the message lies.   *)
Whole ==
    Fits /\ ~msg.reset =>
        /\ Written => w.ended
        /\ stage # "crashed"
        /\ \E f \in Places(AsRead) :
             /\ Layout(f, AsRead, page)
             /\ WriterAt(f[Len(AsRead) + 1], msg, page, w)
             /\ Reading => ReaderAt(f, AsRead, msg, r, got)

(* The places are numbers that grow with the headers.                      *)
LEMMA PlacesIs ==
    ASSUME NEW hs \in Seq(Seq(Char)), hs # <<>>, NEW f \in Places(hs), Offsets(f, hs)
    PROVE  /\ Len(hs) \in Nat /\ Len(hs) >= 1
           /\ f[1] = 0 /\ f[Len(hs) + 1] \in 1..PageSize
           /\ \A k \in 1..Len(hs) + 1 : f[k] \in 0..PageSize /\ f[k] <= f[Len(hs) + 1]
           /\ \A k \in 1..Len(hs) :
                /\ Len(hs[k]) \in Nat /\ hs[k] \in Seq(Char)
                /\ f[k + 1] = f[k] + Len(hs[k]) + 1
                /\ f[k] + Len(hs[k]) + 1 <= f[Len(hs) + 1]
<1>1. Len(hs) \in Nat /\ Len(hs) >= 1
  BY EmptySeq
<1>2. \A k \in 1..Len(hs) : Len(hs[k]) \in Nat /\ hs[k] \in Seq(Char)
  BY <1>1
<1>3. \A k \in 1..Len(hs) + 1 : f[k] \in 0..PageSize /\ f[k] <= f[Len(hs) + 1]
  BY <1>1 DEF Places, Offsets
<1>4. f[1] = 0 /\ \A k \in 1..Len(hs) : f[k + 1] = f[k] + Len(hs[k]) + 1
  BY DEF Offsets
<1>5. \A k \in 1..Len(hs) : k + 1 \in 1..Len(hs) + 1
  BY <1>1
<1>6. \A k \in 1..Len(hs) : f[k] + Len(hs[k]) + 1 <= f[Len(hs) + 1]
  BY <1>3, <1>4, <1>5
<1>7. f[Len(hs) + 1] \in 1..PageSize
  <2>1. f[1] + Len(hs[1]) + 1 <= f[Len(hs) + 1] /\ Len(hs[1]) \in Nat
    BY <1>1, <1>2, <1>6
  <2>2. f[Len(hs) + 1] \in 0..PageSize
    BY <1>1, <1>3
  <2> QED BY <1>4, <2>1, <2>2, PageSizeAssumption
<1> QED BY <1>1, <1>2, <1>3, <1>4, <1>6, <1>7

(* A page that is the same up to the end of the headers holds them.        *)
LEMMA LayoutKept ==
    ASSUME NEW hs \in Seq(Seq(Char)), hs # <<>>, NEW f \in Places(hs), NEW pg, NEW pg2,
           Layout(f, hs, pg), \A i \in 0..f[Len(hs) + 1] - 2 : pg2[i] = pg[i]
    PROVE  Layout(f, hs, pg2)
<1> DEFINE n == Len(hs)
           e == f[n + 1]
<1>1. Offsets(f, hs) /\ HeadersAt(f, hs, pg)
  BY DEF Layout
<1>2. /\ n \in Nat /\ n >= 1 /\ e \in 1..PageSize
      /\ \A k \in 1..n + 1 : f[k] \in 0..PageSize /\ f[k] <= e
      /\ \A k \in 1..n : Len(hs[k]) \in Nat /\ f[k + 1] = f[k] + Len(hs[k]) + 1
                         /\ f[k] + Len(hs[k]) + 1 <= e
  BY <1>1, PlacesIs
<1> HIDE DEF n, e
<1>3. \A i \in 0..e - 2 : pg2[i] = pg[i]
  BY DEF e, n
<1>4. ASSUME NEW k \in 1..n, NEW i \in 1..Len(hs[k]) PROVE pg2[f[k] + i - 1] = hs[k][i]
  <2>1. f[k] \in Nat /\ Len(hs[k]) \in Nat /\ f[k] + Len(hs[k]) + 1 <= e
    BY <1>2, PageSizeAssumption
  <2>2. f[k] + i - 1 \in 0..e - 2
    <3>1. i \in Nat /\ i >= 1 /\ i <= Len(hs[k]) /\ e \in Nat
      BY <1>2, <1>4, <2>1, PageSizeAssumption
    <3> QED BY <2>1, <3>1
  <2>3. pg[f[k] + i - 1] = hs[k][i]
    BY <1>1, <1>4 DEF HeadersAt, n
  <2> QED BY <1>3, <2>2, <2>3
<1>5. ASSUME NEW k \in 1..n - 1 PROVE pg2[f[k + 1] - 1] = TAB
  <2>1. k + 1 \in 1..n
    BY <1>2
  <2>2. /\ f[k + 1] \in Nat /\ Len(hs[k + 1]) \in Nat /\ f[k + 1] + Len(hs[k + 1]) + 1 <= e
        /\ k \in 1..n
    BY <1>2, <2>1, PageSizeAssumption
  <2>3. f[k] \in Nat /\ Len(hs[k]) \in Nat /\ f[k + 1] = f[k] + Len(hs[k]) + 1
    BY <1>2, <2>2, PageSizeAssumption
  <2>4. f[k + 1] - 1 \in 0..e - 2
    <3> DEFINE x == f[k + 1]
    <3>1. e \in Nat
      BY <1>2, PageSizeAssumption
    <3>2. x \in Nat /\ x >= 1
      BY <2>2, <2>3
    <3>3. x + 1 <= e
      BY <2>2, <3>1
    <3> HIDE DEF x
    <3>4. x - 1 \in 0..e - 2
      BY <3>1, <3>2, <3>3
    <3> QED BY <3>4 DEF x
  <2>5. pg[f[k + 1] - 1] = TAB
    BY <1>1, <1>5 DEF HeadersAt, n
  <2> QED BY <1>3, <2>4, <2>5
<1>6. \A i \in 0..e - 2 : pg2[i] \notin {NL, NUL}
  BY <1>1, <1>3 DEF HeadersAt, n, e
<1> QED BY <1>1, <1>4, <1>5, <1>6 DEF Layout, HeadersAt, n, e

-----------------------------------------------------------------------------
(* The writer.                                                             *)

(* A writer that has not begun stands at a message without headers.        *)
LEMMA BlankWhole ==
    ASSUME NEW pg, NoMessage.size + 2 <= PageSize
    PROVE  \E f \in Places(<< <<>> >>) :
             /\ Layout(f, << <<>> >>, pg)
             /\ WriterAt(f[Len(<< <<>> >>) + 1], NoMessage, pg, NewWriter)
<1> DEFINE hs == << <<>> >>
           f == [k \in 1..2 |-> IF k = 1 THEN 0 ELSE 1]
<1>1. Len(hs) = 1 /\ hs[1] = <<>> /\ Len(hs[1]) = 0
  OBVIOUS
<1>2. f[1] = 0 /\ f[2] = 1
  OBVIOUS
<1>3. f \in [1..2 -> 0..PageSize]
  BY PageSizeAssumption
<1> HIDE DEF hs, f
<1>4. f \in Places(hs)
  BY <1>1, <1>3 DEF Places
<1>5. Offsets(f, hs)
  BY <1>1, <1>2 DEF Offsets
<1>6. HeadersAt(f, hs, pg)
  BY <1>1, <1>2 DEF HeadersAt
<1>7. WriterAt(1, NoMessage, pg, NewWriter)
  BY DEF WriterAt, NoMessage, NewWriter
<1>8. f[Len(hs) + 1] = 1
  BY <1>1, <1>2
<1> QED BY <1>4, <1>5, <1>6, <1>7, <1>8 DEF Layout, hs

(* The first header is laid out from the start of the page.                *)
LEMMA FirstHeaderWhole ==
    ASSUME NEW pg \in Pages, NEW v \in Writers, NEW d \in Seq(Char), NEW m,
           ~v.headed, ~v.ended, ~v.started, v.cur = 0,
           m.headers = <<d>>, m.size = Len(d), m.payload = <<>>, Len(d) + 2 <= PageSize
    PROVE  LET a == addHeader(pg, v, d) IN
           \E f \in Places(<<d>>) :
             /\ Layout(f, <<d>>, a.page)
             /\ WriterAt(f[Len(<<d>>) + 1], m, a.page, a.w)
<1> DEFINE a == addHeader(pg, v, d)
           hs == <<d>>
           e == Len(d) + 1
           f == [k \in 1..2 |-> IF k = 1 THEN 0 ELSE e]
<1>0. Len(d) \in Nat /\ d \in Seq(Glyph) /\ 0 < PageSize
  BY PageSizeAssumption DEF Glyph
<1>1. /\ a.w.started /\ ~a.w.headed /\ ~a.w.ended
      /\ \A i \in 1..Len(d) : 0 + i - 1 < PageSize => a.page[0 + i - 1] = d[i]
      /\ \/ 0 >= PageSize
         \/ 0 + Len(d) <= PageSize /\ a.w.cur = 0 + Len(d)
         \/ 0 + Len(d) > PageSize
  BY <1>0, AddHeaderCases
<1>2. Len(hs) = 1 /\ hs[1] = d /\ hs # <<>>
  OBVIOUS
<1>3. f[1] = 0 /\ f[2] = e
  OBVIOUS
<1>4. f \in [1..2 -> 0..PageSize]
  BY <1>0, PageSizeAssumption
<1> HIDE DEF hs, f, a
<1>5. a.w.cur = Len(d)
  BY <1>0, <1>1, PageSizeAssumption
<1>6. f \in Places(hs)
  BY <1>2, <1>4 DEF Places
<1>7. Offsets(f, hs)
  BY <1>0, <1>2, <1>3 DEF Offsets
<1>8. \A i \in 1..Len(d) : a.page[0 + i - 1] = d[i]
  BY <1>0, <1>1, PageSizeAssumption
<1>9. \A i \in 0..e - 2 : a.page[i] \notin {NL, NUL}
  <2> SUFFICES ASSUME NEW i \in 0..e - 2 PROVE a.page[i] \notin {NL, NUL}
    OBVIOUS
  <2>1. i + 1 \in 1..Len(d) /\ 0 + (i + 1) - 1 = i
    BY <1>0
  <2>2. a.page[i] = d[i + 1] /\ d[i + 1] \in Char
    BY <1>8, <2>1
  <2> QED BY <2>2, MarksDiffer
<1>10. HeadersAt(f, hs, a.page)
  BY <1>0, <1>2, <1>3, <1>8, <1>9 DEF HeadersAt
<1>11. WriterAt(e, m, a.page, a.w)
  <2>1. m.size = e - 1 + Len(m.payload) /\ m.headers # <<>>
    BY <1>0
  <2>2. a.w.cur = e - 1
    BY <1>0, <1>5
  <2> QED BY <1>1, <2>1, <2>2 DEF WriterAt
<1>12. f[Len(hs) + 1] = e
  BY <1>2, <1>3
<1> QED BY <1>6, <1>7, <1>10, <1>11, <1>12 DEF Layout, hs, a

(* A further header lies after a TAB,                                      *)
LEMMA HeaderAfterTab ==
    ASSUME NEW pg \in Pages, NEW v \in Writers, NEW d \in Seq(Glyph), NEW e \in Nat,
           v.cur = e - 1, v.started, ~v.headed, ~v.ended, e + Len(d) < PageSize
    PROVE  LET a == addHeader(pg, v, d) IN
           /\ a.w.started /\ ~a.w.headed /\ ~a.w.ended
           /\ \A i \in Cells : i < e - 1 => a.page[i] = pg[i]
           /\ a.page[e - 1] = TAB
           /\ \A i \in 1..Len(d) : e + i - 1 < PageSize => a.page[e + i - 1] = d[i]
           /\ a.w.cur = e + Len(d)
<1> DEFINE a == addHeader(pg, v, d)
<1>1. Len(d) \in Nat /\ v.cur # PageSize /\ v.cur \in Nat /\ v.cur + 1 = e
  <2>1. Len(d) \in Nat
    OBVIOUS
  <2>2. v.cur \in Nat
    BY PageSizeAssumption DEF Writers
  <2> QED BY <2>1, <2>2, PageSizeAssumption
<1>2. /\ v.cur = PageSize \/ (a.w.started /\ ~a.w.headed /\ ~a.w.ended)
      /\ v.cur = PageSize \/ a.page[v.cur] = TAB
      /\ v.cur = PageSize \/ \A i \in Cells : i < v.cur => a.page[i] = pg[i]
  BY <1>1, AddHeaderCases
<1>3. \/ v.cur = PageSize
      \/ \A i \in 1..Len(d) :
           (v.cur + 1) + i - 1 < PageSize => a.page[(v.cur + 1) + i - 1] = d[i]
  <2> SUFFICES ASSUME v.cur # PageSize, NEW i \in 1..Len(d), (v.cur + 1) + i - 1 < PageSize
               PROVE  a.page[(v.cur + 1) + i - 1] = d[i]
    OBVIOUS
  <2> DEFINE tab == Filled(pg, v.cur, <<TAB>>)
             k == (v.cur + 1) + i - 1
  <2>1. v.cur < PageSize
    BY <1>1, PageSizeAssumption DEF Writers
  <2>2. a.page = Filled(tab, v.cur + 1, d)
    <3>1. ~(v.ended \/ v.headed \/ (v.started /\ v.cur >= PageSize))
      BY <1>1, <2>1, PageSizeAssumption
    <3> QED BY <3>1 DEF addHeader
  <2> HIDE DEF tab, a
  <2>3. k \in Cells /\ k >= v.cur + 1 /\ k < v.cur + 1 + Len(d) /\ k - (v.cur + 1) + 1 = i
    BY <1>1, PageSizeAssumption DEF Cells
  <2> HIDE DEF k
  <2>4. Filled(tab, v.cur + 1, d)[k] = d[i]
    BY <2>3 DEF Filled
  <2> QED BY <2>2, <2>4 DEF k
<1>4. \/ v.cur = PageSize
      \/ v.cur + 1 >= PageSize /\ a.w.cur = v.cur + 1 - 1
      \/ v.cur + 1 + Len(d) <= PageSize /\ a.w.cur = v.cur + 1 + Len(d)
      \/ v.cur + 1 + Len(d) > PageSize /\ a.w.cur = PageSize
  BY <1>1, AddHeaderCases
<1> HIDE DEF a
<1>5. a.w.cur = e + Len(d)
  BY <1>1, <1>4, PageSizeAssumption
<1>6. \A i \in 1..Len(d) : e + i - 1 < PageSize => a.page[e + i - 1] = d[i]
  BY <1>1, <1>3
<1>7. \A i \in Cells : i < e - 1 => a.page[i] = pg[i]
  BY <1>1, <1>2
<1>8. a.page[e - 1] = TAB
  BY <1>1, <1>2
<1> QED BY <1>1, <1>2, <1>5, <1>6, <1>7, <1>8 DEF a

(* and extends the layout by one place.                                    *)
LEMMA NextHeaderWhole ==
    ASSUME NEW pg \in Pages, NEW v \in Writers, NEW hs \in Seq(Seq(Char)), hs # <<>>,
           NEW f \in Places(hs), Layout(f, hs, pg), NEW d \in Seq(Char),
           v.cur = f[Len(hs) + 1] - 1, v.started, ~v.headed, ~v.ended,
           f[Len(hs) + 1] + Len(d) + 2 <= PageSize
    PROVE  LET a == addHeader(pg, v, d)
               h2 == Append(hs, d)
           IN
           /\ a.w.started /\ ~a.w.headed /\ ~a.w.ended
           /\ a.w.cur = f[Len(hs) + 1] + Len(d)
           /\ \E f2 \in Places(h2) :
                Layout(f2, h2, a.page) /\ f2[Len(h2) + 1] = f[Len(hs) + 1] + Len(d) + 1
<1> DEFINE a == addHeader(pg, v, d)
           h2 == Append(hs, d)
           n == Len(hs)
           e == f[n + 1]
           e2 == e + Len(d) + 1
           f2 == [k \in 1..n + 2 |-> IF k <= n + 1 THEN f[k] ELSE e2]
<1>1. Offsets(f, hs) /\ HeadersAt(f, hs, pg)
  BY DEF Layout
<1>2. /\ n \in Nat /\ n >= 1 /\ e \in 1..PageSize /\ f[1] = 0
      /\ \A k \in 1..n + 1 : f[k] \in 0..PageSize /\ f[k] <= e
      /\ \A k \in 1..n : Len(hs[k]) \in Nat /\ f[k + 1] = f[k] + Len(hs[k]) + 1
  BY <1>1, PlacesIs
<1>3. /\ Len(h2) = n + 1 /\ h2 # <<>>
      /\ \A k \in 1..n : h2[k] = hs[k]
      /\ h2[n + 1] = d
  BY AppendProperties
<1>4. Len(d) \in Nat /\ d \in Seq(Glyph) /\ e \in Nat /\ e >= 1 /\ e2 \in Nat /\ e2 + 1 <= PageSize
      /\ v.cur = e - 1
  <2>1. Len(d) \in Nat /\ d \in Seq(Glyph)
    BY DEF Glyph
  <2> QED BY <1>2, <2>1, PageSizeAssumption
<1> HIDE DEF h2, n, e
<1>5. /\ a.w.started /\ ~a.w.headed /\ ~a.w.ended
      /\ \A i \in Cells : i < e - 1 => a.page[i] = pg[i]
      /\ a.page[e - 1] = TAB
      /\ \A i \in 1..Len(d) : e + i - 1 < PageSize => a.page[e + i - 1] = d[i]
      /\ a.w.cur = e + Len(d)
  <2>1. e + Len(d) < PageSize
    BY <1>4, PageSizeAssumption
  <2> QED BY <1>4, <2>1, HeaderAfterTab
<1>6. f2 \in Places(h2)
  <2>1. \A k \in 1..n + 2 : (IF k <= n + 1 THEN f[k] ELSE e2) \in 0..PageSize
    BY <1>2, <1>4, PageSizeAssumption
  <2>2. Len(h2) + 1 = n + 2
    BY <1>2, <1>3
  <2> QED BY <2>1, <2>2 DEF Places
<1>7. /\ \A k \in 1..n + 1 : f2[k] = f[k]
      /\ f2[n + 2] = e2 /\ f2[n + 1] = e
  BY <1>2 DEF e
<1> HIDE DEF f2, a
<1>8. Offsets(f2, h2)
  <2>1. f2[1] = 0
    BY <1>2, <1>7
  <2>2. ASSUME NEW k \in 1..Len(h2) PROVE f2[k + 1] = f2[k] + Len(h2[k]) + 1
    <3>1. CASE k <= n
      <4>1. k \in 1..n /\ k \in 1..n + 1 /\ k + 1 \in 1..n + 1
        BY <1>2, <2>2, <3>1
      <4>2. f2[k + 1] = f[k + 1] /\ f2[k] = f[k] /\ h2[k] = hs[k]
        BY <1>3, <1>7, <4>1
      <4>3. f[k + 1] = f[k] + Len(hs[k]) + 1
        BY <1>2, <4>1
      <4> QED BY <4>2, <4>3
    <3>2. CASE k = n + 1
      <4>1. k + 1 = n + 2
        BY <1>2, <3>2
      <4> QED BY <1>3, <1>7, <3>2, <4>1
    <3> QED BY <1>2, <1>3, <2>2, <3>1, <3>2
  <2>3. ASSUME NEW j \in 1..Len(h2) + 1, NEW k \in 1..Len(h2) + 1, j <= k
        PROVE  f2[j] <= f2[k]
    <3>1. j \in 1..n + 2 /\ k \in 1..n + 2
      BY <1>2, <1>3, <2>3
    <3>2. CASE k <= n + 1
      <4>1. j \in 1..n + 1 /\ k \in 1..n + 1
        BY <1>2, <2>3, <3>1, <3>2
      <4>2. f[j] <= f[k]
        BY <1>1, <2>3, <4>1 DEF Offsets, n
      <4> QED BY <1>7, <4>1, <4>2
    <3>3. CASE k = n + 2
      <4>1. j = n + 2 \/ j \in 1..n + 1
        BY <1>2, <3>1
      <4>2. CASE j = n + 2
        BY <1>4, <1>7, <3>3, <4>2
      <4>3. CASE j \in 1..n + 1
        <5>1. f2[j] = f[j] /\ f[j] <= e /\ f[j] \in Nat
          BY <1>2, <1>7, <4>3, PageSizeAssumption
        <5> QED BY <1>4, <1>7, <3>3, <5>1
      <4> QED BY <4>1, <4>2, <4>3
    <3> QED BY <1>2, <3>1, <3>2, <3>3
  <2> QED BY <2>1, <2>2, <2>3 DEF Offsets
<1>9. Layout(f, hs, a.page)
  <2>1. \A i \in 0..e - 2 : a.page[i] = pg[i]
    BY <1>4, <1>5, PageSizeAssumption DEF Cells
  <2> QED BY <2>1, LayoutKept DEF e, n
<1>10. HeadersAt(f2, h2, a.page)
  <2>0. HeadersAt(f, hs, a.page)
    BY <1>9 DEF Layout
  <2>1. ASSUME NEW k \in 1..Len(h2), NEW i \in 1..Len(h2[k])
        PROVE  a.page[f2[k] + i - 1] = h2[k][i]
    <3>1. CASE k <= n
      <4>1. k \in 1..n /\ k \in 1..n + 1
        BY <1>2, <2>1, <3>1
      <4>2. f2[k] = f[k] /\ h2[k] = hs[k]
        BY <1>3, <1>7, <4>1
      <4> QED BY <2>0, <2>1, <4>1, <4>2 DEF HeadersAt, n
    <3>2. CASE k = n + 1
      <4>1. f2[k] = e /\ h2[k] = d
        BY <1>3, <1>7, <3>2
      <4>2. i \in 1..Len(d) /\ e + i - 1 < PageSize
        BY <1>4, <2>1, <4>1, PageSizeAssumption
      <4> QED BY <1>5, <4>1, <4>2
    <3> QED BY <1>2, <1>3, <2>1, <3>1, <3>2
  <2>2. ASSUME NEW k \in 1..Len(h2) - 1 PROVE a.page[f2[k + 1] - 1] = TAB
    <3>1. k \in 1..n /\ k + 1 \in 1..n + 1 /\ f2[k + 1] = f[k + 1]
      BY <1>2, <1>3, <1>7, <2>2
    <3>2. CASE k = n
      BY <1>5, <3>1, <3>2 DEF e
    <3>3. CASE k # n
      <4>1. k \in 1..n - 1
        BY <1>2, <3>1, <3>3
      <4> QED BY <2>0, <3>1, <4>1 DEF HeadersAt, n
    <3> QED BY <3>2, <3>3
  <2>3. ASSUME NEW i \in 0..f2[Len(h2) + 1] - 2 PROVE a.page[i] \notin {NL, NUL}
    <3>1. Len(h2) + 1 = n + 2
      BY <1>2, <1>3
    <3>2. i \in 0..e2 - 2
      BY <1>7, <2>3, <3>1
    <3>3. CASE i <= e - 2
      <4>1. i \in 0..e - 2
        BY <1>4, <3>2, <3>3
      <4> QED BY <2>0, <4>1 DEF HeadersAt, e, n
    <3>4. CASE i = e - 1
      BY <1>5, <3>4, MarksDiffer
    <3>5. CASE i >= e
      <4> DEFINE j == i - e + 1
      <4>1. j \in 1..Len(d) /\ e + j - 1 = i /\ i < PageSize
        BY <1>4, <3>2, <3>5, PageSizeAssumption
      <4> HIDE DEF j
      <4>2. a.page[i] = d[j] /\ d[j] \in Char
        BY <1>5, <4>1
      <4> QED BY <4>2, MarksDiffer
    <3>6. i <= e - 2 \/ i = e - 1 \/ i >= e
      BY <1>4, <3>2
    <3> QED BY <3>3, <3>4, <3>5, <3>6
  <2> QED BY <2>1, <2>2, <2>3 DEF HeadersAt
<1>11. f2[Len(h2) + 1] = e2
  BY <1>2, <1>3, <1>7
<1> QED BY <1>5, <1>6, <1>8, <1>10, <1>11 DEF Layout, h2, a, e, n

(* Where a writer that has not ended its message stands.                   *)
AtEnd(e, pg, v) ==
    /\ ~v.ended
    /\ \/ ~v.headed /\ v.cur = e - 1
       \/ v.headed /\ v.cur = e /\ pg[e - 1] = NL

(* finalizeHeader of the writer ends the headers where they end.           *)
LEMMA HeaderEndWhole ==
    ASSUME NEW pg \in Pages, NEW v \in Writers, NEW e \in Nat, e >= 1, e < PageSize,
           AtEnd(e, pg, v)
    PROVE  LET a == finalizeHeader(pg, v) IN
           /\ a.w.started = v.started /\ a.w.headed /\ ~a.w.ended
           /\ a.w.cur = e /\ a.page[e - 1] = NL
           /\ \A i \in 0..e - 2 : a.page[i] = pg[i]
<1> DEFINE a == finalizeHeader(pg, v)
<1>1. \/ v.headed /\ a.page = pg /\ a.w = v
      \/ ~v.headed /\ (v.ended \/ v.cur = PageSize)
      \/ /\ ~v.headed
         /\ a.page[v.cur] = NL
         /\ \A i \in Cells : i # v.cur => a.page[i] = pg[i]
         /\ a.w.cur = v.cur + 1 /\ a.w.started = v.started /\ a.w.headed /\ ~a.w.ended
  BY FinalizeHeaderCases
<1> HIDE DEF a
<1>2. \A i \in 0..e - 2 : i \in Cells /\ i # e - 1
  BY PageSizeAssumption DEF Cells
<1>3. CASE v.headed
  BY <1>1, <1>3 DEF AtEnd, a
<1>4. CASE ~v.headed
  <2>1. v.cur = e - 1 /\ v.cur # PageSize /\ ~v.ended /\ v.cur + 1 = e
    BY <1>4, PageSizeAssumption DEF AtEnd
  <2> QED BY <1>1, <1>2, <1>4, <2>1 DEF a
<1> QED BY <1>3, <1>4

(* setPayload puts the payload after that end; an empty one leaves the     *)
(* message open.                                                           *)
LEMMA PayloadWhole ==
    ASSUME NEW pg \in Pages, NEW v \in Writers, NEW data \in Seq(Glyph), NEW e \in Nat,
           e >= 1, e + Len(data) + 1 <= PageSize, AtEnd(e, pg, v)
    PROVE  LET a == setPayload(pg, v, data) IN
           /\ a.w.started = v.started /\ a.w.headed
           /\ \/ data = <<>> /\ ~a.w.ended /\ a.w.cur = e /\ a.page[e - 1] = NL
              \/ data # <<>> /\ a.w.ended /\ PayloadAt(e, data, a.page)
           /\ \A i \in 0..e - 2 : a.page[i] = pg[i]
<1> DEFINE a == setPayload(pg, v, data)
           c == IF v.headed THEN v.cur ELSE v.cur + 1
<1>0. Len(data) \in Nat /\ PageSize \in Nat
  BY PageSizeAssumption
<1>1. c = e /\ ~v.ended /\ v.cur # PageSize
  BY <1>0 DEF AtEnd
<1>2. \/ v.ended \/ (~v.headed /\ v.cur = PageSize)
      \/ c = PageSize
      \/ /\ \A i \in Cells : i < v.cur => a.page[i] = pg[i]
         /\ ~v.headed => a.page[v.cur] = NL
         /\ a.w.started = v.started /\ a.w.headed
         /\ \/ data = <<>> /\ a.w.cur = c /\ ~a.w.ended
            \/ c + Len(data) >= PageSize
            \/ /\ data # <<>> /\ a.w.ended
               /\ \A i \in 1..Len(data) : a.page[c + i - 1] = data[i]
               /\ a.page[c + Len(data)] = NUL
  BY SetPayloadCases
<1> HIDE DEF a, c
<1>3. ~(c = PageSize) /\ ~(c + Len(data) >= PageSize)
  BY <1>0, <1>1
<1>4. /\ \A i \in Cells : i < v.cur => a.page[i] = pg[i]
      /\ ~v.headed => a.page[v.cur] = NL
      /\ a.w.started = v.started /\ a.w.headed
      /\ \/ data = <<>> /\ a.w.cur = e /\ ~a.w.ended
         \/ /\ data # <<>> /\ a.w.ended
            /\ \A i \in 1..Len(data) : a.page[e + i - 1] = data[i]
            /\ a.page[e + Len(data)] = NUL
  BY <1>1, <1>2, <1>3
<1>5. \A i \in 0..e - 2 : i \in Cells /\ i < v.cur
  BY <1>0 DEF Cells, AtEnd
<1>6. a.page[e - 1] = NL
  <2>1. CASE v.headed
    <3>1. e - 1 \in Cells /\ e - 1 < v.cur /\ pg[e - 1] = NL
      BY <1>0, <2>1 DEF Cells, AtEnd
    <3> QED BY <1>4, <3>1
  <2>2. CASE ~v.headed
    BY <1>4, <2>2 DEF AtEnd
  <2> QED BY <2>1, <2>2
<1>7. \A i \in 0..e - 2 : a.page[i] = pg[i]
  BY <1>4, <1>5
<1> QED BY <1>4, <1>6, <1>7 DEF PayloadAt, a

(* finalizePayload ends a message that was left open, with an empty        *)
(* payload.                                                                *)
LEMMA MessageEndWhole ==
    ASSUME NEW pg \in Pages, NEW v \in Writers, NEW e \in Nat, e >= 1, e + 1 <= PageSize,
           AtEnd(e, pg, v)
    PROVE  LET a == finalizePayload(pg, v) IN
           /\ a.w.started = v.started /\ a.w.headed /\ a.w.ended
           /\ PayloadAt(e, <<>>, a.page)
           /\ \A i \in 0..e - 2 : a.page[i] = pg[i]
<1> DEFINE a == finalizePayload(pg, v)
<1>0. PageSize \in Nat /\ \A i \in 0..e - 2 : i \in Cells /\ i # e - 1 /\ i # e
  BY PageSizeAssumption DEF Cells
<1>1. \/ v.ended \/ v.cur = PageSize
      \/ /\ v.headed
         /\ a.page[v.cur] = NUL
         /\ \A i \in Cells : i # v.cur => a.page[i] = pg[i]
         /\ a.w.started = v.started /\ a.w.headed /\ a.w.ended
      \/ /\ ~v.headed /\ v.cur = PageSize - 1
      \/ /\ ~v.headed
         /\ a.page[v.cur] = NL /\ a.page[v.cur + 1] = NUL
         /\ \A i \in Cells : i # v.cur /\ i # v.cur + 1 => a.page[i] = pg[i]
         /\ a.w.started = v.started /\ a.w.headed /\ a.w.ended
  BY FinalizePayloadCases
<1> HIDE DEF a
<1>2. Len(<<>>) = 0 /\ e + 0 = e
  OBVIOUS
<1>3. CASE v.headed
  <2>1. v.cur = e /\ v.cur # PageSize /\ ~v.ended /\ pg[e - 1] = NL /\ e - 1 \in Cells /\ e - 1 # e
    BY <1>0, <1>3 DEF AtEnd, Cells
  <2>2. /\ a.page[e] = NUL
        /\ \A i \in Cells : i # e => a.page[i] = pg[i]
        /\ a.w.started = v.started /\ a.w.headed /\ a.w.ended
    BY <1>1, <1>3, <2>1
  <2>3. a.page[e - 1] = NL
    BY <2>1, <2>2
  <2>4. PayloadAt(e, <<>>, a.page)
    BY <1>2, <2>2, <2>3 DEF PayloadAt
  <2> QED BY <1>0, <2>2, <2>4 DEF a
<1>4. CASE ~v.headed
  <2>1. v.cur = e - 1 /\ v.cur # PageSize /\ v.cur # PageSize - 1 /\ ~v.ended /\ v.cur + 1 = e
    BY <1>0, <1>4 DEF AtEnd
  <2>2. /\ a.page[e - 1] = NL /\ a.page[e] = NUL
        /\ \A i \in Cells : i # e - 1 /\ i # e => a.page[i] = pg[i]
        /\ a.w.started = v.started /\ a.w.headed /\ a.w.ended
    BY <1>1, <1>4, <2>1
  <2>3. PayloadAt(e, <<>>, a.page)
    BY <1>2, <2>2 DEF PayloadAt
  <2> QED BY <1>0, <2>2, <2>3 DEF a
<1> QED BY <1>3, <1>4

(* The page of a message that fits, once its writer has ended it.          *)
Complete(f, hs, d, pg) ==
    /\ Layout(f, hs, pg)
    /\ PayloadAt(f[Len(hs) + 1], d, pg)
    /\ f[Len(hs) + 1] + Len(d) < PageSize

(* A search from the start of a header stops at its end, and the mark      *)
(* there is the NL for the last one only.                                  *)
LEMMA HeaderFound ==
    ASSUME NEW pg \in Pages, NEW hs \in Seq(Seq(Char)), hs # <<>>, NEW f \in Places(hs),
           NEW d \in Seq(Char \cup {TAB, NL}), Complete(f, hs, d, pg), NEW k \in 1..Len(hs)
    PROVE  LET x == f[k] + Len(hs[k]) IN
           /\ f[k] \in Nat /\ f[k] < PageSize
           /\ x \in Cells /\ f[k + 1] = x + 1
           /\ Found(pg, f[k], Marks) = x
           /\ pg[x] # NUL
           /\ pg[x] = NL <=> k = Len(hs)
<1> DEFINE y == f[k]
           z == f[k + 1]
           l == Len(hs[k])
           x == y + l
           n == Len(hs)
           e == f[n + 1]
<1>1. Offsets(f, hs) /\ HeadersAt(f, hs, pg) /\ pg[e - 1] = NL /\ e + Len(d) < PageSize
  BY DEF Complete, Layout, PayloadAt
<1>2. /\ n \in Nat /\ n >= 1 /\ e \in 1..PageSize
      /\ y \in 0..PageSize /\ l \in Nat /\ hs[k] \in Seq(Char)
      /\ z = y + l + 1
      /\ y + l + 1 <= e
  BY <1>1, PlacesIs
<1>3. /\ \A i \in 1..l : pg[y + i - 1] = hs[k][i]
      /\ k \in 1..n - 1 => pg[z - 1] = TAB
  BY <1>1 DEF HeadersAt
<1>4. k = n => z = e
  OBVIOUS
<1>5. /\ k \in 1..n
      /\ \A i \in 1..l : hs[k][i] \in Char
  BY <1>2
<1> HIDE DEF n, e, y, z, l
<1>6. y \in Nat /\ e \in Nat /\ e <= PageSize /\ PageSize \in Nat
  BY <1>2, PageSizeAssumption
<1>7. x \in Cells /\ y < PageSize /\ z = x + 1 /\ z - 1 = x /\ x \in Nat /\ x >= y
  BY <1>2, <1>6 DEF Cells
<1>8. \A j \in y..x - 1 : pg[j] \notin Marks
  <2> SUFFICES ASSUME NEW j \in y..x - 1 PROVE pg[j] \notin Marks
    OBVIOUS
  <2> DEFINE i == j - y + 1
  <2>1. i \in 1..l /\ y + i - 1 = j
    BY <1>2, <1>6
  <2> HIDE DEF i
  <2>2. pg[j] = hs[k][i] /\ hs[k][i] \in Char
    BY <1>3, <1>5, <2>1
  <2> QED BY <2>2, ExchangeAssumption
<1> HIDE DEF x
<1>9. pg[x] = IF k = n THEN NL ELSE TAB
  <2>1. CASE k = n
    <3>1. e - 1 = x
      BY <1>4, <1>7, <2>1
    <3> QED BY <1>1, <2>1, <3>1
  <2>2. CASE k # n
    <3>1. k \in 1..n - 1
      BY <1>2, <1>5, <2>2
    <3> QED BY <1>3, <1>7, <2>2, <3>1
  <2> QED BY <2>1, <2>2
<1>10. pg[x] \in Marks
  BY <1>9 DEF Marks
<1>11. Found(pg, y, Marks) = x
  BY <1>6, <1>7, <1>8, <1>10, FoundIs
<1> QED BY <1>6, <1>7, <1>9, <1>11, MarksDiffer DEF x, n, y, z, l

(* A search for the NL stops before the payload.                           *)
LEMMA LineFound ==
    ASSUME NEW pg \in Pages, NEW hs \in Seq(Seq(Char)), hs # <<>>, NEW f \in Places(hs),
           NEW d \in Seq(Char \cup {TAB, NL}), Complete(f, hs, d, pg), NEW k \in 1..Len(hs)
    PROVE  /\ Found(pg, f[k], {NL}) = f[Len(hs) + 1] - 1
           /\ f[Len(hs) + 1] - 1 \in Cells
<1> DEFINE n == Len(hs)
           e == f[n + 1]
<1>1. Offsets(f, hs) /\ HeadersAt(f, hs, pg) /\ pg[e - 1] = NL /\ e + Len(d) < PageSize
  BY DEF Complete, Layout, PayloadAt
<1>2. /\ e \in 1..PageSize /\ f[k] \in 0..PageSize /\ Len(hs[k]) \in Nat
      /\ f[k] + Len(hs[k]) + 1 <= e
  BY <1>1, PlacesIs
<1>3. \A i \in 0..e - 2 : pg[i] \notin {NL, NUL}
  BY <1>1 DEF HeadersAt
<1> HIDE DEF e, n
<1>4. e - 1 \in Cells /\ f[k] \in Nat /\ e - 1 >= f[k]
  BY <1>2, PageSizeAssumption DEF Cells
<1>5. \A j \in f[k]..(e - 1) - 1 : pg[j] \notin {NL}
  <2>1. \A j \in f[k]..(e - 1) - 1 : j \in 0..e - 2
    BY <1>2, <1>4
  <2> QED BY <1>3, <2>1
<1>6. Found(pg, f[k], {NL}) = e - 1
  BY <1>1, <1>4, <1>5, FoundIs DEF e
<1> QED BY <1>4, <1>6 DEF e, n

(* A search for the NUL stops after the payload, and there is always one   *)
(* to find.                                                                *)
LEMMA EndFound ==
    ASSUME NEW pg \in Pages, NEW hs \in Seq(Seq(Char)), hs # <<>>, NEW f \in Places(hs),
           NEW d \in Seq(Char \cup {TAB, NL}), Complete(f, hs, d, pg)
    PROVE  LET e == f[Len(hs) + 1] IN
           /\ e \in Nat /\ e >= 1 /\ e < PageSize /\ Len(d) \in Nat
           /\ Found(pg, e, {NUL}) = e + Len(d) /\ e + Len(d) # PageSize
           /\ \A at \in 0..e : Found(pg, at, {NUL}) # PageSize
<1> DEFINE e == f[Len(hs) + 1]
<1>1. Offsets(f, hs) /\ PayloadAt(e, d, pg) /\ e + Len(d) < PageSize
  BY DEF Complete, Layout
<1>2. e \in 1..PageSize /\ Len(d) \in Nat
  BY <1>1, PlacesIs
<1> HIDE DEF e
<1>3. /\ e \in Nat /\ e >= 1 /\ e < PageSize /\ e + Len(d) \in Cells /\ e + Len(d) >= e
      /\ e + Len(d) # PageSize
  BY <1>1, <1>2, PageSizeAssumption DEF Cells
<1>4. \A j \in e..(e + Len(d)) - 1 : pg[j] \notin {NUL}
  <2> SUFFICES ASSUME NEW j \in e..(e + Len(d)) - 1 PROVE pg[j] \notin {NUL}
    OBVIOUS
  <2> DEFINE i == j - e + 1
  <2>1. i \in 1..Len(d) /\ e + i - 1 = j
    BY <1>2, <1>3
  <2> HIDE DEF i
  <2>2. pg[j] = d[i] /\ d[i] \in Char \cup {TAB, NL}
    BY <1>1, <2>1 DEF PayloadAt
  <2> QED BY <2>2, MarksDiffer
<1>5. pg[e + Len(d)] = NUL
  BY <1>1 DEF PayloadAt
<1>6. Found(pg, e, {NUL}) = e + Len(d)
  BY <1>3, <1>4, <1>5, FoundIs
<1>7. ASSUME NEW at \in 0..e PROVE Found(pg, at, {NUL}) # PageSize
  <2>1. at \in Nat /\ e + Len(d) >= at
    BY <1>2, <1>3, <1>7
  <2>2. \/ \A i \in Cells : i >= at => pg[i] \notin {NUL}
        \/ Found(pg, at, {NUL}) \in Cells
    BY <2>1, FoundFirst
  <2>3. PageSize \notin Cells
    BY PageSizeAssumption DEF Cells
  <2> QED BY <1>3, <1>5, <2>1, <2>2, <2>3
<1> QED BY <1>2, <1>3, <1>6, <1>7 DEF e

(* A new reader stands before the first header.                            *)
LEMMA ReaderStart ==
    ASSUME NEW hs \in Seq(Seq(Char)), hs # <<>>, NEW f \in Places(hs), Offsets(f, hs), NEW m, NEW g,
           g.headers = <<>>, g.payload = None, ~g.refused, g.touched = "page"
    PROVE  ReaderAt(f, hs, m, NewReader, g)
<1>1. Len(hs) \in Nat /\ Len(hs) >= 1 /\ f[1] = 0
  BY PlacesIs
<1>2. Len(g.headers) = 0 /\ f[0 + 1] = 0
  BY <1>1
<1>3. ~NewReader.headed /\ ~NewReader.ended /\ NewReader.cur = 0
  BY DEF NewReader
<1> QED BY <1>1, <1>2, <1>3 DEF ReaderAt

(* A view of the page is not None.                                         *)
LEMMA ViewIs ==
    ASSUME NEW from, NEW to \in Nat
    PROVE  View(from, to) # None
<1>1. View(from, to).to = to /\ None.to = -1
  BY DEF View, None
<1> QED BY <1>1

(* getHeader gives the next header of a whole message,                     *)
LEMMA ReadHeaderWhole ==
    ASSUME NEW pg \in Pages, NEW hs \in Seq(Seq(Char)), hs # <<>>, NEW f \in Places(hs),
           NEW m \in Messages, Complete(f, hs, m.payload, pg),
           NEW rd \in Readers, NEW g \in Gots, ReaderAt(f, hs, m, rd, g),
           NEW g2 \in Gots, NEW h, h = getHeader(pg, rd),
           g2.headers = IF h.got = None THEN g.headers ELSE Append(g.headers, h.got),
           g2.payload = g.payload, g2.refused <=> g.refused, g2.skipped <=> g.skipped,
           g2.touched = IF g.touched = "page" THEN h.touched ELSE g.touched
    PROVE  ReaderAt(f, hs, m, h.r, g2) /\ h.touched = "page" /\ (~rd.headed => h.got # None)
<1> DEFINE n == Len(g.headers)
           l == Len(hs)
<1>1. g.headers \in Seq(ViewType) /\ n \in Nat /\ l \in Nat /\ m.payload \in Seq(Char \cup {TAB, NL})
  BY DEF Gots, Messages
<1>2. g.touched = "page" /\ ~g.refused /\ n <= l
      /\ \A j \in 1..n : g.headers[j] = View(f[j], f[j] + Len(hs[j]))
      /\ g.payload \in {None, View(f[l + 1], f[l + 1] + Len(m.payload))}
  BY DEF ReaderAt
<1>3. CASE rd.headed
  <2>1. h = Got(None, rd, "page")
    BY <1>3, GetHeaderCases
  <2>2. h.got = None /\ h.r = rd /\ h.touched = "page"
    BY <2>1, GotIs
  <2>3. g2.headers = g.headers /\ g2.touched = "page"
    BY <1>2, <2>2
  <2> QED BY <1>3, <2>2, <2>3 DEF ReaderAt
<1>4. CASE ~rd.headed
  <2> DEFINE k == n + 1
             x == f[k] + Len(hs[k])
             e == Found(pg, rd.cur, Marks)
             r2 == [cur |-> e + 1, headed |-> pg[e] = NL, ended |-> FALSE]
  <2>1. ~rd.ended /\ n < l /\ rd.cur = f[k]
    BY <1>4 DEF ReaderAt
  <2>2. k \in 1..l
    BY <1>1, <2>1
  <2>3. /\ f[k] < PageSize
        /\ x \in Cells /\ f[k + 1] = x + 1
        /\ Found(pg, f[k], Marks) = x
        /\ pg[x] # NUL
        /\ pg[x] = NL <=> k = l
    <3> HIDE DEF k
    <3> QED BY <1>1, <2>2, HeaderFound
  <2>4. e = x /\ e \in Nat /\ e # PageSize /\ pg[e] # NUL
    BY <2>1, <2>3, PageSizeAssumption DEF Cells
  <2>5. rd.cur < PageSize /\ rd.cur # PageSize
    BY <2>1, <2>3, PageSizeAssumption DEF Readers
  <2> HIDE DEF x
  <2>6. h = Got(View(rd.cur, e), r2, "page")
    BY <1>4, <2>1, <2>4, <2>5, GetHeaderCases
  <2> HIDE DEF r2, e
  <2>7. h.got = View(f[k], x) /\ h.r = r2 /\ h.touched = "page"
    BY <2>1, <2>4, <2>6, GotIs
  <2>8. h.got # None
    BY <2>4, <2>7, ViewIs
  <2>9. r2.cur = x + 1 /\ (r2.headed <=> k = l) /\ ~r2.ended
    BY <2>3, <2>4 DEF r2
  <2>10. /\ Len(g2.headers) = k
         /\ g2.headers[k] = View(f[k], x)
         /\ \A j \in 1..n : g2.headers[j] = g.headers[j]
         /\ g2.touched = "page"
    <3>1. g2.headers = Append(g.headers, View(f[k], x)) /\ g2.touched = "page"
      BY <1>2, <2>7, <2>8
    <3> DEFINE v == View(f[k], x)
    <3> HIDE DEF v
    <3>2. /\ Len(Append(g.headers, v)) = n + 1
          /\ Append(g.headers, v)[n + 1] = v
          /\ \A j \in 1..n : Append(g.headers, v)[j] = g.headers[j]
      BY <1>1, AppendProperties
    <3> QED BY <3>1, <3>2 DEF v
  <2>11. \A j \in 1..Len(g2.headers) : g2.headers[j] = View(f[j], f[j] + Len(hs[j]))
    <3> SUFFICES ASSUME NEW j \in 1..k PROVE g2.headers[j] = View(f[j], f[j] + Len(hs[j]))
      BY <2>10
    <3>1. CASE j = k
      BY <2>10, <3>1 DEF x
    <3>2. CASE j # k
      <4>1. j \in 1..n
        BY <1>1, <3>2
      <4> QED BY <1>2, <2>10, <4>1
    <3> QED BY <3>1, <3>2
  <2>12. \/ ~r2.headed /\ k < l /\ r2.cur = f[k + 1]
         \/ r2.headed /\ k = l /\ r2.cur = f[l + 1]
    BY <1>1, <2>2, <2>3, <2>9
  <2>13. k <= l
    BY <1>1, <2>2
  <2> HIDE DEF k
  <2> QED BY <1>2, <2>7, <2>8, <2>9, <2>10, <2>11, <2>12, <2>13 DEF ReaderAt
<1> QED BY <1>3, <1>4

(* finalizeHeader of the reader goes to its payload,                       *)
LEMMA SkipHeadersWhole ==
    ASSUME NEW pg \in Pages, NEW hs \in Seq(Seq(Char)), hs # <<>>, NEW f \in Places(hs),
           NEW m \in Messages, Complete(f, hs, m.payload, pg),
           NEW rd \in Readers, NEW g \in Gots, ReaderAt(f, hs, m, rd, g)
    PROVE  LET h == SkipHeaders(pg, rd) IN
           /\ h.touched = "page" /\ h.r.headed
           /\ rd.headed => h.r = rd
           /\ ~rd.headed => ~h.r.ended
           /\ h.r.ended \/ h.r.cur = f[Len(hs) + 1]
<1> DEFINE h == SkipHeaders(pg, rd)
           e == Found(pg, rd.cur, {NL})
           r2 == [cur |-> e + 1, headed |-> TRUE, ended |-> FALSE]
           n == Len(g.headers)
<1>1. CASE rd.headed
  <2>1. h = Got(None, rd, "page")
    BY <1>1, SkipHeadersCases
  <2>2. h.r = rd /\ h.touched = "page"
    BY <2>1, GotIs
  <2> QED BY <1>1, <2>2 DEF ReaderAt
<1>2. CASE ~rd.headed
  <2>1. ~rd.ended /\ n < Len(hs) /\ rd.cur = f[n + 1]
    BY <1>2 DEF ReaderAt
  <2>2. n + 1 \in 1..Len(hs) /\ m.payload \in Seq(Char \cup {TAB, NL})
    BY <2>1 DEF Gots, Messages
  <2>3. f[n + 1] < PageSize
    BY <2>2, HeaderFound
  <2>4. Found(pg, f[n + 1], {NL}) = f[Len(hs) + 1] - 1 /\ f[Len(hs) + 1] - 1 \in Cells
    BY <2>2, LineFound
  <2> DEFINE z == f[Len(hs) + 1]
  <2>5. z \in 1..PageSize
    BY PlacesIs DEF Complete, Layout
  <2>6. e = z - 1
    BY <2>1, <2>4
  <2> HIDE DEF z, e
  <2>7. e # PageSize /\ e + 1 = z
    BY <2>5, <2>6, PageSizeAssumption
  <2>8. rd.cur < PageSize /\ rd.cur # PageSize
    BY <2>1, <2>3, PageSizeAssumption DEF Readers
  <2>9. h = Got(None, r2, "page")
    BY <1>2, <2>1, <2>7, <2>8, SkipHeadersCases DEF e
  <2> HIDE DEF h
  <2>10. h.r = r2 /\ h.touched = "page"
    BY <2>9, GotIs
  <2> QED BY <1>2, <2>7, <2>10 DEF z, h
<1> QED BY <1>1, <1>2

(* and leaves what was got,                                                *)
LEMMA SkipToPayloadWhole ==
    ASSUME NEW pg \in Pages, NEW hs \in Seq(Seq(Char)), hs # <<>>, NEW f \in Places(hs),
           NEW m \in Messages, Complete(f, hs, m.payload, pg),
           NEW rd \in Readers, NEW g \in Gots, ReaderAt(f, hs, m, rd, g),
           NEW g2 \in Gots, NEW h, h = SkipHeaders(pg, rd),
           g2.headers = g.headers, g2.payload = g.payload, g2.refused <=> g.refused,
           g2.skipped <=> g.skipped \/ ~rd.headed,
           g2.touched = IF g.touched = "page" THEN h.touched ELSE g.touched
    PROVE  ReaderAt(f, hs, m, h.r, g2) /\ h.touched = "page"
<1>1. /\ h.touched = "page" /\ h.r.headed
      /\ rd.headed => h.r = rd
      /\ h.r.ended \/ h.r.cur = f[Len(hs) + 1]
  BY SkipHeadersWhole
<1>2. g.touched = "page"
  BY DEF ReaderAt
<1>3. g2.skipped \/ Len(g.headers) = Len(hs)
  BY DEF ReaderAt
<1> QED BY <1>1, <1>2, <1>3 DEF ReaderAt

(* getPayload gives the payload, once,                                     *)
LEMMA ReadPayloadWhole ==
    ASSUME NEW pg \in Pages, NEW hs \in Seq(Seq(Char)), hs # <<>>, NEW f \in Places(hs),
           NEW m \in Messages, Complete(f, hs, m.payload, pg),
           NEW rd \in Readers, NEW g \in Gots, ReaderAt(f, hs, m, rd, g),
           NEW g2 \in Gots, NEW p \in getPayload(pg, rd),
           g2.headers = g.headers, g2.payload = IF p.got = None THEN g.payload ELSE p.got,
           g2.refused <=> g.refused \/ (p.got = None /\ ~rd.ended),
           g2.skipped <=> g.skipped \/ ~rd.headed,
           g2.touched = IF g.touched = "page" THEN p.touched ELSE g.touched
    PROVE  ReaderAt(f, hs, m, p.r, g2) /\ p.touched = "page"
<1> DEFINE h == SkipHeaders(pg, rd)
           e == f[Len(hs) + 1]
           d == m.payload
           t == Found(pg, h.r.cur, {NUL})
           r2 == [cur |-> t, headed |-> TRUE, ended |-> TRUE]
<1>1. /\ h.touched = "page" /\ h.r.headed
      /\ rd.headed => h.r = rd
      /\ ~rd.headed => ~h.r.ended
      /\ h.r.ended \/ h.r.cur = e
  BY SkipHeadersWhole
<1>2. g.touched = "page" /\ ~g.refused /\ (rd.ended => rd.headed)
  BY DEF ReaderAt
<1>3. g2.skipped \/ Len(g.headers) = Len(hs)
  BY DEF ReaderAt
<1>4. d \in Seq(Char \cup {TAB, NL})
  BY DEF Messages
<1>5. /\ e \in Nat /\ e < PageSize /\ Len(d) \in Nat
      /\ Found(pg, e, {NUL}) = e + Len(d) /\ e + Len(d) # PageSize
  BY <1>4, EndFound
<1>6. \/ p = Got(None, h.r, h.touched) /\ (rd.ended \/ ~h.r.headed)
      \/ ~rd.ended /\ h.r.cur >= PageSize
      \/ ~rd.ended /\ t = PageSize
      \/ ~rd.ended /\ p = Got(View(h.r.cur, t), r2, IF t = PageSize THEN "past" ELSE h.touched)
  BY GetPayloadCases
<1> HIDE DEF e, h, d
<1>7. CASE rd.ended
  <2>1. p.got = None /\ p.r = rd /\ p.touched = "page"
    BY <1>1, <1>2, <1>6, <1>7, GotIs
  <2> QED BY <1>2, <1>7, <2>1 DEF ReaderAt
<1>8. CASE ~rd.ended
  <2>1. h.r.cur = e
    BY <1>1, <1>8
  <2>2. t = e + Len(d) /\ t # PageSize /\ ~(h.r.cur >= PageSize)
    BY <1>5, <2>1, PageSizeAssumption
  <2> HIDE DEF t
  <2>3. p = Got(View(e, e + Len(d)), r2, "page")
    BY <1>1, <1>6, <1>8, <2>1, <2>2
  <2>4. p.got = View(e, e + Len(d)) /\ p.r = r2 /\ p.touched = "page"
    BY <2>3, GotIs
  <2>5. p.got # None
    BY <1>5, <2>4, ViewIs
  <2>6. r2.headed /\ r2.ended
    OBVIOUS
  <2> HIDE DEF r2
  <2> QED BY <1>2, <1>3, <2>4, <2>5, <2>6 DEF ReaderAt, e, d
<1> QED BY <1>7, <1>8

(* and finalizePayload of the reader gives nothing more.                   *)
LEMMA SkipToEndWhole ==
    ASSUME NEW pg \in Pages, NEW hs \in Seq(Seq(Char)), hs # <<>>, NEW f \in Places(hs),
           NEW m \in Messages, Complete(f, hs, m.payload, pg),
           NEW rd \in Readers, NEW g \in Gots, ReaderAt(f, hs, m, rd, g),
           NEW g2 \in Gots, NEW h, h = SkipPayload(pg, rd),
           g2.headers = g.headers, g2.payload = g.payload, g2.refused <=> g.refused,
           g2.skipped <=> g.skipped \/ ~rd.headed,
           g2.touched = IF g.touched = "page" THEN h.touched ELSE g.touched
    PROVE  ReaderAt(f, hs, m, h.r, g2) /\ h.touched = "page"
<1> DEFINE e == f[Len(hs) + 1]
           r2 == [cur |-> PageSize, headed |-> TRUE, ended |-> TRUE]
           past == IF rd.cur < PageSize /\ Found(pg, rd.cur, {NUL}) = PageSize
                   THEN "past" ELSE "page"
<1>1. g.touched = "page" /\ (g2.skipped \/ Len(g.headers) = Len(hs))
  BY DEF ReaderAt
<1>2. CASE rd.ended
  <2>1. h = Got(None, rd, "page")
    BY <1>2, SkipPayloadCases
  <2>2. h.r = rd /\ h.touched = "page"
    BY <2>1, GotIs
  <2> QED BY <1>1, <1>2, <2>2 DEF ReaderAt
<1>3. CASE ~rd.ended
  <2>1. /\ e \in Nat /\ e < PageSize
        /\ \A at \in 0..e : Found(pg, at, {NUL}) # PageSize
    BY EndFound DEF Messages
  <2>2. rd.cur \in 0..e
    <3>1. CASE ~rd.headed
      <4> DEFINE k == Len(g.headers) + 1
      <4>1. k \in 1..Len(hs) /\ rd.cur = f[k]
        BY <3>1 DEF ReaderAt, Gots
      <4>2. k \in 1..Len(hs) + 1
        BY <4>1
      <4>3. f[k] \in 0..PageSize /\ f[k] <= e
        BY <4>2, PlacesIs DEF Complete, Layout
      <4> HIDE DEF e, k
      <4> QED BY <2>1, <4>1, <4>3, PageSizeAssumption
    <3>2. CASE rd.headed
      BY <1>3, <2>1, <3>2 DEF ReaderAt
    <3> QED BY <3>1, <3>2
  <2>3. rd.cur < PageSize /\ rd.cur # PageSize
    BY <2>1, <2>2, PageSizeAssumption
  <2>4. past = "page"
    BY <2>1, <2>2
  <2>5. h = Got(None, r2, past)
    BY <1>3, <2>3, SkipPayloadCases
  <2> HIDE DEF past, r2, e
  <2>6. h.r = r2 /\ h.touched = "page"
    BY <2>4, <2>5, GotIs
  <2>7. r2.headed /\ r2.ended
    BY DEF r2
  <2> QED BY <1>1, <2>6, <2>7 DEF ReaderAt
<1> QED BY <1>2, <1>3

(* The headers as a reader finds them are never none.                      *)
LEMMA AsReadType ==
    ASSUME Types
    PROVE  /\ AsRead \in Seq(Seq(Char)) /\ AsRead # <<>>
           /\ msg.headers \in Seq(Seq(Char)) /\ msg.size \in Nat
           /\ msg.payload \in Seq(Char \cup {TAB, NL})
<1>1. msg.headers \in Seq(Seq(Char)) /\ msg.size \in Nat /\ msg.payload \in Seq(Char \cup {TAB, NL})
  BY DEF Types, Messages
<1>2. << <<>> >> \in Seq(Seq(Char)) /\ << <<>> >> # <<>>
  OBVIOUS
<1> QED BY <1>1, <1>2 DEF AsRead

(* A writer at work.                                                       *)
LEMMA WholePages ==
    ASSUME Types, Whole, Fits, ~msg.reset
    PROVE  \E f \in Places(AsRead) :
             LET e == f[Len(AsRead) + 1] IN
             /\ Layout(f, AsRead, page) /\ WriterAt(e, msg, page, w)
             /\ Reading => ReaderAt(f, AsRead, msg, r, got)
             /\ e \in Nat /\ e >= 1 /\ e + Len(msg.payload) + 1 <= PageSize
             /\ ~w.ended => AtEnd(e, page, w) /\ msg.payload = <<>>
             /\ w.ended => w.headed /\ Complete(f, AsRead, msg.payload, page)
<1>1. PICK f \in Places(AsRead) :
             /\ Layout(f, AsRead, page) /\ WriterAt(f[Len(AsRead) + 1], msg, page, w)
             /\ Reading => ReaderAt(f, AsRead, msg, r, got)
  BY DEF Whole
<1> DEFINE e == f[Len(AsRead) + 1]
<1>2. e \in 1..PageSize
  BY <1>1, AsReadType, PlacesIs DEF Layout
<1>3. Len(msg.payload) \in Nat /\ msg.size = e - 1 + Len(msg.payload)
  BY <1>1, AsReadType DEF WriterAt
<1>4. msg.size + 2 <= PageSize
  BY DEF Fits
<1>5. ~w.ended => AtEnd(e, page, w) /\ msg.payload = <<>>
  BY <1>1 DEF WriterAt, AtEnd
<1>6. w.ended => w.headed /\ PayloadAt(e, msg.payload, page)
  BY <1>1 DEF WriterAt
<1> HIDE DEF e
<1>7. e \in Nat /\ e >= 1 /\ e + Len(msg.payload) + 1 <= PageSize /\ e + Len(msg.payload) < PageSize
  BY <1>2, <1>3, <1>4, PageSizeAssumption
<1>8. w.ended => Complete(f, AsRead, msg.payload, page)
  BY <1>1, <1>6, <1>7 DEF Complete, e
<1> QED BY <1>1, <1>5, <1>6, <1>7, <1>8 DEF e

(* To show Whole while nobody reads, it is enough to lay out the message.  *)
LEMMA WriterWhole ==
    ASSUME ~Reading', stage' # "crashed", Written' => w'.ended,
           NEW f \in Places(AsRead'), Layout(f, AsRead', page'),
           WriterAt(f[Len(AsRead') + 1], msg', page', w')
    PROVE  Whole'
BY DEF Whole

(* To show it after a step of the reader, it is enough to say where the    *)
(* reader stands.                                                          *)
LEMMA ReaderWhole ==
    ASSUME Types, Whole, Fits, ~msg.reset, w.ended, UNCHANGED <<page, w, msg>>, stage' # "crashed",
           \A f \in Places(AsRead) :
             /\ Complete(f, AsRead, msg.payload, page)
             /\ Reading => ReaderAt(f, AsRead, msg, r, got)
             => ReaderAt(f, AsRead, msg, r', got')
    PROVE  Whole'
<1>1. PICK f \in Places(AsRead) :
             /\ Layout(f, AsRead, page) /\ WriterAt(f[Len(AsRead) + 1], msg, page, w)
             /\ Reading => ReaderAt(f, AsRead, msg, r, got)
             /\ Complete(f, AsRead, msg.payload, page)
  BY WholePages
<1>2. ReaderAt(f, AsRead, msg, r', got')
  BY <1>1
<1>3. AsRead' = AsRead /\ page' = page /\ w' = w /\ msg' = msg
  BY DEF AsRead
<1> QED BY <1>1, <1>2, <1>3 DEF Whole

(* Whole holds at the start,                                               *)
LEMMA InitWhole == Init => Whole
<1> SUFFICES ASSUME Init, Fits PROVE Whole
  BY DEF Whole
<1>1. stage = "idle" /\ msg = NoMessage /\ w = NewWriter /\ AsRead = << <<>> >>
  BY DEF Init, AsRead, NoMessage
<1>2. NoMessage.size + 2 <= PageSize
  BY <1>1 DEF Fits
<1>3. ~Written /\ ~Reading
  BY <1>1 DEF Written, Reading
<1>4. \E f \in Places(<< <<>> >>) :
        /\ Layout(f, << <<>> >>, page)
        /\ WriterAt(f[Len(<< <<>> >>) + 1], NoMessage, page, NewWriter)
  BY <1>2, BlankWhole
<1> QED BY <1>1, <1>3, <1>4 DEF Whole

(* and when a new message begins,                                          *)
LEMMA FreshWhole ==
    ASSUME w' = NewWriter, msg' = NoMessage, stage' \in {"idle", "answer"}
    PROVE  Whole'
<1> SUFFICES ASSUME Fits' PROVE Whole'
  BY DEF Whole
<1>1. AsRead' = << <<>> >>
  BY DEF AsRead, NoMessage
<1>2. NoMessage.size + 2 <= PageSize
  BY DEF Fits
<1>3. ~Written' /\ ~Reading' /\ stage' # "crashed"
  BY DEF Written, Reading
<1>4. PICK f \in Places(<< <<>> >>) :
        /\ Layout(f, << <<>> >>, page')
        /\ WriterAt(f[Len(<< <<>> >>) + 1], NoMessage, page', NewWriter)
  BY <1>2, BlankWhole
<1> QED BY <1>1, <1>3, <1>4 DEF Whole

(* and when call() writes the url,                                         *)
LEMMA CallWhole ==
    ASSUME Types, Types', NEW u \in Urls, Call(u) PROVE Whole'
<1> SUFFICES ASSUME Fits' PROVE Whole'
  BY DEF Whole
<1> DEFINE a == addHeader(page, NewWriter, u)
<1>1. page' = a.page /\ w' = a.w /\ stage' = "request" /\ msg' = AddHeader(NoMessage, u)
  BY DEF Call
<1>2. u \in Seq(Char) /\ Len(u) \in Nat /\ page \in Pages /\ NewWriter \in Writers /\ NoMessage \in Messages
  BY Plain, Fresh DEF Types
<1>3. /\ msg'.headers = Append(<<>>, u)
      /\ msg'.size = 0 + Len(u) + 0
      /\ msg'.payload = <<>>
  BY <1>1, <1>2, HeaderAdded DEF NoMessage
<1>4. Append(<<>>, u) = <<u>>
  OBVIOUS
<1>5. AsRead' = <<u>> /\ msg'.headers = <<u>> /\ msg'.size = Len(u) /\ Len(u) + 2 <= PageSize
  BY <1>2, <1>3, <1>4 DEF AsRead, Fits
<1>6. ~NewWriter.headed /\ ~NewWriter.ended /\ ~NewWriter.started /\ NewWriter.cur = 0
  BY DEF NewWriter
<1>7. PICK f \in Places(<<u>>) :
        Layout(f, <<u>>, a.page) /\ WriterAt(f[Len(<<u>>) + 1], msg', a.page, a.w)
  BY <1>2, <1>3, <1>5, <1>6, FirstHeaderWhole
<1> HIDE DEF a
<1>8. ~Reading' /\ ~Written' /\ stage' # "crashed"
  BY <1>1 DEF Reading, Written
<1> QED BY <1>1, <1>5, <1>7, <1>8, WriterWhole

(* when a callback adds a header,                                          *)
LEMMA WriteHeaderWhole ==
    ASSUME Types, Types', Whole, NEW d \in Headers, WriteHeader(d) PROVE Whole'
<1> SUFFICES ASSUME Fits', ~msg'.reset PROVE Whole'
  BY DEF Whole
<1> DEFINE a == addHeader(page, w, d)
<1>1. /\ page' = a.page /\ w' = a.w /\ stage' = stage /\ msg' = AddHeader(msg, d)
      /\ ~w.headed /\ ~w.ended /\ stage \in {"request", "answer"}
  BY DEF WriteHeader, Writing
<1>2. d \in Seq(Char) /\ Len(d) \in Nat /\ page \in Pages /\ w \in Writers /\ msg \in Messages
      /\ msg.size \in Nat
  BY Plain, AsReadType DEF Types
<1>3. /\ msg'.headers = Append(msg.headers, d)
      /\ msg'.size = msg.size + Len(d) + (IF msg.headers = <<>> THEN 0 ELSE 1)
      /\ msg'.payload = msg.payload /\ msg'.reset = msg.reset
  BY <1>1, <1>2, HeaderAdded
<1>4. ~Reading' /\ ~Written' /\ stage' # "crashed"
  BY <1>1 DEF Reading, Written
<1>5. msg'.size + 2 <= PageSize
  BY DEF Fits
<1>6. Fits /\ ~msg.reset
  BY <1>2, <1>3, <1>5, PageSizeAssumption DEF Fits
<1>7. PICK f \in Places(AsRead) :
        LET e == f[Len(AsRead) + 1] IN
        /\ Layout(f, AsRead, page) /\ WriterAt(e, msg, page, w)
        /\ e \in Nat /\ e >= 1
        /\ msg.payload = <<>>
  BY <1>1, <1>6, WholePages
<1> DEFINE e == f[Len(AsRead) + 1]
<1>8. w.cur = e - 1 /\ msg.size = e - 1 /\ (w.started <=> msg.headers # <<>>)
  BY <1>1, <1>2, <1>7 DEF WriterAt
<1>9. msg'.payload = <<>>
  BY <1>3, <1>7
<1>10. CASE msg.headers = <<>>
  <2>1. AsRead = << <<>> >> /\ Len(AsRead) = 1 /\ AsRead[1] = <<>> /\ Len(AsRead[1]) = 0
    BY <1>10 DEF AsRead
  <2>2. f[1] = 0 /\ f[1 + 1] = f[1] + Len(AsRead[1]) + 1
    BY <1>7, <2>1 DEF Layout, Offsets
  <2>3. e = 1
    BY <2>1, <2>2
  <2> HIDE DEF e
  <2>4. w.cur = 0 /\ msg.size = 0 /\ ~w.started
    BY <1>8, <1>10, <2>3
  <2>5. Append(<<>>, d) = <<d>>
    OBVIOUS
  <2>6. msg'.headers = <<d>> /\ msg'.size = Len(d) /\ AsRead' = <<d>>
    BY <1>2, <1>3, <1>10, <2>4, <2>5 DEF AsRead
  <2>7. Len(d) + 2 <= PageSize
    BY <1>5, <2>6
  <2>8. PICK f2 \in Places(<<d>>) :
          Layout(f2, <<d>>, a.page) /\ WriterAt(f2[Len(<<d>>) + 1], msg', a.page, a.w)
    BY <1>1, <1>2, <1>9, <2>4, <2>6, <2>7, FirstHeaderWhole
  <2> HIDE DEF a
  <2> QED BY <1>1, <1>4, <2>6, <2>8, WriterWhole
<1>11. CASE msg.headers # <<>>
  <2> DEFINE hs == msg.headers
             h2 == Append(hs, d)
  <2>1. AsRead = hs /\ hs \in Seq(Seq(Char)) /\ hs # <<>>
    BY <1>11, AsReadType DEF AsRead
  <2>2. h2 # <<>> /\ msg'.headers = h2 /\ AsRead' = h2
    <3>1. h2 # <<>>
      <4>1. Len(h2) = Len(hs) + 1 /\ Len(hs) \in Nat
        BY <1>2, <2>1, AppendProperties
      <4> HIDE DEF h2
      <4>2. Len(<<>>) = 0
        OBVIOUS
      <4> QED BY <4>1, <4>2
    <3>2. msg'.headers = h2
      BY <1>3
    <3> HIDE DEF h2
    <3> QED BY <3>1, <3>2 DEF AsRead
  <2>3. e = f[Len(hs) + 1] /\ f \in Places(hs) /\ Layout(f, hs, page)
    BY <1>7, <2>1
  <2>4. e \in Nat /\ msg'.size = e + Len(d) /\ e + Len(d) + 2 <= PageSize
    <3>1. e \in Nat
      BY <1>7
    <3> HIDE DEF e
    <3> QED BY <1>2, <1>3, <1>5, <1>8, <1>11, <3>1
  <2> HIDE DEF e
  <2>5. w.cur = f[Len(hs) + 1] - 1 /\ f[Len(hs) + 1] + Len(d) + 2 <= PageSize /\ w.started
    BY <1>8, <1>11, <2>3, <2>4
  <2>6. /\ a.w.started /\ ~a.w.headed /\ ~a.w.ended
        /\ a.w.cur = f[Len(hs) + 1] + Len(d)
        /\ \E f2 \in Places(h2) :
             Layout(f2, h2, a.page) /\ f2[Len(h2) + 1] = f[Len(hs) + 1] + Len(d) + 1
    <3> HIDE DEF hs
    <3> QED BY <1>1, <1>2, <2>1, <2>3, <2>5, NextHeaderWhole
  <2>7. PICK f2 \in Places(h2) : Layout(f2, h2, a.page) /\ f2[Len(h2) + 1] = e + Len(d) + 1
    BY <2>3, <2>6
  <2> DEFINE e2 == f2[Len(h2) + 1]
  <2> HIDE DEF a, h2, e2
  <2>8. e2 = e + Len(d) + 1 /\ a.w.cur = e + Len(d)
    BY <2>3, <2>6, <2>7 DEF e2
  <2>9. e2 - 1 = e + Len(d)
    BY <1>2, <2>4, <2>8
  <2>10. WriterAt(e2, msg', a.page, a.w)
    <3>1. Len(msg'.payload) = 0 /\ (e + Len(d)) + 0 = e + Len(d)
      BY <1>2, <1>9, <2>4
    <3>2. msg'.size = e2 - 1 + Len(msg'.payload)
      BY <2>4, <2>9, <3>1
    <3> QED BY <1>9, <2>2, <2>6, <2>8, <2>9, <3>2 DEF WriterAt
  <2> QED BY <1>1, <1>4, <2>2, <2>7, <2>10, WriterWhole DEF e2
<1> QED BY <1>10, <1>11

(* A step of the writer that adds no header leaves the headers alone.      *)
LEMMA WriterStepWhole ==
    ASSUME Types, Types', ~Reading', stage' # "crashed", Written' => w'.ended,
           NEW f \in Places(AsRead), NEW e, e = f[Len(AsRead) + 1],
           Layout(f, AsRead, page), \A i \in 0..e - 2 : page'[i] = page[i],
           msg'.headers = msg.headers, WriterAt(e, msg', page', w')
    PROVE  Whole'
<1>1. AsRead' = AsRead
  BY DEF AsRead
<1>2. Layout(f, AsRead, page')
  BY AsReadType, LayoutKept
<1> QED BY <1>1, <1>2, WriterWhole

(* writes the payload,                                                     *)
LEMMA WritePayloadWhole ==
    ASSUME Types, Types', Whole, NEW d \in Payloads, WritePayload(d) PROVE Whole'
<1> SUFFICES ASSUME Fits', ~msg'.reset PROVE Whole'
  BY DEF Whole
<1> DEFINE a == setPayload(page, w, d)
<1>1. /\ page' = a.page /\ w' = a.w /\ stage' = stage
      /\ msg' = [msg EXCEPT !.payload = d, !.size = msg.size + Len(d), !.told = a.ok]
      /\ ~w.ended /\ msg.payload = <<>> /\ stage \in {"request", "answer"}
  BY DEF WritePayload, Writing
<1>2. /\ d \in Seq(Char \cup {TAB, NL}) /\ d \in Seq(Glyph) /\ Len(d) \in Nat
      /\ page \in Pages /\ w \in Writers /\ msg \in Messages /\ msg.size \in Nat
  BY Plain, AsReadType DEF Types
<1>3. a.ok \in BOOLEAN
  BY SetPayloadOk
<1> HIDE DEF a
<1>4. /\ msg'.headers = msg.headers /\ msg'.payload = d
      /\ msg'.size = msg.size + Len(d) /\ msg'.reset = msg.reset
  <2> DEFINE ok == a.ok
             m == [msg EXCEPT !.payload = d, !.size = msg.size + Len(d), !.told = ok]
  <2>1. msg' = m
    BY <1>1
  <2>2. ok \in BOOLEAN
    BY <1>3
  <2> HIDE DEF ok
  <2>3. /\ m.headers = msg.headers /\ m.payload = d
        /\ m.size = msg.size + Len(d) /\ m.reset = msg.reset
    BY <1>2 DEF Messages
  <2> HIDE DEF m
  <2> QED BY <2>1, <2>3
<1>5. ~Reading' /\ ~Written' /\ stage' # "crashed"
  BY <1>1 DEF Reading, Written
<1>6. Fits /\ ~msg.reset /\ msg.size + Len(d) + 2 <= PageSize
  BY <1>2, <1>4, PageSizeAssumption DEF Fits
<1>7. PICK f \in Places(AsRead) :
        LET e == f[Len(AsRead) + 1] IN
        /\ Layout(f, AsRead, page) /\ WriterAt(e, msg, page, w)
        /\ e \in Nat /\ e >= 1 /\ AtEnd(e, page, w)
  BY <1>1, <1>6, WholePages
<1> DEFINE e == f[Len(AsRead) + 1]
<1>8. e \in Nat /\ e >= 1 /\ AtEnd(e, page, w) /\ msg.size = e - 1 + 0
      /\ (w.started <=> msg.headers # <<>>)
  BY <1>1, <1>7 DEF WriterAt
<1> HIDE DEF e
<1>9. e + Len(d) + 1 <= PageSize
  BY <1>2, <1>6, <1>8, PageSizeAssumption
<1>10. /\ a.w.started = w.started /\ a.w.headed
       /\ \/ d = <<>> /\ ~a.w.ended /\ a.w.cur = e /\ a.page[e - 1] = NL
          \/ d # <<>> /\ a.w.ended /\ PayloadAt(e, d, a.page)
       /\ \A i \in 0..e - 2 : a.page[i] = page[i]
  BY <1>2, <1>8, <1>9, PayloadWhole DEF a
<1>11. msg'.size = e - 1 + Len(msg'.payload)
  BY <1>2, <1>4, <1>8
<1>12. WriterAt(e, msg', page', w')
  BY <1>1, <1>4, <1>8, <1>10, <1>11 DEF WriterAt
<1> QED BY <1>1, <1>4, <1>5, <1>7, <1>10, <1>12, WriterStepWhole DEF e

(* ends the headers,                                                       *)
LEMMA EndHeadersWhole ==
    ASSUME Types, Types', Whole, EndHeaders PROVE Whole'
<1> SUFFICES ASSUME Fits', ~msg'.reset PROVE Whole'
  BY DEF Whole
<1> DEFINE a == finalizeHeader(page, w)
<1>1. /\ page' = a.page /\ w' = a.w /\ stage' = stage /\ msg' = msg
      /\ stage \in {"request", "answer"} /\ page \in Pages /\ w \in Writers
  BY DEF EndHeaders, Writing, Types
<1> HIDE DEF a
<1>2. ~Reading' /\ ~Written' /\ stage' # "crashed"
  BY <1>1 DEF Reading, Written
<1>3. Fits /\ ~msg.reset
  BY <1>1 DEF Fits
<1>4. PICK f \in Places(AsRead) :
        LET e == f[Len(AsRead) + 1] IN
        /\ Layout(f, AsRead, page) /\ WriterAt(e, msg, page, w)
        /\ e \in Nat /\ e >= 1 /\ e + Len(msg.payload) + 1 <= PageSize
        /\ ~w.ended => AtEnd(e, page, w) /\ msg.payload = <<>>
        /\ w.ended => w.headed
  BY <1>3, WholePages
<1> DEFINE e == f[Len(AsRead) + 1]
<1>5. /\ Layout(f, AsRead, page) /\ WriterAt(e, msg, page, w)
      /\ e \in Nat /\ e >= 1 /\ e + Len(msg.payload) + 1 <= PageSize
      /\ ~w.ended => AtEnd(e, page, w) /\ msg.payload = <<>>
      /\ w.ended => w.headed
  BY <1>4
<1>6. CASE w.ended
  <2>1. a.page = page /\ a.w = w
    BY <1>1, <1>5, <1>6, FinalizeHeaderCases DEF a
  <2> HIDE DEF e
  <2>2. WriterAt(e, msg', page', w')
    BY <1>1, <1>5, <2>1
  <2> QED BY <1>1, <1>2, <1>5, <2>1, <2>2, WriterStepWhole DEF e
<1>7. CASE ~w.ended
  <2>1. e < PageSize
    <3> HIDE DEF e
    <3>1. Len(msg.payload) = 0
      BY <1>5, <1>7
    <3> QED BY <1>5, <3>1, PageSizeAssumption
  <2> HIDE DEF e
  <2>2. /\ a.w.started = w.started /\ a.w.headed /\ ~a.w.ended
        /\ a.w.cur = e /\ a.page[e - 1] = NL
        /\ \A i \in 0..e - 2 : a.page[i] = page[i]
    BY <1>1, <1>5, <1>7, <2>1, HeaderEndWhole DEF a
  <2>3. WriterAt(e, msg', page', w')
    BY <1>1, <1>5, <1>7, <2>2 DEF WriterAt
  <2> QED BY <1>1, <1>2, <1>5, <2>2, <2>3, WriterStepWhole DEF e
<1> QED BY <1>6, <1>7

(* when the library ends the message,                                      *)
LEMMA EndMessageWhole ==
    ASSUME Types, Types', Whole, EndMessage PROVE Whole'
<1> SUFFICES ASSUME Fits', ~msg'.reset PROVE Whole'
  BY DEF Whole
<1> DEFINE a == finalizePayload(page, w)
<1>1. /\ page' = a.page /\ w' = a.w /\ stage' \in {"sent", "answered"} /\ msg' = msg
      /\ page \in Pages /\ w \in Writers
  BY DEF EndMessage, Types
<1> HIDE DEF a
<1>2. ~Reading' /\ stage' # "crashed"
  BY <1>1 DEF Reading
<1>3. Fits /\ ~msg.reset
  BY <1>1 DEF Fits
<1>4. PICK f \in Places(AsRead) :
        LET e == f[Len(AsRead) + 1] IN
        /\ Layout(f, AsRead, page) /\ WriterAt(e, msg, page, w)
        /\ e \in Nat /\ e >= 1 /\ e + Len(msg.payload) + 1 <= PageSize
        /\ ~w.ended => AtEnd(e, page, w) /\ msg.payload = <<>>
  BY <1>3, WholePages
<1> DEFINE e == f[Len(AsRead) + 1]
<1>5. /\ Layout(f, AsRead, page) /\ WriterAt(e, msg, page, w)
      /\ e \in Nat /\ e >= 1 /\ e + Len(msg.payload) + 1 <= PageSize
      /\ ~w.ended => AtEnd(e, page, w) /\ msg.payload = <<>>
  BY <1>4
<1>6. CASE w.ended
  <2>1. a.page = page /\ a.w = w
    BY <1>1, <1>6, FinalizePayloadCases DEF a
  <2> HIDE DEF e
  <2>2. WriterAt(e, msg', page', w')
    BY <1>1, <1>5, <2>1
  <2> QED BY <1>1, <1>2, <1>5, <1>6, <2>1, <2>2, WriterStepWhole DEF e
<1>7. CASE ~w.ended
  <2>1. e + 1 <= PageSize
    <3> HIDE DEF e
    <3>1. Len(msg.payload) = 0
      BY <1>5, <1>7
    <3> QED BY <1>5, <3>1, PageSizeAssumption
  <2> HIDE DEF e
  <2>2. /\ a.w.started = w.started /\ a.w.headed /\ a.w.ended
        /\ PayloadAt(e, <<>>, a.page)
        /\ \A i \in 0..e - 2 : a.page[i] = page[i]
    BY <1>1, <1>5, <1>7, <2>1, MessageEndWhole DEF a
  <2>3. WriterAt(e, msg', page', w')
    BY <1>1, <1>5, <1>7, <2>2 DEF WriterAt
  <2> QED BY <1>1, <1>2, <1>5, <2>2, <2>3, WriterStepWhole DEF e
<1> QED BY <1>6, <1>7

(* when the server takes the url,                                          *)
LEMMA TakeRequestWhole ==
    ASSUME Types, Types', Whole, TakeRequest PROVE Whole'
<1> SUFFICES ASSUME Fits', ~msg'.reset PROVE Whole'
  BY DEF Whole
<1> DEFINE h == getHeader(page, NewReader)
<1>1. /\ UNCHANGED <<page, w, msg>> /\ stage = "sent" /\ stage' = "serving"
      /\ r' = h.r /\ h.got # None /\ got' = [Nothing EXCEPT !.headers = <<h.got>>]
  BY DEF TakeRequest
<1>2. Fits /\ ~msg.reset
  BY <1>1 DEF Fits
<1>3. w.ended
  BY <1>1, <1>2 DEF Whole, Written, Stages
<1>4. Nothing \in Gots /\ got' \in Gots /\ page \in Pages /\ NewReader \in Readers /\ msg \in Messages
  BY Fresh DEF Types
<1>5. /\ Nothing.headers = <<>> /\ Nothing.payload = None
      /\ ~Nothing.refused /\ ~Nothing.skipped /\ Nothing.touched = "page"
  BY DEF Nothing
<1>6. h.touched = "page"
  <2> DEFINE e == Found(page, NewReader.cur, Marks)
  <2>1. \/ h = Got(None, NewReader, "page")
        \/ h = Got(None, NewReader, "null")
        \/ h = Got(None, NewReader, "past")
        \/ h = Got(None, [cur |-> e + 1, headed |-> TRUE, ended |-> TRUE], "page")
        \/ h = Got(View(NewReader.cur, e),
                   [cur |-> e + 1, headed |-> page[e] = NL, ended |-> FALSE], "page")
    BY <1>4, GetHeaderCases
  <2> HIDE DEF h, e
  <2> QED BY <1>1, <2>1, GotIs
<1> HIDE DEF h
<1>7. /\ got'.headers = <<h.got>> /\ got'.payload = Nothing.payload
      /\ got'.refused = Nothing.refused /\ got'.skipped = Nothing.skipped
      /\ got'.touched = Nothing.touched
  BY <1>1 DEF Nothing
<1>8. Append(Nothing.headers, h.got) = <<h.got>>
  BY <1>5
<1>9. ASSUME NEW f \in Places(AsRead), Complete(f, AsRead, msg.payload, page)
      PROVE  ReaderAt(f, AsRead, msg, r', got')
  <2>1. ReaderAt(f, AsRead, msg, NewReader, Nothing)
    BY <1>5, <1>9, AsReadType, ReaderStart DEF Complete, Layout
  <2>2. got'.headers = IF h.got = None THEN Nothing.headers ELSE Append(Nothing.headers, h.got)
    BY <1>1, <1>7, <1>8
  <2>3. got'.touched = IF Nothing.touched = "page" THEN h.touched ELSE Nothing.touched
    BY <1>5, <1>6, <1>7
  <2>4. ReaderAt(f, AsRead, msg, h.r, got')
    BY <1>4, <1>7, <1>9, <2>1, <2>2, <2>3, AsReadType, ReadHeaderWhole DEF h
  <2> QED BY <1>1, <2>4
<1> QED BY <1>1, <1>2, <1>3, <1>9, ReaderWhole

(* and when a callback reads.                                              *)
LEMMA ReadsWhole ==
    ASSUME Types, Types', Whole, Reading, Fits, ~msg.reset
    PROVE  ReadHeader \/ ReadPayload \/ SkipToPayload \/ SkipToEnd \/ ResetReader => Whole'
<1>1. w.ended /\ stage # "crashed"
  BY DEF Whole, Reading, Written, Stages
<1>2. page \in Pages /\ r \in Readers /\ got \in Gots /\ got' \in Gots /\ msg \in Messages
  BY DEF Types
<1>a. PICK f0 \in Places(AsRead) :
        Complete(f0, AsRead, msg.payload, page) /\ ReaderAt(f0, AsRead, msg, r, got)
  BY <1>1, WholePages
<1>3. ASSUME ReadHeader PROVE Whole'
  <2> DEFINE h == getHeader(page, r)
  <2>0. h = getHeader(page, r)
    OBVIOUS
  <2>1. /\ r' = h.r /\ stage' = After(h.touched)
        /\ got'.headers = IF h.got = None THEN got.headers ELSE Append(got.headers, h.got)
        /\ got'.payload = got.payload
        /\ got'.refused <=> got.refused
        /\ got'.skipped <=> got.skipped
        /\ got'.touched = Worse(h.touched)
        /\ UNCHANGED <<page, w, msg>>
    BY <1>3, ReadHeaderIs DEF ReadHeader
  <2> HIDE DEF h
  <2>2. got'.touched = IF got.touched = "page" THEN h.touched ELSE got.touched
    BY <2>1 DEF Worse
  <2>3. ASSUME NEW f \in Places(AsRead), Complete(f, AsRead, msg.payload, page),
               ReaderAt(f, AsRead, msg, r, got)
        PROVE  ReaderAt(f, AsRead, msg, h.r, got') /\ h.touched = "page"
    <3>1. AsRead \in Seq(Seq(Char)) /\ AsRead # <<>>
      BY AsReadType
    <3> DEFINE hs == AsRead
    <3>2. got'.headers = IF h.got = None THEN got.headers ELSE Append(got.headers, h.got)
      BY <2>1
    <3> HIDE DEF hs
    <3> QED BY <1>2, <2>0, <2>1, <2>2, <2>3, <3>1, <3>2, ReadHeaderWhole
  <2>4. stage' # "crashed"
    BY <1>1, <1>a, <2>1, <2>3 DEF After
  <2> QED BY <1>1, <2>1, <2>3, <2>4, ReaderWhole
<1>4. ASSUME ReadPayload PROVE Whole'
  <2>1. UNCHANGED <<page, w, msg>>
    BY <1>4 DEF ReadPayload
  <2>2. PICK p \in getPayload(page, r) :
          /\ r' = p.r
          /\ got'.headers = got.headers
          /\ got'.payload = IF p.got = None THEN got.payload ELSE p.got
          /\ got'.refused <=> got.refused \/ (p.got = None /\ ~r.ended)
          /\ got'.skipped <=> got.skipped \/ ~r.headed
          /\ got'.touched = Worse(p.touched)
          /\ stage' = After(p.touched)
    BY <1>4, ReadPayloadIs
  <2>3. got'.touched = IF got.touched = "page" THEN p.touched ELSE got.touched
    BY <2>2 DEF Worse
  <2>4. ASSUME NEW f \in Places(AsRead), Complete(f, AsRead, msg.payload, page),
               ReaderAt(f, AsRead, msg, r, got)
        PROVE  ReaderAt(f, AsRead, msg, p.r, got') /\ p.touched = "page"
    BY <1>2, <2>2, <2>3, <2>4, AsReadType, ReadPayloadWhole
  <2>5. stage' # "crashed"
    BY <1>1, <1>a, <2>2, <2>4 DEF After
  <2> QED BY <1>1, <2>1, <2>2, <2>4, <2>5, ReaderWhole
<1>5. ASSUME SkipToPayload PROVE Whole'
  <2> DEFINE h == SkipHeaders(page, r)
  <2>0. h = SkipHeaders(page, r)
    OBVIOUS
  <2>1. /\ r' = h.r /\ got'.headers = got.headers /\ got'.payload = got.payload
        /\ got'.refused <=> got.refused
        /\ got'.skipped <=> got.skipped \/ ~r.headed
        /\ got'.touched = Worse(h.touched)
        /\ UNCHANGED <<page, w, msg, stage>>
    BY <1>5, SkipToPayloadIs DEF SkipToPayload
  <2> HIDE DEF h
  <2>2. got'.touched = IF got.touched = "page" THEN h.touched ELSE got.touched
    BY <2>1 DEF Worse
  <2>3. ASSUME NEW f \in Places(AsRead), Complete(f, AsRead, msg.payload, page),
               ReaderAt(f, AsRead, msg, r, got)
        PROVE  ReaderAt(f, AsRead, msg, h.r, got')
    BY <1>2, <2>0, <2>1, <2>2, <2>3, AsReadType, SkipToPayloadWhole
  <2> QED BY <1>1, <2>1, <2>3, ReaderWhole
<1>6. ASSUME SkipToEnd PROVE Whole'
  <2> DEFINE h == SkipPayload(page, r)
  <2>0. h = SkipPayload(page, r)
    OBVIOUS
  <2>1. /\ r' = h.r /\ got'.headers = got.headers /\ got'.payload = got.payload
        /\ got'.refused <=> got.refused
        /\ got'.skipped <=> got.skipped \/ ~r.headed
        /\ got'.touched = Worse(h.touched)
        /\ UNCHANGED <<page, w, msg, stage>>
    BY <1>6, SkipToEndIs DEF SkipToEnd
  <2> HIDE DEF h
  <2>2. got'.touched = IF got.touched = "page" THEN h.touched ELSE got.touched
    BY <2>1 DEF Worse
  <2>3. ASSUME NEW f \in Places(AsRead), Complete(f, AsRead, msg.payload, page),
               ReaderAt(f, AsRead, msg, r, got)
        PROVE  ReaderAt(f, AsRead, msg, h.r, got')
    BY <1>2, <2>0, <2>1, <2>2, <2>3, AsReadType, SkipToEndWhole
  <2> QED BY <1>1, <2>1, <2>3, ReaderWhole
<1>7. ASSUME ResetReader PROVE Whole'
  <2>1. r' = NewReader /\ UNCHANGED <<page, w, msg, stage>>
    BY <1>7 DEF ResetReader
  <2>2. got.touched = "page"
    BY <1>a DEF ReaderAt
  <2>3. got'.headers = <<>> /\ got'.payload = None /\ ~got'.refused /\ got'.touched = "page"
    BY <1>7, <2>2 DEF ResetReader, Nothing
  <2>4. ASSUME NEW f \in Places(AsRead), Complete(f, AsRead, msg.payload, page)
        PROVE  ReaderAt(f, AsRead, msg, NewReader, got')
    BY <2>3, <2>4, AsReadType, ReaderStart DEF Complete, Layout
  <2> QED BY <1>1, <2>1, <2>4, ReaderWhole
<1> QED BY <1>3, <1>4, <1>5, <1>6, <1>7

(* Every step keeps Whole.                                                 *)
LEMMA WholeStep == Types /\ Types' /\ Turns /\ Whole /\ [Next]_vars => Whole'
<1> SUFFICES ASSUME Types, Types', Turns, Whole, [Next]_vars PROVE Whole'
  OBVIOUS
<1>1. CASE ResetWriter
  BY <1>1 DEF ResetWriter, Whole, NoMessage
<1>2. CASE LoseRequest
  <2> SUFFICES ASSUME Fits', ~msg'.reset PROVE Whole'
    BY DEF Whole
  <2>1. UNCHANGED <<page, w, msg>> /\ stage = "sent" /\ stage' = "lost"
    BY <1>2 DEF LoseRequest
  <2>2. Fits /\ ~msg.reset /\ ~Reading' /\ AsRead' = AsRead
    BY <2>1 DEF Fits, Reading, AsRead
  <2>3. w.ended
    BY <2>1, <2>2 DEF Whole, Written, Stages
  <2>4. PICK f \in Places(AsRead) :
          Layout(f, AsRead, page) /\ WriterAt(f[Len(AsRead) + 1], msg, page, w)
    BY <2>2 DEF Whole
  <2> QED BY <2>1, <2>2, <2>3, <2>4, WriterWhole
<1>3. CASE ReadHeader \/ ReadPayload \/ SkipToPayload \/ SkipToEnd \/ ResetReader
  <2> SUFFICES ASSUME Fits', ~msg'.reset PROVE Whole'
    BY DEF Whole
  <2>1. msg' = msg /\ Reading
    BY <1>3 DEF ReadHeader, ReadPayload, SkipToPayload, SkipToEnd, ResetReader
  <2>2. Fits /\ ~msg.reset
    BY <2>1 DEF Fits
  <2> QED BY <1>3, <2>1, <2>2, ReadsWhole
<1>4. CASE BeginAnswer \/ Idle
  BY <1>4, FreshWhole DEF BeginAnswer, Idle
<1>5. CASE TakeAnswer
  <2> SUFFICES ASSUME Fits', ~msg'.reset PROVE Whole'
    BY DEF Whole
  <2>1. UNCHANGED <<page, w, msg>> /\ stage = "answered" /\ stage' = "reading"
        /\ r' = NewReader /\ got' = Nothing
    BY <1>5 DEF TakeAnswer, Turns
  <2>2. Fits /\ ~msg.reset
    BY <2>1 DEF Fits
  <2>3. w.ended
    BY <2>1, <2>2 DEF Whole, Written, Stages
  <2>4. /\ Nothing.headers = <<>> /\ Nothing.payload = None
        /\ ~Nothing.refused /\ Nothing.touched = "page"
    BY DEF Nothing
  <2>5. ASSUME NEW f \in Places(AsRead), Complete(f, AsRead, msg.payload, page)
        PROVE  ReaderAt(f, AsRead, msg, NewReader, Nothing)
    BY <2>4, <2>5, AsReadType, ReaderStart DEF Complete, Layout
  <2> QED BY <2>1, <2>2, <2>3, <2>5, ReaderWhole
<1>6. CASE UNCHANGED vars
  BY <1>6 DEF vars, Whole, Fits, Written, Reading, AsRead
<1> QED BY <1>1, <1>2, <1>3, <1>4, <1>5, <1>6, CallWhole, WriteHeaderWhole, WritePayloadWhole,
           EndHeadersWhole, EndMessageWhole, TakeRequestWhole DEF Next, EndReading, Reuse

(* A message that lies whole in the page is what its reader gets.          *)
LEMMA WholeRead == Types /\ Whole => WrittenIsRead
<1> SUFFICES ASSUME Types, Whole, Reading \/ stage = "crashed", Fits, ~msg.reset
             PROVE  /\ got.touched = "page"
                    /\ Len(got.headers) <= Len(AsRead)
                    /\ \A n \in 1..Len(got.headers) : Text(got.headers[n]) = AsRead[n]
                    /\ r.headed /\ ~got.skipped => Len(got.headers) = Len(AsRead)
                    /\ got.payload # None => Text(got.payload) = msg.payload
                    /\ ~got.refused
  BY DEF WrittenIsRead
<1>1. Reading /\ w.ended
  BY DEF Whole, Reading, Written, Stages
<1>2. PICK f \in Places(AsRead) :
        Complete(f, AsRead, msg.payload, page) /\ ReaderAt(f, AsRead, msg, r, got)
  BY <1>1, WholePages
<1> DEFINE hs == AsRead
           e == f[Len(hs) + 1]
<1>3. /\ got.touched = "page" /\ ~got.refused /\ Len(got.headers) <= Len(hs)
      /\ \A j \in 1..Len(got.headers) : got.headers[j] = View(f[j], f[j] + Len(hs[j]))
      /\ got.payload \in {None, View(e, e + Len(msg.payload))}
      /\ r.headed /\ ~got.skipped => Len(got.headers) = Len(hs)
  BY <1>2 DEF ReaderAt
<1>4. /\ hs \in Seq(Seq(Char)) /\ hs # <<>> /\ msg.payload \in Seq(Char \cup {TAB, NL})
      /\ page \in Pages /\ Len(got.headers) \in Nat /\ Len(hs) \in Nat
  BY AsReadType DEF Types, Gots
<1>5. Offsets(f, hs) /\ HeadersAt(f, hs, page) /\ PayloadAt(e, msg.payload, page)
      /\ e + Len(msg.payload) < PageSize
  BY <1>2 DEF Complete, Layout
<1>6. ASSUME NEW n \in 1..Len(got.headers) PROVE Text(got.headers[n]) = AsRead[n]
  <2> DEFINE d == hs[n]
             y == f[n]
  <2>1. n \in 1..Len(hs)
    BY <1>3, <1>4
  <2>2. /\ y \in 0..PageSize /\ d \in Seq(Char) /\ Len(d) \in Nat
        /\ y + Len(d) + 1 <= e /\ e \in 1..PageSize
    BY <1>2, <1>4, <1>5, <2>1, PlacesIs
  <2>3. \A i \in 1..Len(d) : page[y + i - 1] = d[i]
    BY <1>5, <2>1 DEF HeadersAt
  <2>4. got.headers[n] = View(y, y + Len(d))
    BY <1>3
  <2>5. hs[n] = d
    OBVIOUS
  <2> HIDE DEF d, y, e
  <2>6. y \in Nat /\ y + Len(d) <= PageSize
    BY <2>2, PageSizeAssumption
  <2>7. Text(View(y, y + Len(d))) = d
    BY <1>4, <2>2, <2>3, <2>6, TextIs
  <2> QED BY <2>4, <2>5, <2>7
<1>7. ASSUME got.payload # None PROVE Text(got.payload) = msg.payload
  <2> DEFINE d == msg.payload
  <2>1. e \in 1..PageSize /\ Len(d) \in Nat
    BY <1>2, <1>4, <1>5, PlacesIs
  <2>2. \A i \in 1..Len(d) : page[e + i - 1] = d[i]
    BY <1>5 DEF PayloadAt
  <2>3. got.payload = View(e, e + Len(d)) /\ e + Len(d) < PageSize
    BY <1>3, <1>5, <1>7
  <2>4. d \in Seq(Char \cup {TAB, NL})
    BY <1>4
  <2> HIDE DEF d, e
  <2>5. e \in Nat /\ e + Len(d) <= PageSize
    BY <2>1, <2>3, PageSizeAssumption
  <2>6. Text(View(e, e + Len(d))) = d
    BY <1>4, <2>2, <2>4, <2>5, TextIs
  <2> QED BY <2>3, <2>6 DEF d
<1> QED BY <1>3, <1>6, <1>7

(* No request is lost at the start.                                        *)
LEMMA InitLost == Init => NoRequestLost
BY DEF Init, NoRequestLost

(* The url of a request that fits is read as it was written, so the search *)
(* is for that url, and it would have stopped at a pattern that matches.   *)
LEMMA LostStep ==
    Types /\ Turns /\ UrlFirst /\ Whole /\ NoRequestLost /\ [Next]_vars => NoRequestLost'
<1> SUFFICES ASSUME Types, Turns, UrlFirst, Whole, NoRequestLost, [Next]_vars,
                    stage' = "lost", ~msg'.reset, Fits'
             PROVE  \A p \in patterns' : ~Matches(p, msg'.headers[1])
  BY DEF NoRequestLost
<1>1. CASE LoseRequest
  <2> DEFINE u == msg.headers[1]
             h == getHeader(page, NewReader)
  <2>1. UNCHANGED <<patterns, page, w, msg>> /\ stage = "sent"
        /\ (h.got # None => FirstMatches(patterns, Text(h.got)) = {})
    BY <1>1 DEF LoseRequest
  <2>2. Fits /\ ~msg.reset
    BY <2>1 DEF Fits
  <2>3. /\ msg.headers # <<>> /\ u \in Seq(Char) /\ UrlAt(page, w, u)
        /\ Len(u) >= PageSize \/ w.cur > Len(u)
        /\ w.ended
    BY <2>1, <2>2 DEF UrlFirst, UrlKnown, Whole, Written, Stages
  <2>4. AsRead = msg.headers
    BY <2>3 DEF AsRead
  <2>5. PICK f \in Places(AsRead) : Complete(f, AsRead, msg.payload, page)
    BY <2>2, <2>3, WholePages
  <2>6. /\ AsRead \in Seq(Seq(Char)) /\ AsRead # <<>> /\ page \in Pages /\ w \in Writers
        /\ msg.payload \in Seq(Char \cup {TAB, NL})
    BY AsReadType DEF Types
  <2>7. Offsets(f, AsRead)
    BY <2>5 DEF Complete, Layout
  <2>8. 1 \in 1..Len(AsRead) /\ f[1] = 0
    BY <2>6, <2>7, PlacesIs
  <2>9. 0 + Len(AsRead[1]) \in Cells /\ page[0 + Len(AsRead[1])] # NUL
    <3>1. f[1] + Len(AsRead[1]) \in Cells /\ page[f[1] + Len(AsRead[1])] # NUL
      BY <2>5, <2>6, <2>8, HeaderFound
    <3> QED BY <2>8, <3>1
  <2>10. Len(u) < PageSize /\ page[Len(u)] # NUL
    <3>1. AsRead[1] = u /\ Len(u) \in Nat
      BY <2>3, <2>4
    <3> HIDE DEF u
    <3>2. 0 + Len(u) = Len(u)
      BY <3>1
    <3> QED BY <2>9, <3>1, <3>2, PageSizeAssumption DEF Cells
  <2> HIDE DEF u
  <2>11. h.got # None /\ Text(h.got) = u
    BY <2>3, <2>6, <2>10, UrlIsRead
  <2> HIDE DEF h
  <2>12. FirstMatches(patterns, u) = {}
    BY <2>1, <2>11
  <2>13. \A p \in patterns : ~Matches(p, u)
    BY <2>12, PatternsKnown, FirstMatchExists
  <2> QED BY <2>1, <2>13 DEF u
<1>2. CASE ~LoseRequest
  <2>1. UNCHANGED vars
    <3>1. stage' # "lost" \/ UNCHANGED vars
      BY <1>2 DEF Next, Call, WriteHeader, WritePayload, EndHeaders, ResetWriter, EndMessage,
        TakeRequest, ReadHeader, ReadPayload, SkipToPayload, SkipToEnd, ResetReader,
        BeginAnswer, TakeAnswer, EndReading, Reuse, Idle, Writing, Reading, After
    <3> QED BY <3>1
  <2> QED BY <2>1 DEF vars, NoRequestLost, Fits
<1> QED BY <1>1, <1>2

-----------------------------------------------------------------------------
(* All of it together is inductive.                                        *)
ExchangeInv ==
    Types /\ Turns /\ StaleInv /\ UrlFirst /\ ChosenFirst /\ Whole /\ NoRequestLost

(* It holds at the start,                                                  *)
LEMMA ExchangeInitially == Init => ExchangeInv
BY InitTypes, InitTurns, InitStale, InitUrl, InitChosen, InitWhole, InitLost DEF ExchangeInv

(* and every step keeps it,                                                *)
LEMMA ExchangeInductive == ExchangeInv /\ [Next]_vars => ExchangeInv'
<1> SUFFICES ASSUME ExchangeInv, [Next]_vars PROVE ExchangeInv'
  OBVIOUS
<1>1. Types /\ Turns /\ StaleInv /\ UrlFirst /\ ChosenFirst /\ Whole /\ NoRequestLost
  BY DEF ExchangeInv
<1>2. Types'
  BY <1>1, TypesStep
<1>3. Turns' /\ StaleInv' /\ UrlFirst' /\ ChosenFirst' /\ Whole' /\ NoRequestLost'
  BY <1>1, <1>2, TurnsStep, StaleStep, UrlStep, ChosenStep, WholeStep, LostStep
<1> QED BY <1>2, <1>3 DEF ExchangeInv

(* so it always holds.                                                     *)
LEMMA ExchangeInvariant == Spec => []ExchangeInv
BY ExchangeInitially, ExchangeInductive, PTL DEF Spec

(* TypeOK: the cursors of the views stay within the page, whatever         *)
(* sequence of operations the two callbacks choose, and what they were     *)
(* given are views of the page.                                            *)
THEOREM ExchangeTypes == Spec => []TypeOK
<1>1. ExchangeInv => TypeOK
  BY TypesOK DEF ExchangeInv
<1> QED BY <1>1, ExchangeInvariant, PTL

(* WrittenIsRead: for a page, headers and payloads of any size, a message  *)
(* that fits is what its reader gets, in whatever order the two callbacks  *)
(* use their views and whatever lay in the page before.  WriteBufferView   *)
(* and ReadBufferView agree on the layout.                                 *)
THEOREM WhatIsWrittenIsRead == Spec => []WrittenIsRead
<1>1. ExchangeInv => WrittenIsRead
  BY WholeRead DEF ExchangeInv
<1> QED BY <1>1, ExchangeInvariant, PTL

(* NothingStale: getHeader and getPayload give no byte beyond what was     *)
(* written of this message, even if the message was cut off and a mark of  *)
(* an earlier one is found.                                                *)
THEOREM NothingStaleIsRead == Spec => []NothingStale
<1>1. ExchangeInv => NothingStale
  BY DEF ExchangeInv, StaleInv
<1> QED BY <1>1, ExchangeInvariant, PTL

(* NoRequestLost: dispatchNewMessage of the server finds a callback for    *)
(* every request that fits the page and whose url some registered pattern  *)
(* matches.                                                                *)
THEOREM NoRequestIsLost == Spec => []NoRequestLost
<1>1. ExchangeInv => NoRequestLost
  BY DEF ExchangeInv
<1> QED BY <1>1, ExchangeInvariant, PTL

(* MostSpecial: of all patterns that match, the search in m_urls stops at  *)
(* the more special one, whichever patterns a server registers.            *)
THEOREM MostSpecialRuns == Spec => []MostSpecial
<1>1. ExchangeInv => MostSpecial
  BY ChosenSpecial DEF ExchangeInv
<1> QED BY <1>1, ExchangeInvariant, PTL

=============================================================================
