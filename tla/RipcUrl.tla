------------------------------- MODULE RipcUrl --------------------------------
(***************************************************************************)
(* Urls, url patterns and the choice of a callback.  A url is a sequence   *)
(* of characters, a pattern too; the marks <int> and <string> of a pattern *)
(* count as one character each.                                            *)
(***************************************************************************)
EXTENDS Integers, Sequences, FiniteSets, SequencesExt, FiniteSetsExt

Digits == <<"0", "1", "2", "3", "4", "5", "6", "7", "8", "9">>

DigitOf(c) == CHOOSE d \in 1..10 : Digits[d] = c

(* std::stoi on a token of digits.                                         *)
Number(chars) == FoldLeft(LAMBDA n, c : 10 * n + DigitOf(c) - 1, 0, chars)

(* A token of a url: a number when it is all digits, else a string.        *)
Token(chars) ==
    IF \A i \in 1..Len(chars) : \E d \in 1..10 : chars[i] = Digits[d]
    THEN [kind |-> "int", num |-> Number(chars), text |-> <<>>]
    ELSE [kind |-> "string", num |-> 0, text |-> chars]

(* A token of a pattern: a mark, else what a url's token would be.         *)
PatternToken(chars) ==
    CASE chars = <<"<string>">> -> [kind |-> "any string", num |-> 0, text |-> <<>>]
      [] chars = <<"<int>">>    -> [kind |-> "any int", num |-> 0, text |-> <<>>]
      [] OTHER                  -> Token(chars)

(* IUrl::subdivide: the parts between slashes that are not empty, each     *)
(* from the character after one bar to the one before the next.            *)
Bars(url) == {0, Len(url) + 1} \cup {i \in 1..Len(url) : url[i] = "/"}

NextBar(url, b) == Min({c \in Bars(url) : c > b})

PartBars(url) == {b \in Bars(url) : b <= Len(url) /\ NextBar(url, b) > b + 1}

PartBar(url, n) == SetToSortSeq(PartBars(url), <)[n]

Subdivide(url) ==
    [n \in 1..Cardinality(PartBars(url)) |->
       LET b == PartBar(url, n) IN SubSeq(url, b + 1, NextBar(url, b) - 1)]

Tokens(url) ==
    LET parts == Subdivide(url) IN [i \in 1..Len(parts) |-> Token(parts[i])]

PatternTokens(pattern) ==
    LET parts == Subdivide(pattern) IN [i \in 1..Len(parts) |-> PatternToken(parts[i])]

TokenMatches(p, u) ==
    CASE p.kind = "any string" -> u.kind = "string"
      [] p.kind = "any int"    -> u.kind = "int"
      [] OTHER                 -> p = u

(* operator==(Url, UrlPattern)                                             *)
Matches(pattern, url) ==
    LET p == PatternTokens(pattern)
        u == Tokens(url)
    IN  Len(p) = Len(u) /\ \A i \in 1..Len(u) : TokenMatches(p[i], u[i])

(* operator< of the keys of m_urls, token by token: static tokens come     *)
(* before dynamic ones.  How two different static tokens are ordered does  *)
(* not matter here: they do not match the same url.                        *)
Rank(token) == CASE token.kind = "any string" -> 1
                 [] token.kind = "any int"    -> 2
                 [] OTHER                     -> 0

(* Mutant: dynamic tokens first.                                           *)
BeforeReversed(p, q) ==
    LET a == PatternTokens(p)
        b == PatternTokens(q)
    IN  \E i \in 1..Len(a) : /\ i <= Len(b) /\ Rank(a[i]) > Rank(b[i])
                             /\ \A j \in 1..i-1 : a[j] = b[j]

Before(p, q) ==
    LET a == PatternTokens(p)
        b == PatternTokens(q)
    IN  \E i \in 1..Len(a) : /\ i <= Len(b) /\ Rank(a[i]) < Rank(b[i])
                             /\ \A j \in 1..i-1 : a[j] = b[j]

(* Mutant: the url is looked up as a key.                                  *)
FirstMatchesExact(patterns, url) == {p \in patterns : PatternTokens(p) = Tokens(url)}

(* The keys of m_urls that the loop over the map may stop at: the first    *)
(* that matches.                                                           *)
FirstMatches(patterns, url) ==
    {p \in patterns : /\ Matches(p, url)
                      /\ \A q \in patterns : Matches(q, url) => ~Before(q, p)}

=============================================================================
