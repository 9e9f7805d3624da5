----------------------------- MODULE FuzzyMatch -----------------------------
(***************************************************************************)
(* fuzzy_match() and memmem_maybe_case_sensitive_avx2() of                 *)
(* src/src/search.rs: which names match what the user typed, which of      *)
(* their characters are highlighted, and how well they match.              *)
(*                                                                         *)
(* Strings are sequences of characters; indices are the code's, from 0.    *)
(* An AVX register holds W characters (32 in the code).  ptr is the        *)
(* address of the haystack: reading outside the 2W-aligned blocks that     *)
(* hold it could touch an unmapped page.                                   *)
(***************************************************************************)
EXTENDS Naturals, Integers, Sequences, FiniteSets, FiniteSetsExt

CONSTANTS Widths, MaxHay, MaxNeedle

VARIABLES W, hay, needle, caseSensitive, ptr, answer
matchVars == <<W, hay, needle, caseSensitive, ptr, answer>>

\* 1 and 2 are a letter in lower and upper case, 0 is a colon.
Chars == {0, 1, 2}
Lower(c) == IF c = 2 THEN 1 ELSE c
Alphanumeric(c) == c # 0
Same(h, n, cs) == (IF cs THEN h ELSE Lower(h)) = n

None == [found |-> FALSE, at |-> 0]
Some(i) == [found |-> TRUE, at |-> i]
Slice(s, from, to) == SubSeq(s, from + 1, to)

\* The n characters at i of the haystack are the needle's at j.
MatchAt(h, i, s, j, n, cs) == \A k \in 1..n : Same(h[i + k], s[j + k], cs)

\* Mutant: the middle of a long needle is not looked at.
Hit_EndsOnly(h, s, i, cs) ==
    IF Len(s) > W
    THEN MatchAt(h, i, s, 0, W, cs) /\ MatchAt(h, i + Len(s) - W, s, Len(s) - W, W, cs)
    ELSE MatchAt(h, i, s, 0, Len(s), cs)

\* A needle longer than a register is compared by its first and last W
\* characters and by blocks of W between them, a shorter one under a mask.
Hit(h, s, i, cs) ==
    IF Len(s) > W
    THEN \A j \in {0, Len(s) - W} \cup {b \in W..(Len(s) - W - 1) : b % W = 0} :
            MatchAt(h, i + j, s, j, W, cs)
    ELSE MatchAt(h, i, s, 0, Len(s), cs)

\* Where the search of a short needle goes over from registers that begin with
\* the candidate to registers that end with it.
SwitchPoint(p) == IF (p % (2 * W)) <= W THEN W - (p % (2 * W)) ELSE 0

\* What is read for the candidate at i, relative to the haystack.
Reads(h, s, i, p) ==
    IF Len(s) > W THEN i..(i + Len(s) - 1)
    ELSE IF i < SwitchPoint(p) THEN i..(i + W - 1)
         ELSE (i + Len(s) - W)..(i + Len(s) - 1)

Memmem(h, s, cs) ==
    LET hits == {i \in 0..(Len(h) - Len(s)) : Hit(h, s, i, cs)} IN
    IF s = <<>> THEN Some(0)
    ELSE IF Len(s) > Len(h) \/ hits = {} THEN None
    ELSE Some(Min(hits))

\* The loop of the subsequence check, after k characters of the haystack.
Subsequence(h, s, cs) ==
    LET go[k \in 0..Len(h)] ==
          IF k = 0 THEN [n |-> 0, open |-> FALSE, from |-> 0, ranges |-> <<>>, i |-> 0]
          ELSE LET p == go[k - 1] IN
               IF p.n = Len(s) THEN p
               ELSE IF Same(h[k], s[p.n + 1], cs)
               THEN [p EXCEPT !.n = @ + 1, !.open = TRUE, !.i = k,
                              !.from = IF p.open THEN @ ELSE k - 1]
               ELSE [p EXCEPT !.open = FALSE, !.i = k,
                              !.ranges = IF p.open THEN Append(@, <<p.from, k - 1>>) ELSE @]
        end == go[Len(h)]
    IN  [all |-> end.n = Len(s),
         ranges |-> IF end.open THEN Append(end.ranges, <<end.from, end.i>>) ELSE end.ranges]

NoMatch == [match |-> FALSE, score |-> <<9, 0, 0>>, ranges |-> <<>>]
Match(score, ranges) == [match |-> TRUE, score |-> score, ranges |-> ranges]
Bit(b) == IF b THEN 1 ELSE 0

\* Mutant: the end of the string is not looked at first.
Fuzzy_NoSuffix(h, s, cs) ==
    LET n == Len(s)  m == Memmem(h, s, cs)  sub == Subsequence(h, s, cs) IN
    IF n > Len(h) THEN NoMatch
    ELSE IF m.found THEN Match(<<1, 4, Len(h)>>, <<<<m.at, m.at + n>>>>)
    ELSE IF ~sub.all THEN NoMatch
    ELSE Match(<<2, Len(sub.ranges), Len(h)>>, sub.ranges)

\* fuzzy_match(); the score's three parts are packed into one number.
Fuzzy(h, s, cs) ==
    LET n == Len(s)
        tail == Len(h) - n
        inner == Memmem(Slice(h, 0, Len(h) - 1), s, cs)
        sub == Subsequence(h, s, cs)
    IN  IF n > Len(h) THEN NoMatch
        ELSE IF Memmem(Slice(h, tail, Len(h)), s, cs).found
        THEN IF tail = 0 THEN Match(<<0, 0, 0>>, <<>>)
             ELSE Match(<<1, 2 * Bit(Alphanumeric(h[tail])), Len(h)>>, <<<<tail, Len(h)>>>>)
        ELSE IF inner.found
        THEN LET i == inner.at IN
             Match(<<1, 4 + 2 * Bit(i > 0 /\ Alphanumeric(h[i]))
                          + Bit(i + n < Len(h) /\ Alphanumeric(h[i + n + 1])), Len(h)>>,
                   <<<<i, i + n>>>>)
        ELSE IF ~sub.all THEN NoMatch
        ELSE Match(<<2, Len(sub.ranges), Len(h)>>, sub.ranges)

Strings(n) == UNION {[1..k -> Chars] : k \in 0..n}
NoAnswer == [match |-> FALSE, score |-> <<>>, ranges |-> <<>>]

\* SearchQuery::parse(): a needle is in lower case unless case matters.
Init ==
    /\ W \in Widths
    /\ hay \in Strings(MaxHay) /\ needle \in Strings(MaxNeedle)
    /\ caseSensitive = (\E i \in 1..Len(needle) : needle[i] = 2)
    /\ ptr \in 0..(2 * W - 1)
    /\ answer = NoAnswer

FuzzyMatch ==
    /\ answer = NoAnswer
    /\ answer' = Fuzzy(hay, needle, caseSensitive)
    /\ UNCHANGED <<W, hay, needle, caseSensitive, ptr>>

Next == FuzzyMatch
Spec == Init /\ [][Next]_matchVars

-----------------------------------------------------------------------------
\* The reference: the needle's characters occur in this order at positions ps.
Occurs(ps) ==
    LET at == [i \in 1..Cardinality(ps) |-> CHOOSE p \in ps : Cardinality({x \in ps : x < p}) = i - 1]
    IN  \A i \in 1..Len(needle) : Same(hay[at[i] + 1], needle[i], caseSensitive)
Embeddings == {ps \in kSubset(Len(needle), 0..(Len(hay) - 1)) : Occurs(ps)}

Substrings == {i \in 0..(Len(hay) - Len(needle)) :
                 MatchAt(hay, i, needle, 0, Len(needle), caseSensitive)}

Highlighted == UNION {answer.ranges[r][1]..(answer.ranges[r][2] - 1) : r \in 1..Len(answer.ranges)}

\* A name is listed exactly if it contains what was typed as a subsequence, and
\* what is highlighted spells it.  Contiguous matches come before scattered
\* ones, an occurrence at the end before one further left, equality first; the
\* vector code finds the first occurrence, as windows().position() would, and
\* reads no block that does not hold a part of the name.
FuzzyExact ==
    /\ answer # NoAnswer =>
         /\ answer.match <=> Embeddings # {}
         /\ answer.match =>
              /\ answer.score[1] = 0 <=> Len(hay) = Len(needle)
              /\ answer.score[1] <= 1 <=> Substrings # {}
              /\ answer.score[1] = 1 => (answer.score[2] < 4 <=> Len(hay) - Len(needle) \in Substrings)
              /\ answer.score[1] > 0 => Highlighted \in Embeddings
              /\ \A r \in 1..(Len(answer.ranges) - 1) : answer.ranges[r][2] < answer.ranges[r + 1][1]
    /\ Memmem(hay, needle, caseSensitive) =
         IF needle = <<>> THEN Some(0)
         ELSE IF Substrings = {} THEN None ELSE Some(Min(Substrings))
    /\ needle # <<>> =>
         \A i \in 0..(Len(hay) - Len(needle)) : \A x \in Reads(hay, needle, i, ptr) :
            \E b \in 0..(Len(hay) - 1) : (ptr + x) \div (2 * W) = (ptr + b) \div (2 * W)
=============================================================================
