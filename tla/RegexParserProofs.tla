------------------------- MODULE RegexParserProofs -------------------------
(***************************************************************************)
(* Of the parser of RegexParser, for every text: the cursor stays inside   *)
(* the text while a call is in progress, and the Regex of an accepted text *)
(* is built the way the compiler and the operations take for granted, at   *)
(* every depth of its expressions.                                         *)
(***************************************************************************)
EXTENDS RegexParser, SequenceTheorems, WellFoundedInduction, TLAPS

-----------------------------------------------------------------------------
(* Positions. *)

\* A set of numbers that is not empty has a least element.
LEMMA LeastNumber ==
    ASSUME NEW S \in SUBSET Nat, S # {}
    PROVE  \E n \in S : \A m \in S : n <= m
  <1>1. PICK n \in S : \A m \in S : ~(<<m, n>> \in OpToRel(<, Nat))
    BY NatLessThanWellFounded, WFMin
  <1>2. \A m \in S : ~(m < n)
    BY <1>1, Zenon DEF OpToRel
  <1> QED
    BY <1>2

\* Min of a set of numbers is its least element.
LEMMA MinIsLeast ==
    ASSUME NEW S \in SUBSET Nat, S # {}
    PROVE  Min(S) \in S /\ \A m \in S : Min(S) <= m
  BY LeastNumber DEF Min

\* What holds of a function at a position when it holds at all later ones
\* holds everywhere.
LEMMA FromTheEnd ==
    ASSUME NEW n \in Nat, NEW f, NEW P,
           \A j \in 0 .. n : (\A k \in j + 1 .. n : f[k] \in P[k]) => f[j] \in P[j]
    PROVE  \A j \in 0 .. n : f[j] \in P[j]
  <1> DEFINE Off == {m \in 0 .. n : f[n - m] \notin P[n - m]}
  <1>1. ASSUME Off # {}
        PROVE  FALSE
    <2>1. Off \in SUBSET Nat
      OBVIOUS
    <2>2. PICK m \in Off : \A b \in Off : m <= b
      <3> HIDE DEF Off
      <3> QED
        BY <1>1, <2>1, LeastNumber
    <2> DEFINE j == n - m
    <2>3. j \in 0 .. n /\ f[j] \notin P[j]
      BY <2>2
    <2>4. ASSUME NEW k \in j + 1 .. n
          PROVE  f[k] \in P[k]
      <3>1. n - k \in 0 .. n /\ n - k < m /\ n - (n - k) = k
        BY <2>3
      <3> QED
        BY <2>2, <3>1
    <2> QED
      BY <2>3, <2>4
  <1> SUFFICES ASSUME NEW i \in 0 .. n
               PROVE  f[i] \in P[i]
    OBVIOUS
  <1>2. n - i \in 0 .. n /\ n - (n - i) = i
    OBVIOUS
  <1>3. f[n - (n - i)] \in P[n - (n - i)]
    BY <1>1, <1>2
  <1> QED
    BY <1>2, <1>3

(* A function may be defined from each position to a later one. *)
isDefinedFromLater(f, n, go, hop, step, val) ==
    f = [j \in 0 .. n |-> IF j \in go THEN step[j][f[hop[j]]] ELSE val[j]]

LEMMA DefinedFromLater ==
    ASSUME NEW n \in Nat, NEW go \in SUBSET (0 .. n), NEW hop, NEW step, NEW val,
           \A j \in go : hop[j] \in j + 1 .. n
    PROVE  \E f : isDefinedFromLater(f, n, go, hop, step, val)
  <1> DEFINE from(k, f) ==
                 f = [j \in k .. n |-> IF j \in go THEN step[j][f[hop[j]]] ELSE val[j]]
             Bad == {m \in 0 .. n : ~\E f : from(n - m, f)}
  <1>1. ASSUME Bad # {}
        PROVE  FALSE
    <2>1. Bad \in SUBSET Nat
      OBVIOUS
    <2>2. PICK m \in Bad : \A b \in Bad : m <= b
      <3> HIDE DEF Bad
      <3> QED
        BY <1>1, <2>1, LeastNumber
    <2> DEFINE k == n - m
    <2>3. k \in 0 .. n /\ ~\E f : from(k, f)
      BY <2>2
    <2>4. \E f : from(k + 1, f)
      <3>1. CASE m = 0
        <4>1. from(k + 1, [j \in {} |-> 0])
          BY <3>1
        <4> QED
          BY <4>1
      <3>2. CASE m # 0
        <4>1. m \in 0 .. n
          OBVIOUS
        <4>2. m - 1 \in 0 .. n /\ n - (m - 1) = k + 1
          BY <3>2, <4>1
        <4>3. m - 1 \notin Bad
          <5> HIDE DEF Bad
          <5> QED
            BY <2>2, <4>1
        <4>4. \E f : from(n - (m - 1), f)
          BY <4>2, <4>3
        <4> HIDE DEF from, k
        <4> QED
          BY <4>2, <4>4
      <3> QED
        BY <3>1, <3>2
    <2>5. PICK g : from(k + 1, g)
      BY <2>4
    <2> DEFINE h == [j \in k .. n |-> IF j = k
                                       THEN IF k \in go THEN step[k][g[hop[k]]] ELSE val[k]
                                       ELSE g[j]]
    <2>6. \A j \in k .. n : j \in go => hop[j] \in k + 1 .. n
      BY <2>3
    <2>7. \A j \in k + 1 .. n : j \in k .. n /\ j # k /\ h[j] = g[j]
      BY <2>3
    <2>8. \A j \in k .. n : h[j] = IF j \in go THEN step[j][h[hop[j]]] ELSE val[j]
      <3> SUFFICES ASSUME NEW j \in k .. n
                   PROVE  h[j] = IF j \in go THEN step[j][h[hop[j]]] ELSE val[j]
        OBVIOUS
      <3>1. j \in go => h[hop[j]] = g[hop[j]]
        BY <2>6, <2>7
      <3>2. CASE j = k
        BY <3>1, <3>2
      <3>3. CASE j # k
        <4>1. j \in k + 1 .. n
          BY <2>3, <3>3
        <4>2. g[j] = IF j \in go THEN step[j][g[hop[j]]] ELSE val[j]
          BY <2>5, <4>1
        <4> QED
          BY <2>7, <3>1, <4>1, <4>2
      <3> QED
        BY <3>2, <3>3
    <2>9. from(k, h)
      <3>1. h = [j \in k .. n |-> h[j]]
        OBVIOUS
      <3> HIDE DEF h, k
      <3> QED
        BY <2>8, <3>1
    <2> QED
      BY <2>3, <2>9
  <1>2. \E f : from(0, f)
    <2>1. n \in 0 .. n /\ n - n = 0
      OBVIOUS
    <2>2. \E f : from(n - n, f)
      BY <1>1, <2>1
    <2> QED
      BY <2>1, <2>2
  <1> QED
    BY <1>2 DEF isDefinedFromLater

-----------------------------------------------------------------------------
(* The cursor. *)

(* There is a text in between its slashes, up to the closing one at epos. *)
opened ==
    /\ text \in Seq(Characters)
    /\ epos \in Nat /\ epos + 2 <= Len(text)
    /\ charAt(epos) = "/"

LEMMA CharAtCharacter ==
    ASSUME opened, NEW i \in 0 .. epos
    PROVE  charAt(i) \in Characters
  BY DEF opened, charAt

\* A scan stops at the end or at the first of the characters.
LEMMA UpToInside ==
    ASSUME opened, NEW i \in 0 .. epos, NEW tks
    PROVE  /\ upTo(i, tks) \in i .. epos
           /\ upTo(i, tks) # epos => charAt(upTo(i, tks)) \in tks
           /\ \A k \in i .. upTo(i, tks) - 1 : charAt(k) \notin tks
  <1> DEFINE S == {j \in i .. epos : isEOS(j) \/ charAt(j) \in tks}
  <1>1. epos \in Nat /\ S \in SUBSET Nat /\ epos \in S
    BY DEF opened, isEOS
  <1>2. Min(S) \in S /\ \A m \in S : Min(S) <= m
    <2> HIDE DEF S
    <2> QED
      BY <1>1, MinIsLeast
  <1> QED
    BY <1>1, <1>2 DEF upTo, isEOS

\* Two characters in a row are before the end.
LEMMA TwoTokens ==
    ASSUME opened, NEW i \in 0 .. epos, NEW c, NEW d, isTokens(i, <<c, d>>)
    PROVE  i + 2 <= epos /\ charAt(i) = c /\ charAt(i + 1) = d
  <1>1. Len(<<c, d>>) = 2 /\ DOMAIN <<c, d>> = 1 .. 2
    OBVIOUS
  <1>2. i + 2 <= epos
    BY <1>1 DEF isTokens
  <1>3. charAt(i + 1 - 1) = c /\ charAt(i + 2 - 1) = d
    BY <1>1 DEF isTokens
  <1>4. i + 1 - 1 = i /\ i + 2 - 1 = i + 1
    OBVIOUS
  <1> QED
    BY <1>2, <1>3, <1>4

LEMMA EndOfInlineCommentInside ==
    ASSUME opened, NEW i \in 0 .. epos
    PROVE  endOfInlineComment(i) \in i .. epos
  <1> DEFINE S == {k \in i .. epos : isEOS(k) \/ isTokens(k, <<"*", "%">>)}
  <1>1. epos \in Nat /\ S \in SUBSET Nat /\ epos \in S
    BY DEF opened, isEOS
  <1>2. Min(S) \in S
    <2> HIDE DEF S
    <2> QED
      BY <1>1, MinIsLeast
  <1>3. ~isEOS(Min(S)) => Min(S) + 2 <= epos
    BY <1>2, TwoTokens
  <1> QED
    BY <1>1, <1>2, <1>3 DEF endOfInlineComment, isEOS

\* White space and comments are skipped forwards and not past the end.
LEMMA AdvanceTriviaOnlyInside ==
    ASSUME opened, NEW i \in 0 .. epos
    PROVE  advanceTriviaOnly(i) \in i .. epos
  <1> DEFINE hopAt(j) == IF isTokens(j, <<"%", "*">>) THEN endOfInlineComment(j + 2)
                         ELSE IF charAt(j) \in WhiteSpace THEN j + 1
                         ELSE upTo(j, {"\n"})
             goes(j) == \/ isTokens(j, <<"%", "*">>)
                        \/ ~isEOS(j) /\ (charAt(j) \in WhiteSpace \/ isTokens(j, <<"%", "%">>))
             n == epos
             go == {j \in 0 .. n : goes(j)}
             hop == [j \in 0 .. n |-> hopAt(j)]
             step == [j \in 0 .. n |-> [x \in 0 .. n |-> x]]
             val == [j \in 0 .. n |-> j]
             body(f) == [j \in 0 .. epos |->
                           IF isTokens(j, <<"%", "*">>) THEN f[endOfInlineComment(j + 2)]
                           ELSE IF isEOS(j) THEN j
                           ELSE IF charAt(j) \in WhiteSpace THEN f[j + 1]
                           ELSE IF isTokens(j, <<"%", "%">>) THEN f[upTo(j, {"\n"})]
                           ELSE j]
             P == [j \in 0 .. n |-> j .. n]
             later(f) == isDefinedFromLater(f, n, go, hop, step, val)
  <1>1. n \in Nat /\ go \in SUBSET (0 .. n)
    BY DEF opened
  <1>2. \A j \in go : hopAt(j) \in j + 1 .. n
    <2> SUFFICES ASSUME NEW j \in go
                 PROVE  hopAt(j) \in j + 1 .. n
      OBVIOUS
    <2>1. CASE isTokens(j, <<"%", "*">>)
      <3>1. j + 2 \in 0 .. epos
        BY <1>1, <2>1, TwoTokens
      <3>2. endOfInlineComment(j + 2) \in j + 2 .. epos
        BY <3>1, EndOfInlineCommentInside
      <3> QED
        BY <1>1, <2>1, <3>2
    <2>2. CASE ~isTokens(j, <<"%", "*">>) /\ charAt(j) \in WhiteSpace
      <3>1. j # epos
        BY <2>2 DEF isEOS
      <3> QED
        BY <1>1, <2>2, <3>1
    <2>3. CASE ~isTokens(j, <<"%", "*">>) /\ charAt(j) \notin WhiteSpace
      <3>1. isTokens(j, <<"%", "%">>) /\ j # epos
        BY <2>3 DEF isEOS
      <3>2. charAt(j) = "%"
        BY <3>1, TwoTokens
      <3>3. upTo(j, {"\n"}) \in j .. epos /\ upTo(j, {"\n"}) # j
        BY <3>1, <3>2, UpToInside
      <3> QED
        BY <1>1, <2>3, <3>3
    <2> QED
      BY <2>1, <2>2, <2>3
  <1>3. ASSUME NEW f, \A j \in 0 .. n : f[j] = IF goes(j) THEN f[hopAt(j)] ELSE j
        PROVE  \A j \in 0 .. n : f[j] \in j .. n
    <2>1. \A j \in 0 .. n : (\A k \in j + 1 .. n : f[k] \in P[k]) => f[j] \in P[j]
      <3> SUFFICES ASSUME NEW j \in 0 .. n, \A k \in j + 1 .. n : f[k] \in P[k]
                   PROVE  f[j] \in P[j]
        OBVIOUS
      <3>1. f[j] = IF goes(j) THEN f[hopAt(j)] ELSE j
        BY <1>3
      <3>2. goes(j) => hopAt(j) \in j + 1 .. n
        BY <1>2
      <3> HIDE DEF hopAt, goes
      <3>3. CASE goes(j)
        <4>1. f[hopAt(j)] \in P[hopAt(j)]
          BY <3>2, <3>3
        <4>2. f[hopAt(j)] \in hopAt(j) .. n
          BY <1>1, <3>2, <3>3, <4>1
        <4> QED
          BY <1>1, <3>1, <3>2, <3>3, <4>2
      <3>4. CASE ~goes(j)
        BY <1>1, <3>1, <3>4
      <3> QED
        BY <3>3, <3>4
    <2>2. \A j \in 0 .. n : f[j] \in P[j]
      <3> HIDE DEF n, P
      <3> QED
        BY <1>1, <2>1, FromTheEnd
    <2> QED
      BY <2>2
  <1>4. PICK f : later(f)
    <2>1. \A j \in go : hop[j] \in j + 1 .. n
      <3> HIDE DEF hopAt, goes
      <3> QED
        BY <1>2
    <2> HIDE DEF n, go, hop, step, val
    <2> QED
      BY <1>1, <2>1, DefinedFromLater
  <1>5. \A j \in 0 .. n : f[j] = IF goes(j) THEN f[hopAt(j)] ELSE j
    <2>1. \A j \in 0 .. n : f[j] = IF j \in go THEN step[j][f[hop[j]]] ELSE val[j]
      <3> HIDE DEF n, go, hop, step, val
      <3> QED
        BY <1>4 DEF isDefinedFromLater
    <2>2. \A j \in 0 .. n : f[j] = IF goes(j) THEN step[j][f[hopAt(j)]] ELSE j
      <3> HIDE DEF hopAt, goes
      <3> QED
        BY <2>1
    <2> DEFINE Q == [j \in 0 .. n |-> 0 .. n]
    <2>3. \A j \in 0 .. n : (\A k \in j + 1 .. n : f[k] \in Q[k]) => f[j] \in Q[j]
      <3> SUFFICES ASSUME NEW j \in 0 .. n, \A k \in j + 1 .. n : f[k] \in Q[k]
                   PROVE  f[j] \in Q[j]
        OBVIOUS
      <3>1. f[j] = IF goes(j) THEN step[j][f[hopAt(j)]] ELSE j
        BY <2>2
      <3>2. goes(j) => hopAt(j) \in j + 1 .. n
        BY <1>2
      <3> HIDE DEF hopAt, goes
      <3>3. CASE goes(j)
        <4>1. f[hopAt(j)] \in Q[hopAt(j)] /\ hopAt(j) \in 0 .. n
          BY <1>1, <3>2, <3>3
        <4>2. f[hopAt(j)] \in 0 .. n
          BY <4>1
        <4> QED
          BY <3>1, <3>3, <4>2
      <3>4. CASE ~goes(j)
        BY <3>1, <3>4
      <3> QED
        BY <3>3, <3>4
    <2>4. \A j \in 0 .. n : f[j] \in Q[j]
      <3> HIDE DEF n, Q
      <3> QED
        BY <1>1, <2>3, FromTheEnd
    <2>5. \A j \in 0 .. n : goes(j) => hopAt(j) \in 0 .. n
      <3> HIDE DEF hopAt, goes
      <3> QED
        BY <1>1, <1>2
    <2>6. \A j \in 0 .. n : goes(j) => step[j][f[hopAt(j)]] = f[hopAt(j)]
      <3> HIDE DEF hopAt, goes
      <3> QED
        BY <2>4, <2>5
    <2> HIDE DEF hopAt, goes, step
    <2> QED
      BY <2>2, <2>6
  <1>6. f = body(f)
    <2>1. f = [j \in 0 .. n |-> f[j]]
      <3> HIDE DEF go, hop, step, val
      <3> QED
        BY <1>4 DEF isDefinedFromLater
    <2>2. \A j \in 0 .. n : f[j] = body(f)[j]
      BY <1>5
    <2> QED
      BY <2>1, <2>2
  <1> DEFINE g == CHOOSE h : h = body(h)
  <1>7. g = body(g)
    <2> HIDE DEF body
    <2> QED
      BY <1>6
  <1>8. \A j \in 0 .. n : g[j] = IF goes(j) THEN g[hopAt(j)] ELSE j
    <2> HIDE DEF g
    <2> QED
      BY <1>7
  <1>9. g[i] \in i .. n
    <2> HIDE DEF g, goes, hopAt
    <2> QED
      BY <1>3, <1>8
  <1>10. advanceTriviaOnly(i) = g[i]
    BY DEF advanceTriviaOnly
  <1> HIDE DEF g
  <1> QED
    BY <1>9, <1>10
LEMMA AdvanceInside ==
    ASSUME opened, NEW i \in 0 .. epos
    PROVE  advance(i) \in i .. epos
  <1>1. (IF isEOS(i) THEN i ELSE i + 1) \in i .. epos
    BY DEF opened, isEOS
  <1>2. advanceTriviaOnly(IF isEOS(i) THEN i ELSE i + 1) \in (IF isEOS(i) THEN i ELSE i + 1) .. epos
    BY <1>1, AdvanceTriviaOnlyInside DEF opened
  <1> QED
    BY <1>1, <1>2 DEF advance, opened

LEMMA EatInside ==
    ASSUME opened, NEW i \in 0 .. epos, NEW tk
    PROVE  eat(i, tk) \in i .. epos
  BY AdvanceInside DEF eat, opened

LEMMA ScansInside ==
    ASSUME opened, NEW i \in 0 .. epos, NEW tk
    PROVE  scanToSyncToken(i, tk) \in i .. epos /\ scanToSyncTokenAtomic(i) \in i .. epos
  <1> DEFINE S == {"(", "[", "{", "|", "&", "*", "+", "?", "."} \cup Closing
  <1>1. upTo(i, {tk}) \in i .. epos /\ upTo(i, S) \in i .. epos
    BY UpToInside
  <1>2. scanToSyncToken(i, tk) \in i .. epos
    <2> DEFINE j == upTo(i, {tk})
    <2>1. scanToSyncToken(i, tk) = IF j = epos THEN j ELSE j + 1
      BY DEF scanToSyncToken, isEOS
    <2>2. epos \in Nat /\ j \in i .. epos
      BY <1>1 DEF opened
    <2> HIDE DEF j
    <2> QED
      BY <2>1, <2>2
  <1>3. scanToSyncTokenAtomic(i) =
            IF isEOS(upTo(i, S)) THEN upTo(i, S)
            ELSE IF charAt(upTo(i, S)) \in Closing /\ ~isEOS(upTo(i, S) + 1) THEN upTo(i, S) + 2
            ELSE upTo(i, S) + 1
    BY DEF scanToSyncTokenAtomic
  <1> HIDE DEF S
  <1>4. scanToSyncTokenAtomic(i) \in i .. epos
    BY <1>1, <1>3 DEF isEOS, opened
  <1> QED
    BY <1>2, <1>4

\* The loop over the elements of a range ends in the text or one past it.
LEMMA RangeElementsInside ==
    ASSUME opened, NEW i \in 0 .. epos
    PROVE  rangeElements(i).cpos \in 0 .. epos + 1
  <1> DEFINE n == epos
             C == Seq(Characters)
             X == [cpos : 0 .. n + 1, re : Seq(C), bad : BOOLEAN]
             stops(j) == isEOS(j) \/ charAt(j) = "]"
             past(j) == isToken(j + 1, "-") /\ ~isToken(j + 2, "]") /\ isEOS(j + 2)
             goes(j) == ~stops(j) /\ ~past(j)
             hopAt(j) == IF ~isToken(j + 1, "-") THEN j + 1
                         ELSE IF isToken(j + 2, "]") THEN j + 2 ELSE j + 3
             single(j) == <<charAt(j), charAt(j)>>
             ranges(j) == IF ~isToken(j + 1, "-") THEN <<single(j)>>
                          ELSE IF isToken(j + 2, "]") THEN <<single(j), <<"-", "-">>>>
                          ELSE <<minmax(charAt(j), charAt(j + 2))>>
             bad(j) == \/ charAt(j) \in NonPrintable
                       \/ /\ isToken(j + 1, "-") /\ ~isToken(j + 2, "]")
                          /\ charAt(j + 2) \in NonPrintable
             then(j, x) == Parsed(x.cpos, ranges(j) \o x.re, bad(j) \/ x.bad)
             stop(j) == IF stops(j) THEN Parsed(j, <<>>, FALSE) ELSE Parsed(epos + 1, <<>>, TRUE)
             go == {j \in 0 .. n : goes(j)}
             hop == [j \in 0 .. n |-> hopAt(j)]
             step == [j \in 0 .. n |-> [x \in X |-> then(j, x)]]
             val == [j \in 0 .. n |-> stop(j)]
             later(f) == isDefinedFromLater(f, n, go, hop, step, val)
             body(f) == [j \in 0 .. epos |->
                 LET bad0 == charAt(j) \in NonPrintable
                     then0(k, rs, bad1) ==
                         LET rest == f[k] IN Parsed(rest.cpos, rs \o rest.re, bad1 \/ rest.bad)
                     single0 == <<charAt(j), charAt(j)>>
                 IN  IF isEOS(j) \/ charAt(j) = "]" THEN Parsed(j, <<>>, FALSE)
                     ELSE IF ~isToken(j + 1, "-") THEN then0(j + 1, <<single0>>, bad0)
                     ELSE IF isToken(j + 2, "]") THEN then0(j + 2, <<single0, <<"-", "-">>>>, bad0)
                     ELSE IF isEOS(j + 2) THEN Parsed(epos + 1, <<>>, TRUE)
                     ELSE then0(j + 3, <<minmax(charAt(j), charAt(j + 2))>>,
                               bad0 \/ charAt(j + 2) \in NonPrintable)]
  <1>1. n \in Nat /\ go \in SUBSET (0 .. n)
    BY DEF opened
  <1>2. \A j \in 0 .. n : goes(j) => hopAt(j) \in j + 1 .. n
    BY <1>1 DEF isToken, isEOS
  <1>3. \A j \in 0 .. n : stop(j) \in X
    BY <1>1 DEF Parsed
  <1>4. \A j \in 0 .. n : goes(j) => ranges(j) \in Seq(C) /\ bad(j) \in BOOLEAN
    <2> SUFFICES ASSUME NEW j \in 0 .. n, goes(j)
                 PROVE  ranges(j) \in Seq(C) /\ bad(j) \in BOOLEAN
      OBVIOUS
    <2>1. \A c, d \in Characters : <<c, d>> \in C
      OBVIOUS
    <2>2. charAt(j) \in Characters
      BY CharAtCharacter
    <2>3. single(j) \in C
      BY <2>1, <2>2
    <2>4. <<"-", "-">> \in C
      <3>1. Ascii[14] = "-" /\ 14 \in DOMAIN Ascii
        BY DEF Ascii
      <3>2. "-" \in Characters
        BY <3>1 DEF Characters
      <3> QED
        BY <2>1, <3>2
    <2>5. bad(j) \in BOOLEAN
      OBVIOUS
    <2> HIDE DEF C, single, bad
    <2>6. CASE ~isToken(j + 1, "-") \/ isToken(j + 2, "]")
      BY <2>3, <2>4, <2>5, <2>6
    <2>7. CASE ~(~isToken(j + 1, "-") \/ isToken(j + 2, "]"))
      <3>1. j + 2 \in 0 .. n
        BY <1>1, <2>7 DEF isToken, isEOS
      <3>2. charAt(j + 2) \in Characters
        BY <3>1, CharAtCharacter
      <3>3. minmax(charAt(j), charAt(j + 2)) \in C
        BY <2>1, <2>2, <3>2 DEF minmax
      <3> QED
        BY <2>5, <2>7, <3>3
    <2> QED
      BY <2>6, <2>7
  <1>5. \A j \in 0 .. n : goes(j) => \A x \in X : then(j, x) \in X
    <2> HIDE DEF C, goes, ranges, bad
    <2> QED
      BY <1>4 DEF Parsed
  <1>6. ASSUME NEW f, \A j \in 0 .. n : goes(j) => (f[hopAt(j)] \in X => f[j] \in X),
                      \A j \in 0 .. n : ~goes(j) => f[j] = stop(j)
        PROVE  \A j \in 0 .. n : f[j] \in X
    <2> DEFINE Q == [j \in 0 .. n |-> X]
    <2> HIDE DEF X, stop, goes, hopAt
    <2>1. ASSUME NEW j \in 0 .. n, \A k \in j + 1 .. n : f[k] \in Q[k]
          PROVE  f[j] \in Q[j]
      <3>1. CASE goes(j)
        <4>1. hopAt(j) \in j + 1 .. n /\ hopAt(j) \in 0 .. n
          BY <1>1, <1>2, <3>1
        <4>2. f[hopAt(j)] \in X
          BY <2>1, <4>1
        <4> QED
          BY <1>6, <3>1, <4>2
      <3>2. CASE ~goes(j)
        BY <1>3, <1>6, <3>2
      <3> QED
        BY <3>1, <3>2
    <2>2. \A j \in 0 .. n : f[j] \in Q[j]
      <3> HIDE DEF n, Q
      <3> QED
        BY <1>1, <2>1, FromTheEnd
    <2> QED
      BY <2>2
  <1>7. PICK f : later(f)
    <2>1. \A j \in go : hop[j] \in j + 1 .. n
      <3> HIDE DEF hopAt, goes
      <3> QED
        BY <1>2
    <2> HIDE DEF n, go, hop, step, val
    <2> QED
      BY <1>1, <2>1, DefinedFromLater
  <1>8. \A j \in 0 .. n : f[j] = IF goes(j) THEN step[j][f[hopAt(j)]] ELSE stop(j)
    <2>1. \A j \in 0 .. n : f[j] = IF j \in go THEN step[j][f[hop[j]]] ELSE val[j]
      <3> HIDE DEF n, go, hop, step, val
      <3> QED
        BY <1>7 DEF isDefinedFromLater
    <2> HIDE DEF hopAt, goes, stop, step
    <2> QED
      BY <2>1
  <1>9. \A j \in 0 .. n : f[j] \in X
    <2>1. \A j \in 0 .. n : goes(j) => (f[hopAt(j)] \in X => f[j] \in X)
      <3> HIDE DEF hopAt, goes, stop, then, X
      <3> QED
        BY <1>5, <1>8
    <2>2. \A j \in 0 .. n : ~goes(j) => f[j] = stop(j)
      <3> HIDE DEF hopAt, goes, stop, step
      <3> QED
        BY <1>8
    <2> HIDE DEF hopAt, goes, stop, X
    <2> QED
      BY <1>6, <2>1, <2>2
  <1>10. \A j \in 0 .. n : f[j] = IF goes(j) THEN then(j, f[hopAt(j)]) ELSE stop(j)
    <2>1. \A j \in 0 .. n : goes(j) => f[hopAt(j)] \in X
      <3> HIDE DEF hopAt, goes, X
      <3> QED
        BY <1>1, <1>2, <1>9
    <2> HIDE DEF hopAt, goes, stop, then, X
    <2> QED
      BY <1>8, <2>1
  <1>11. f = body(f)
    <2>1. f = [j \in 0 .. n |-> f[j]]
      <3> HIDE DEF go, hop, step, val
      <3> QED
        BY <1>7 DEF isDefinedFromLater
    <2>2. \A j \in 0 .. n : f[j] = body(f)[j]
      <3> SUFFICES ASSUME NEW j \in 0 .. n
                   PROVE  f[j] = body(f)[j]
        OBVIOUS
      <3>1. f[j] = IF goes(j) THEN then(j, f[hopAt(j)]) ELSE stop(j)
        <4> HIDE DEF hopAt, goes, stop, then
        <4> QED
          BY <1>10
      <3> QED
        BY <3>1
    <2> QED
      BY <2>1, <2>2
  <1> DEFINE g == CHOOSE h : h = body(h)
  <1>12. g = body(g)
    <2> HIDE DEF body
    <2> QED
      BY <1>11
  <1>13. \A j \in 0 .. n : g[j] = IF goes(j) THEN then(j, g[hopAt(j)]) ELSE stop(j)
    <2> HIDE DEF g
    <2> QED
      BY <1>12
  <1>14. g[i] \in X
    <2> HIDE DEF g
    <2>1. \A j \in 0 .. n : goes(j) => (g[hopAt(j)] \in X => g[j] \in X)
      <3> HIDE DEF hopAt, goes, stop, then, X
      <3> QED
        BY <1>5, <1>13
    <2>2. \A j \in 0 .. n : ~goes(j) => g[j] = stop(j)
      <3> HIDE DEF hopAt, goes, stop, then
      <3> QED
        BY <1>13
    <2> HIDE DEF hopAt, goes, stop, X
    <2> QED
      BY <1>6, <2>1, <2>2
  <1>15. rangeElements(i) = g[i]
    BY DEF rangeElements
  <1> HIDE DEF g
  <1> QED
    BY <1>14, <1>15
-----------------------------------------------------------------------------
(* What is read without a call. *)

isLeaf(r) == r.tag \in {"Literal", "CharRange", "CharClassDot", "NamedRegex", "EnvRegex"}

LEMMA LiteralInside ==
    ASSUME opened, NEW i \in 0 .. epos, i # epos
    PROVE  /\ parseLiteral(i).cpos \in 0 .. epos
           /\ ~parseLiteral(i).bad => isLeaf(parseLiteral(i).re)
  <1> DEFINE close == upTo(i + 1, {charAt(i)})
             early == upTo(i + 1, NonPrintable)
  <1>1. epos \in Nat /\ i + 1 \in 0 .. epos
    BY DEF opened
  <1>2. close \in i + 1 .. epos
    BY <1>1, UpToInside
  <1> HIDE DEF close, early
  <1>3. parseLiteral(i) =
            IF early < close THEN Parsed(i, NullOpt, TRUE)
            ELSE IF isEOS(close) THEN Parsed(epos, EmptyLiteral, TRUE)
            ELSE Parsed(close + 1, LiteralOpt(slice(i + 1, close)), FALSE)
    BY DEF parseLiteral, early, close
  <1> QED
    BY <1>1, <1>2, <1>3 DEF Parsed, isEOS, EmptyLiteral, LiteralOpt, isLeaf

LEMMA CharRangeInside ==
    ASSUME opened, NEW i \in 0 .. epos, i # epos
    PROVE  /\ parseCharRange(i).cpos \in 0 .. epos + 1
           /\ parseCharRange(i).cpos <= epos => isLeaf(parseCharRange(i).re)
  <1> DEFINE compliment == isToken(i + 1, "^")
             start == IF compliment THEN i + 2 ELSE i + 1
             hyphen == isToken(start, "-")
             elements == rangeElements(IF hyphen THEN start + 1 ELSE start)
             re == CharRangeOpt(compliment, (IF hyphen THEN <<<<"-", "-">>>> ELSE <<>>) \o elements.re)
  <1>1. epos \in Nat /\ i + 1 \in 0 .. epos
    BY DEF opened
  <1>2. start \in 0 .. epos
    BY <1>1 DEF isToken, isEOS
  <1> HIDE DEF start
  <1>3. (IF hyphen THEN start + 1 ELSE start) \in 0 .. epos
    BY <1>1, <1>2 DEF isToken, isEOS
  <1>4. elements.cpos \in 0 .. epos + 1
    BY <1>3, RangeElementsInside
  <1>5. isLeaf(re)
    BY DEF isLeaf, CharRangeOpt
  <1> HIDE DEF elements, re
  <1>6. parseCharRange(i) =
            IF elements.cpos > epos THEN elements
            ELSE IF isToken(elements.cpos, "]") THEN Parsed(elements.cpos + 1, re, elements.bad)
            ELSE Parsed(elements.cpos, re, TRUE)
    BY DEF parseCharRange, start, elements, re
  <1>7. CASE elements.cpos > epos
    <2>1. parseCharRange(i) = elements
      BY <1>6, <1>7
    <2> QED
      BY <1>1, <1>4, <1>7, <2>1
  <1>8. CASE ~(elements.cpos > epos)
    BY <1>1, <1>4, <1>5, <1>6, <1>8 DEF Parsed, isToken, isEOS
  <1> QED
    BY <1>7, <1>8

LEMMA DelimitedInside ==
    ASSUME opened, NEW i \in 0 .. epos, NEW close
    PROVE  delimited(i, close).cpos \in i .. epos
  <1> DEFINE j == upTo(i, {close})
  <1>1. j \in i .. epos /\ epos \in Nat
    BY UpToInside DEF opened
  <1>2. delimited(i, close).cpos = IF j = epos THEN j ELSE j + 1
    BY DEF delimited, Parsed, isEOS
  <1> HIDE DEF j
  <1> QED
    BY <1>1, <1>2

LEMMA NamesInside ==
    ASSUME opened, NEW i \in 0 .. epos
    PROVE  /\ parseNamedRegex(i).cpos \in 0 .. epos /\ isLeaf(parseNamedRegex(i).re)
           /\ isTokenEnvPfx(i) => parseEnvRegex(i).cpos \in 0 .. epos /\ isLeaf(parseEnvRegex(i).re)
  <1>1. advance(advance(i)) \in 0 .. epos
    <2>1. advance(i) \in 0 .. epos
      BY AdvanceInside DEF opened
    <2> QED
      BY <2>1, AdvanceInside DEF opened
  <1>2. parseNamedRegex(i).cpos \in 0 .. epos
    <2> DEFINE k == advance(advance(i))
    <2>1. parseNamedRegex(i).cpos = delimited(k, "}").cpos
      BY DEF parseNamedRegex, Parsed
    <2>2. k \in 0 .. epos /\ epos \in Nat
      BY <1>1 DEF opened
    <2> HIDE DEF k
    <2>3. delimited(k, "}").cpos \in k .. epos
      BY <2>2, DelimitedInside
    <2>4. delimited(k, "}").cpos \in 0 .. epos
      <3> DEFINE c == delimited(k, "}").cpos
      <3>1. c \in k .. epos
        BY <2>3
      <3> HIDE DEF c
      <3>2. c \in 0 .. epos
        BY <2>2, <3>1
      <3> QED
        BY <3>2 DEF c
    <2> QED
      BY <2>1, <2>4
  <1>3. isTokenEnvPfx(i) => i + 4 \in 0 .. epos
    <2>1. Len(<<"e", "n", "v", "[">>) = 4
      OBVIOUS
    <2> QED
      BY <2>1 DEF isTokenEnvPfx, isTokens, opened
  <1>4. isTokenEnvPfx(i) => parseEnvRegex(i).cpos \in 0 .. epos
    <2>1. isTokenEnvPfx(i) => delimited(i + 4, "]").cpos \in 0 .. epos
      BY <1>3, DelimitedInside DEF opened
    <2> QED
      BY <2>1 DEF parseEnvRegex, Parsed
  <1>5. isLeaf(parseNamedRegex(i).re) /\ isLeaf(parseEnvRegex(i).re)
    BY DEF parseNamedRegex, parseEnvRegex, Parsed, NamedRegexOpt, EnvRegexOpt, isLeaf
  <1> QED
    BY <1>2, <1>4, <1>5

\* An atom leaves the cursor in the text, or one past it where the code reads
\* outside, and returns an expression without parts or reports an error.
LEMMA AtomInside ==
    ASSUME opened, NEW i \in 0 .. epos
    PROVE  /\ parseAtom(i).cpos \in 0 .. epos + 1
           /\ parseAtom(i).cpos <= epos /\ ~parseAtom(i).bad => isLeaf(parseAtom(i).re)
  <1>1. epos \in Nat /\ charAt(epos) = "/"
    BY DEF opened
  <1>2. isNamedPfx(i) => charAt(i) = "$"
    BY TwoTokens DEF isNamedPfx
  <1>3. isTokenEnvPfx(i) => charAt(i) = "e"
    <2>1. charAt(i + 1 - 1) = charAt(i) /\ 1 \in DOMAIN <<"e", "n", "v", "[">>
      OBVIOUS
    <2> QED
      BY <2>1 DEF isTokenEnvPfx, isTokens
  <1>4. CASE charAt(i) \in {"\"", "'"}
    <2>1. i # epos
      BY <1>1, <1>4
    <2>2. ~isNamedPfx(i) /\ ~isTokenEnvPfx(i)
      BY <1>2, <1>3, <1>4
    <2>3. CASE (charAt(i) = "\"") = isUnicode
      <3>1. parseAtom(i) = parseLiteral(i)
        BY <1>4, <2>2, <2>3 DEF parseAtom
      <3> QED
        BY <1>1, <2>1, <3>1, LiteralInside
    <2>4. CASE ~((charAt(i) = "\"") = isUnicode)
      <3>1. parseAtom(i) = Parsed(scanToSyncToken(i, charAt(i)), EmptyLiteral, TRUE)
        BY <1>4, <2>2, <2>4 DEF parseAtom
      <3>2. scanToSyncToken(i, charAt(i)) \in i .. epos
        BY ScansInside
      <3> QED
        BY <1>1, <3>1, <3>2 DEF Parsed
    <2> QED
      BY <2>3, <2>4
  <1>5. CASE charAt(i) = "["
    <2>1. ~isNamedPfx(i) /\ ~isTokenEnvPfx(i) /\ i # epos
      BY <1>1, <1>2, <1>3, <1>5
    <2>2. parseAtom(i) = parseCharRange(i)
      BY <1>5, <2>1 DEF parseAtom
    <2> QED
      BY <2>1, <2>2, CharRangeInside
  <1>6. CASE charAt(i) = "."
    <2>1. ~isNamedPfx(i) /\ ~isTokenEnvPfx(i) /\ i # epos
      BY <1>1, <1>2, <1>3, <1>6
    <2>2. parseAtom(i) = Parsed(i + 1, CharClassDotOpt, FALSE)
      BY <1>6, <2>1 DEF parseAtom
    <2> QED
      BY <1>1, <2>1, <2>2 DEF Parsed, CharClassDotOpt, isLeaf
  <1> DEFINE other == charAt(i) \notin {"\"", "'", "[", "."}
  <1>7. CASE other /\ isNamedPfx(i)
    <2>1. ~isTokenEnvPfx(i)
      BY <1>2, <1>3, <1>7
    <2>2. parseAtom(i) = parseNamedRegex(i)
      BY <1>7, <2>1 DEF parseAtom
    <2> QED
      BY <1>1, <2>2, NamesInside
  <1>8. CASE other /\ ~isNamedPfx(i) /\ isTokenEnvPfx(i)
    <2>1. parseAtom(i) = parseEnvRegex(i)
      BY <1>8 DEF parseAtom
    <2>2. parseEnvRegex(i).cpos \in 0 .. epos /\ isLeaf(parseEnvRegex(i).re)
      BY <1>8, NamesInside
    <2> QED
      BY <1>1, <2>1, <2>2
  <1>9. CASE other /\ ~isNamedPfx(i) /\ ~isTokenEnvPfx(i)
    <2>1. parseAtom(i) = Parsed(scanToSyncTokenAtomic(i), EmptyLiteral, TRUE)
      BY <1>9 DEF parseAtom
    <2>2. scanToSyncTokenAtomic(i) \in i .. epos
      BY ScansInside
    <2> QED
      BY <1>1, <2>1, <2>2 DEF Parsed
  <1> QED
    BY <1>4, <1>5, <1>6, <1>7, <1>8, <1>9
-----------------------------------------------------------------------------
(* The bounds of a repeat. *)

\* The digits come in the order of their values.
LEMMA CodesOfDigits ==
    ASSUME NEW d \in Digits
    PROVE  code(d) \in Nat /\ code("0") \in Nat /\ code("0") <= code(d)
  <1>1. /\ DOMAIN Ascii = 1 .. 43
        /\ Ascii[17] = "0" /\ Ascii[18] = "1" /\ Ascii[19] = "2" /\ Ascii[20] = "3"
        /\ Ascii[21] = "4" /\ Ascii[22] = "5" /\ Ascii[23] = "6" /\ Ascii[24] = "7"
        /\ Ascii[25] = "8" /\ Ascii[26] = "9"
    BY DEF Ascii
  <1>2. /\ Ascii[1] \notin Digits /\ Ascii[2] \notin Digits /\ Ascii[3] \notin Digits
        /\ Ascii[4] \notin Digits /\ Ascii[5] \notin Digits /\ Ascii[6] \notin Digits
        /\ Ascii[7] \notin Digits /\ Ascii[8] \notin Digits /\ Ascii[9] \notin Digits
        /\ Ascii[10] \notin Digits /\ Ascii[11] \notin Digits /\ Ascii[12] \notin Digits
        /\ Ascii[13] \notin Digits /\ Ascii[14] \notin Digits /\ Ascii[15] \notin Digits
        /\ Ascii[16] \notin Digits
    BY DEF Ascii, Digits
  <1>3. \A k \in 1 .. 16 : Ascii[k] \notin Digits
    BY <1>2
  <1>4. \E k \in 17 .. 26 : Ascii[k] = d
    BY <1>1 DEF Digits
  <1>5. code(d) \in DOMAIN Ascii /\ Ascii[code(d)] = d
    BY <1>1, <1>4 DEF code
  <1>6. code("0") = 17
    <2>1. Ascii[17] = "0" /\ 17 \in DOMAIN Ascii
      BY <1>1
    <2>2. code("0") \in DOMAIN Ascii /\ Ascii[code("0")] = "0"
      BY <2>1 DEF code
    <2>3. \A k \in 18 .. 26 : Ascii[k] # "0"
      BY <1>1
    <2>4. /\ Ascii[27] # "0" /\ Ascii[28] # "0" /\ Ascii[29] # "0" /\ Ascii[30] # "0"
          /\ Ascii[31] # "0" /\ Ascii[32] # "0" /\ Ascii[33] # "0" /\ Ascii[34] # "0"
          /\ Ascii[35] # "0" /\ Ascii[36] # "0" /\ Ascii[37] # "0" /\ Ascii[38] # "0"
          /\ Ascii[39] # "0" /\ Ascii[40] # "0" /\ Ascii[41] # "0" /\ Ascii[42] # "0"
          /\ Ascii[43] # "0"
      BY DEF Ascii
    <2>5. \A k \in 27 .. 43 : Ascii[k] # "0"
      BY <2>4
    <2>6. \A k \in 1 .. 16 : Ascii[k] # "0"
      BY <1>3 DEF Digits
    <2> QED
      BY <1>1, <2>2, <2>3, <2>5, <2>6
  <1>7. code(d) \in 17 .. 43
    BY <1>1, <1>3, <1>5
  <1> QED
    BY <1>6, <1>7

LEMMA DecimalIsNatural ==
    ASSUME NEW ds \in Seq(Digits)
    PROVE  decimal(ds) \in Nat
  <1> DEFINE body(f) == [k \in 0 .. Len(ds) |->
                 IF k = 0 THEN 0 ELSE f[k - 1] * 10 + (code(ds[k]) - code("0"))]
             n == CHOOSE f : f = body(f)
             last == Len(ds)
  <1>1. last \in Nat
    OBVIOUS
  <1>2. \E f : f = body(f)
    <2> DEFINE upTo0(m, f) == f = [k \in 0 .. m |->
                 IF k = 0 THEN 0 ELSE f[k - 1] * 10 + (code(ds[k]) - code("0"))]
               Bad == {m \in 0 .. last : ~\E f : upTo0(m, f)}
    <2>1. ASSUME Bad # {}
          PROVE  FALSE
      <3>1. Bad \in SUBSET Nat
        BY <1>1
      <3>2. PICK m \in Bad : \A b \in Bad : m <= b
        <4> HIDE DEF Bad
        <4> QED
          BY <2>1, <3>1, LeastNumber
      <3>3. m \in 0 .. last /\ ~\E f : upTo0(m, f)
        BY <3>2
      <3>4. m # 0
        <4>1. upTo0(0, [k \in 0 .. 0 |-> 0])
          OBVIOUS
        <4> QED
          BY <3>3, <4>1
      <3>5. m - 1 \in 0 .. last /\ m - 1 \notin Bad
        <4>1. m - 1 \in 0 .. last
          BY <1>1, <3>3, <3>4
        <4> HIDE DEF Bad
        <4> QED
          BY <1>1, <3>2, <3>3, <4>1
      <3>6. PICK f : upTo0(m - 1, f)
        BY <3>5
      <3> DEFINE h == [k \in 0 .. m |-> IF k = m THEN f[m - 1] * 10 + (code(ds[m]) - code("0")) ELSE f[k]]
      <3>7. \A k \in 0 .. m - 1 : k \in 0 .. m /\ k # m /\ h[k] = f[k]
        BY <3>3
      <3>8. \A k \in 0 .. m : h[k] = IF k = 0 THEN 0 ELSE h[k - 1] * 10 + (code(ds[k]) - code("0"))
        <4> SUFFICES ASSUME NEW k \in 0 .. m
                     PROVE  h[k] = IF k = 0 THEN 0 ELSE h[k - 1] * 10 + (code(ds[k]) - code("0"))
          OBVIOUS
        <4>1. k # 0 => h[k - 1] = f[k - 1]
          BY <3>3, <3>7
        <4>2. CASE k = m
          BY <3>4, <4>1, <4>2
        <4>3. CASE k # m
          <5>1. k \in 0 .. m - 1
            BY <3>3, <4>3
          <5>2. f[k] = IF k = 0 THEN 0 ELSE f[k - 1] * 10 + (code(ds[k]) - code("0"))
            BY <3>6, <5>1
          <5> QED
            BY <3>7, <4>1, <5>1, <5>2
        <4> QED
          BY <4>2, <4>3
      <3>9. upTo0(m, h)
        <4>1. h = [k \in 0 .. m |-> h[k]]
          OBVIOUS
        <4> HIDE DEF h
        <4> QED
          BY <3>8, <4>1
      <3> QED
        BY <3>3, <3>9
    <2>2. last \in 0 .. last
      BY <1>1
    <2>3. \E f : upTo0(last, f)
      BY <2>1, <2>2
    <2> QED
      BY <2>3
  <1>3. n = body(n)
    <2> HIDE DEF body
    <2> QED
      BY <1>2
  <1>4. \A k \in 0 .. last : n[k] = IF k = 0 THEN 0 ELSE n[k - 1] * 10 + (code(ds[k]) - code("0"))
    <2> HIDE DEF n
    <2> QED
      BY <1>3
  <1> DEFINE Off == {k \in 0 .. last : n[k] \notin Nat}
  <1> HIDE DEF n
  <1>5. ASSUME Off # {}
        PROVE  FALSE
    <2>1. Off \in SUBSET Nat
      BY <1>1
    <2>2. PICK k \in Off : \A b \in Off : k <= b
      <3> HIDE DEF Off
      <3> QED
        BY <1>5, <2>1, LeastNumber
    <2>3. k \in 0 .. last /\ n[k] \notin Nat
      BY <2>2
    <2>4. k # 0
      BY <1>4, <2>3
    <2>5. k - 1 \in 0 .. last
      BY <1>1, <2>3, <2>4
    <2>6. k - 1 \notin Off
      <3> HIDE DEF Off
      <3> QED
        BY <2>2, <2>3
    <2>7. n[k - 1] \in Nat
      BY <2>5, <2>6
    <2>8. ds[k] \in Digits
      BY <2>3, <2>4
    <2>9. n[k] = n[k - 1] * 10 + (code(ds[k]) - code("0"))
      BY <1>4, <2>3, <2>4
    <2>10. code(ds[k]) \in Nat /\ code("0") \in Nat /\ code("0") <= code(ds[k])
      BY <2>8, CodesOfDigits
    <2> QED
      BY <2>3, <2>7, <2>9, <2>10
  <1>6. decimal(ds) = n[last]
    BY DEF decimal, n
  <1>7. last \in 0 .. last
    BY <1>1
  <1> QED
    BY <1>5, <1>6, <1>7

\* A bound is the one given or a number the width holds.
LEMMA BoundInside ==
    ASSUME opened, NEW i \in 0 .. epos, NEW vv
    PROVE  /\ parseRangeRepeatBound(i, vv).cpos \in i .. epos
           /\ parseRangeRepeatBound(i, vv).val \in {vv} \cup 0 .. UINT16_MAX
  <1> DEFINE start == IF isToken(i, "-") THEN i + 1 ELSE i
             end == upTo(start, Characters \ Digits)
             digits == slice(start, end)
             wrong == (Len(digits) > 1 /\ digits[1] = "0") \/ decimal(digits) > UINT16_MAX
             has == digits # <<>> /\ ~wrong
  <1>1. epos \in Nat /\ start \in i .. epos
    BY DEF opened, isToken, isEOS
  <1>2. start \in 0 .. epos
    BY <1>1
  <1> HIDE DEF start
  <1>3. end \in start .. epos /\ \A k \in start .. end - 1 : charAt(k) \notin Characters \ Digits
    BY <1>2, UpToInside
  <1> HIDE DEF end
  <1>4. digits \in Seq(Digits)
    <2>1. \A k \in start .. end - 1 : charAt(k) \in Digits
      BY <1>1, <1>2, <1>3, CharAtCharacter
    <2>2. \A k \in start + 2 .. end + 1 : text[k] \in Digits
      <3> SUFFICES ASSUME NEW k \in start + 2 .. end + 1
                   PROVE  text[k] \in Digits
        OBVIOUS
      <3>1. k - 2 \in start .. end - 1 /\ (k - 2) + 2 = k
        BY <1>1, <1>2, <1>3
      <3>2. charAt(k - 2) \in Digits
        BY <2>1, <3>1
      <3> QED
        BY <3>1, <3>2 DEF charAt
    <2>3. start + 2 \in Int /\ end + 1 \in Int
      BY <1>1, <1>2, <1>3
    <2> QED
      BY <2>2, <2>3, SubSeqProperties DEF slice
  <1>5. decimal(digits) \in Nat
    BY <1>4, DecimalIsNatural
  <1> HIDE DEF digits
  <1>6. has => decimal(digits) \in 0 .. UINT16_MAX
    BY <1>5, WidthAssumption
  <1>7. /\ parseRangeRepeatBound(i, vv).cpos = end
        /\ parseRangeRepeatBound(i, vv).val = IF has THEN decimal(digits) ELSE vv
    BY DEF parseRangeRepeatBound, start, end, digits
  <1> HIDE DEF has
  <1>8. end \in i .. epos
    BY <1>1, <1>3
  <1> QED
    BY <1>6, <1>7, <1>8
-----------------------------------------------------------------------------
(* The nodes of an expression. *)

isLevels(f, r, d) ==
    f = [n \in 0 .. d |-> IF n = 0 THEN {r} ELSE UNION {children(x) : x \in f[n - 1]}]

LEMMA LevelsExist ==
    ASSUME NEW r, NEW d \in Nat
    PROVE  \E f : isLevels(f, r, d)
  <1> DEFINE Bad == {m \in 0 .. d : ~\E f : isLevels(f, r, m)}
  <1>1. ASSUME Bad # {}
        PROVE  FALSE
    <2>1. Bad \in SUBSET Nat
      OBVIOUS
    <2>2. PICK m \in Bad : \A b \in Bad : m <= b
      <3> HIDE DEF Bad
      <3> QED
        BY <1>1, <2>1, LeastNumber
    <2>3. m \in 0 .. d /\ ~\E f : isLevels(f, r, m)
      BY <2>2
    <2>4. m # 0
      <3>1. isLevels([k \in 0 .. 0 |-> {r}], r, 0)
        BY DEF isLevels
      <3> QED
        BY <2>3, <3>1
    <2>5. m - 1 \in 0 .. d
      BY <2>3, <2>4
    <2>6. m - 1 \notin Bad
      <3> HIDE DEF Bad
      <3> QED
        BY <2>2, <2>3
    <2>7. PICK f : isLevels(f, r, m - 1)
      BY <2>5, <2>6
    <2> DEFINE h == [k \in 0 .. m |-> IF k = m THEN UNION {children(x) : x \in f[m - 1]} ELSE f[k]]
    <2>8. \A k \in 0 .. m - 1 : k \in 0 .. m /\ k # m /\ h[k] = f[k]
      BY <2>3
    <2>9. ASSUME NEW k \in 0 .. m
          PROVE  h[k] = IF k = 0 THEN {r} ELSE UNION {children(x) : x \in h[k - 1]}
      <3>1. k # 0 => h[k - 1] = f[k - 1]
        BY <2>3, <2>8
      <3>2. CASE k = m
        BY <2>4, <3>1, <3>2
      <3>3. CASE k # m
        <4>1. k \in 0 .. m - 1
          BY <2>3, <3>3
        <4>2. f[k] = IF k = 0 THEN {r} ELSE UNION {children(x) : x \in f[k - 1]}
          BY <2>7, <4>1 DEF isLevels
        <4> QED
          BY <2>8, <3>1, <4>1, <4>2
      <3> QED
        BY <3>2, <3>3
    <2>10. isLevels(h, r, m)
      <3>1. h = [k \in 0 .. m |-> h[k]]
        OBVIOUS
      <3> HIDE DEF h
      <3> QED
        BY <2>9, <3>1 DEF isLevels
    <2> QED
      BY <2>3, <2>10
  <1> QED
    BY <1>1

LEMMA LevelsAgree ==
    ASSUME NEW r, NEW d \in Nat, NEW e \in Nat, NEW f, NEW g, isLevels(f, r, d), isLevels(g, r, e),
           NEW n \in 0 .. d, n <= e
    PROVE  f[n] = g[n]
  <1> DEFINE Bad == {m \in 0 .. n : f[m] # g[m]}
  <1>1. ASSUME Bad # {}
        PROVE  FALSE
    <2>1. Bad \in SUBSET Nat
      OBVIOUS
    <2>2. PICK m \in Bad : \A b \in Bad : m <= b
      <3> HIDE DEF Bad
      <3> QED
        BY <1>1, <2>1, LeastNumber
    <2>3. m \in 0 .. n /\ f[m] # g[m] /\ m \in 0 .. d /\ m \in 0 .. e
      BY <2>2
    <2>4. /\ f[m] = IF m = 0 THEN {r} ELSE UNION {children(x) : x \in f[m - 1]}
          /\ g[m] = IF m = 0 THEN {r} ELSE UNION {children(x) : x \in g[m - 1]}
      BY <2>3 DEF isLevels
    <2>5. m # 0
      BY <2>3, <2>4
    <2>6. m - 1 \in 0 .. n
      BY <2>3, <2>5
    <2>7. m - 1 \notin Bad
      <3> HIDE DEF Bad
      <3> QED
        BY <2>2, <2>3
    <2> QED
      BY <2>3, <2>4, <2>5, <2>6, <2>7
  <1>2. n \notin Bad
    BY <1>1
  <1> QED
    BY <1>2

\* The nodes a level down are the parts of the nodes of a level.
LEMMA NodesAtNext ==
    ASSUME NEW r, NEW d \in Nat
    PROVE  /\ nodesAt(r, 0) = {r}
           /\ nodesAt(r, d + 1) = UNION {children(x) : x \in nodesAt(r, d)}
  <1> DEFINE level(e) == CHOOSE f : isLevels(f, r, e)
  <1>1. \A e \in Nat : isLevels(level(e), r, e)
    BY LevelsExist
  <1>2. \A e \in Nat : nodesAt(r, e) = level(e)[e]
    BY DEF nodesAt, isLevels
  <1> HIDE DEF level
  <1>3. \A e \in Nat : \A n \in 0 .. e :
            level(e)[n] = IF n = 0 THEN {r} ELSE UNION {children(x) : x \in level(e)[n - 1]}
    BY <1>1 DEF isLevels
  <1>4. nodesAt(r, 0) = {r}
    <2>1. 0 \in Nat /\ 0 \in 0 .. 0
      OBVIOUS
    <2>2. level(0)[0] = {r}
      BY <1>3, <2>1
    <2> QED
      BY <1>2, <2>1, <2>2
  <1>5. level(d + 1)[d] = level(d)[d]
    BY <1>1, LevelsAgree
  <1>6. level(d + 1)[d + 1] = UNION {children(x) : x \in level(d + 1)[d]}
    <2>1. d + 1 \in Nat /\ d + 1 \in 0 .. d + 1 /\ d + 1 # 0 /\ (d + 1) - 1 = d
      OBVIOUS
    <2> QED
      BY <1>3, <2>1
  <1> QED
    BY <1>2, <1>4, <1>5, <1>6

\* They are also the nodes of the parts of the expression itself.
LEMMA NodesOfParts ==
    ASSUME NEW r, NEW d \in Nat
    PROVE  nodesAt(r, d + 1) = UNION {nodesAt(c, d) : c \in children(r)}
  <1> DEFINE inner(m) == nodesAt(r, m + 1) = UNION {nodesAt(c, m) : c \in children(r)}
             Bad == {m \in 0 .. d : ~inner(m)}
  <1>1. ASSUME Bad # {}
        PROVE  FALSE
    <2>1. Bad \in SUBSET Nat
      OBVIOUS
    <2>2. PICK m \in Bad : \A b \in Bad : m <= b
      <3> HIDE DEF Bad
      <3> QED
        BY <1>1, <2>1, LeastNumber
    <2>3. m \in 0 .. d /\ ~inner(m)
      BY <2>2
    <2>4. inner(0)
      <3>1. nodesAt(r, 0 + 1) = UNION {children(x) : x \in nodesAt(r, 0)} /\ nodesAt(r, 0) = {r}
        BY NodesAtNext
      <3>2. nodesAt(r, 0 + 1) = children(r)
        BY <3>1
      <3>3. \A c : nodesAt(c, 0) = {c}
        BY NodesAtNext
      <3> QED
        BY <3>2, <3>3
    <2>5. m - 1 \in 0 .. d /\ m - 1 \in Nat
      BY <2>3, <2>4
    <2>6. m - 1 \notin Bad
      <3> HIDE DEF Bad
      <3> QED
        BY <2>2, <2>3
    <2> DEFINE k == m - 1
    <2>7. inner(k) /\ k + 1 = m /\ k \in Nat
      BY <2>5, <2>6
    <2> HIDE DEF k
    <2>8. nodesAt(r, (k + 1) + 1) = UNION {children(x) : x \in nodesAt(r, k + 1)}
      BY <2>7, NodesAtNext
    <2>9. \A c : nodesAt(c, k + 1) = UNION {children(x) : x \in nodesAt(c, k)}
      BY <2>7, NodesAtNext
    <2>10. UNION {children(x) : x \in UNION {nodesAt(c, k) : c \in children(r)}}
             = UNION {nodesAt(c, k + 1) : c \in children(r)}
      BY <2>9
    <2>11. inner(k + 1)
      BY <2>7, <2>8, <2>10
    <2> QED
      BY <2>3, <2>7, <2>11
  <1>2. d \notin Bad
    BY <1>1
  <1> QED
    BY <1>2

(* An expression whose nodes are all well built, however deep. *)
good(r) == \A d \in Nat : \A x \in nodesAt(r, d) : wellBuiltNode(x)

LEMMA GoodFromParts ==
    ASSUME NEW r, wellBuiltNode(r), \A c \in children(r) : good(c)
    PROVE  good(r)
  <1> SUFFICES ASSUME NEW d \in Nat, NEW x \in nodesAt(r, d)
               PROVE  wellBuiltNode(x)
    BY DEF good
  <1>1. CASE d = 0
    BY <1>1, NodesAtNext
  <1>2. CASE d # 0
    <2>1. d - 1 \in Nat /\ (d - 1) + 1 = d
      BY <1>2
    <2>2. nodesAt(r, (d - 1) + 1) = UNION {nodesAt(c, d - 1) : c \in children(r)}
      BY <2>1, NodesOfParts
    <2>3. PICK c \in children(r) : x \in nodesAt(c, d - 1)
      BY <2>1, <2>2
    <2> QED
      BY <2>1, <2>3 DEF good
  <1> QED
    BY <1>1, <1>2
LEMMA GoodLeaf ==
    ASSUME NEW r, isLeaf(r)
    PROVE  good(r)
  <1>1. children(r) = {}
    BY DEF children, isLeaf
  <1>2. wellBuiltNode(r)
    BY DEF wellBuiltNode, isLeaf, NullOpt
  <1> QED
    BY <1>1, <1>2, GoodFromParts

LEMMA GoodRepeat ==
    ASSUME NEW r, good(r)
    PROVE  good(StarRepeatOpt(r)) /\ good(PlusRepeatOpt(r)) /\ good(OptionalOpt(r))
  <1>1. good(StarRepeatOpt(r))
    <2> DEFINE s == StarRepeatOpt(r)
    <2>1. children(s) = {r} /\ wellBuiltNode(s)
      BY DEF StarRepeatOpt, children, wellBuiltNode, NullOpt
    <2> HIDE DEF s
    <2> QED
      BY <2>1, GoodFromParts DEF s
  <1>2. good(PlusRepeatOpt(r))
    <2> DEFINE s == PlusRepeatOpt(r)
    <2>1. children(s) = {r} /\ wellBuiltNode(s)
      BY DEF PlusRepeatOpt, children, wellBuiltNode, NullOpt
    <2> HIDE DEF s
    <2> QED
      BY <2>1, GoodFromParts DEF s
  <1>3. good(OptionalOpt(r))
    <2> DEFINE s == OptionalOpt(r)
    <2>1. children(s) = {r} /\ wellBuiltNode(s)
      BY DEF OptionalOpt, children, wellBuiltNode, NullOpt
    <2> HIDE DEF s
    <2> QED
      BY <2>1, GoodFromParts DEF s
  <1> QED
    BY <1>1, <1>2, <1>3

\* Bounds that are not refused give a repeat with its bounds in order.
LEMMA GoodRangeRepeat ==
    ASSUME NEW min \in 0 .. UINT16_MAX, NEW max \in 0 .. UINT16_MAX, NEW rng1ok, NEW r, good(r),
           ~badBounds(min, max, rng1ok)
    PROVE  good(parseRangeRepeat(min, max, r))
  <1>1. min <= max /\ max \in 1 .. UINT16_MAX
    BY WidthAssumption DEF badBounds
  <1>2. CASE <<min, max>> \in {<<0, UINT16_MAX>>, <<1, UINT16_MAX>>, <<0, 1>>, <<1, 1>>}
    BY <1>2, GoodRepeat DEF parseRangeRepeat
  <1>3. CASE <<min, max>> \notin {<<0, UINT16_MAX>>, <<1, UINT16_MAX>>, <<0, 1>>, <<1, 1>>}
    <2> DEFINE s == RangeRepeatOpt(min, max, r)
    <2>1. children(s) = {r} /\ wellBuiltNode(s)
      BY <1>1, <1>3, WidthAssumption DEF RangeRepeatOpt, children, wellBuiltNode, NullOpt
    <2>2. parseRangeRepeat(min, max, r) = s
      BY <1>3 DEF parseRangeRepeat
    <2> HIDE DEF s
    <2> QED
      BY <2>1, <2>2, GoodFromParts
  <1> QED
    BY <1>2, <1>3

(* A list of good expressions. *)
goodList(s) == s \in Seq(Range(s)) /\ \A k \in 1 .. Len(s) : good(s[k])

LEMMA GoodLists ==
    ASSUME NEW s, goodList(s), Len(s) # 0
    PROVE  /\ good(IF Len(s) = 1 THEN s[1] ELSE AnyOfOpt(s))
           /\ good(IF Len(s) = 1 THEN s[1] ELSE SequenceOpt(s))
  <1>1. CASE Len(s) = 1
    BY <1>1 DEF goodList
  <1>2. CASE Len(s) # 1
    <2>0. s \in Seq(Range(s))
      BY DEF goodList
    <2>1. Len(s) \in Nat /\ Len(s) >= 2 /\ DOMAIN s = 1 .. Len(s)
      <3>1. Len(s) \in Nat /\ DOMAIN s = 1 .. Len(s)
        BY <2>0
      <3> QED
        BY <1>2, <3>1
    <2> DEFINE a == AnyOfOpt(s)
               q == SequenceOpt(s)
    <2>2. children(a) = {s[k] : k \in 1 .. Len(s)} /\ wellBuiltNode(a)
      BY <2>1 DEF AnyOfOpt, children, wellBuiltNode, NullOpt
    <2>3. children(q) = {s[k] : k \in 1 .. Len(s)} /\ wellBuiltNode(q)
      BY <2>1 DEF SequenceOpt, children, wellBuiltNode, NullOpt
    <2> HIDE DEF a, q
    <2>4. good(a) /\ good(q)
      BY <2>2, <2>3, GoodFromParts DEF goodList
    <2> QED
      BY <1>2, <2>4 DEF a, q
  <1> QED
    BY <1>1, <1>2

\* A sequence with one more element at its end.
LEMMA OneMore ==
    ASSUME NEW s, s \in Seq(Range(s)), NEW r, NEW t, t = Append(s, r) \/ t = s \o <<r>>
    PROVE  /\ t \in Seq(Range(t)) /\ Len(t) \in Nat /\ Len(t) = Len(s) + 1 /\ Len(s) \in Nat
           /\ \A k \in 1 .. Len(t) : t[k] = IF k = Len(s) + 1 THEN r ELSE s[k]
           /\ \A k \in 1 .. Len(t) : k # Len(s) + 1 => k \in 1 .. Len(s)
  <1> DEFINE S == Range(s) \cup {r}
  <1>1. s \in Seq(S) /\ r \in S
    OBVIOUS
  <1>2. s \o <<r>> = Append(s, r)
    OBVIOUS
  <1> HIDE DEF S
  <1>3. /\ Append(s, r) \in Seq(S) /\ Len(Append(s, r)) = Len(s) + 1
        /\ \A k \in 1 .. Len(s) : Append(s, r)[k] = s[k]
        /\ Append(s, r)[Len(s) + 1] = r
    BY <1>1, AppendProperties
  <1>4. t = Append(s, r) /\ Len(s) \in Nat
    BY <1>1, <1>2
  <1>5. t \in Seq(Range(t))
    BY <1>3, <1>4, SeqOfRange
  <1>6. /\ Len(t) = Len(s) + 1 /\ t[Len(s) + 1] = r
        /\ \A k \in 1 .. Len(s) : t[k] = s[k]
    BY <1>3, <1>4, Zenon
  <1> QED
    BY <1>4, <1>5, <1>6

LEMMA GoodAppend ==
    ASSUME NEW s, goodList(s), NEW r, good(r), NEW t, t = Append(s, r) \/ t = s \o <<r>>
    PROVE  goodList(t) /\ Len(t) # 0
  <1>1. s \in Seq(Range(s)) /\ \A k \in 1 .. Len(s) : good(s[k])
    BY DEF goodList
  <1>2. /\ t \in Seq(Range(t)) /\ Len(t) = Len(s) + 1 /\ Len(s) \in Nat
        /\ \A k \in 1 .. Len(t) : t[k] = IF k = Len(s) + 1 THEN r ELSE s[k]
        /\ \A k \in 1 .. Len(t) : k # Len(s) + 1 => k \in 1 .. Len(s)
    BY <1>1, OneMore
  <1>3. \A k \in 1 .. Len(t) : good(t[k])
    BY <1>1, <1>2
  <1> QED
    BY <1>2, <1>3 DEF goodList

-----------------------------------------------------------------------------
(* Stacks. *)

LEMMA FrontOfSequence ==
    ASSUME NEW S, NEW s \in Seq(S), s # <<>>
    PROVE  /\ Front(s) \in Seq(S) /\ Len(Front(s)) = Len(s) - 1
           /\ \A k \in 1 .. Len(s) - 1 : Front(s)[k] = s[k]
  <1>1. Len(s) \in Nat /\ Len(s) # 0
    BY EmptySeq
  <1> DEFINE n == Len(s) - 1
  <1>2. n \in Nat
    BY <1>1
  <1>3. \A k \in 1 .. n : s[k] \in S
    BY <1>1
  <1> HIDE DEF n
  <1>4. /\ SubSeq(s, 1, n) \in Seq(S)
        /\ Len(SubSeq(s, 1, n)) = IF 1 <= n THEN n - 1 + 1 ELSE 0
        /\ \A k \in 1 .. n - 1 + 1 : SubSeq(s, 1, n)[k] = s[1 + k - 1]
    BY <1>2, <1>3, SubSeqProperties
  <1>5. Front(s) = SubSeq(s, 1, n)
    BY DEF Front, n
  <1>6. Len(Front(s)) = n
    BY <1>2, <1>4, <1>5
  <1>7. \A k \in 1 .. n : Front(s)[k] = s[k]
    <2> SUFFICES ASSUME NEW k \in 1 .. n
                 PROVE  Front(s)[k] = s[k]
      OBVIOUS
    <2>1. k \in 1 .. n - 1 + 1 /\ 1 + k - 1 = k
      BY <1>2
    <2> QED
      BY <1>4, <1>5, <2>1
  <1> QED
    BY <1>4, <1>5, <1>6, <1>7 DEF n

(* A stack whose last frame becomes g with the calls cs on top of it. *)
restacked(s, g, cs) == Front(s) \o <<g>> \o cs

LEMMA ChangedStack ==
    ASSUME NEW s, s \in Seq(Range(s)), s # <<>>, NEW g, NEW cs, cs \in Seq(Range(cs))
    PROVE  /\ restacked(s, g, cs) \in Seq(Range(restacked(s, g, cs)))
           /\ Len(restacked(s, g, cs)) = Len(s) + Len(cs) /\ restacked(s, g, cs) # <<>>
           /\ \A k \in 1 .. Len(s) - 1 : restacked(s, g, cs)[k] = s[k]
           /\ restacked(s, g, cs)[Len(s)] = g
           /\ \A k \in 1 .. Len(cs) : restacked(s, g, cs)[Len(s) + k] = cs[k]
  <1> DEFINE t == restacked(s, g, cs)
             u == Front(s) \o <<g>>
             S == Range(s) \cup {g} \cup Range(cs)
  <1>1. Len(s) \in Nat /\ Len(s) # 0 /\ Len(cs) \in Nat
    BY EmptySeq
  <1>2. /\ Front(s) \in Seq(Range(s)) /\ Len(Front(s)) = Len(s) - 1
        /\ \A k \in 1 .. Len(s) - 1 : Front(s)[k] = s[k]
    BY FrontOfSequence
  <1>3. Front(s) \in Seq(S) /\ <<g>> \in Seq(S) /\ cs \in Seq(S)
    BY <1>2
  <1> HIDE DEF S
  <1>4. /\ u \in Seq(S) /\ Len(u) = Len(Front(s)) + 1
        /\ \A k \in 1 .. Len(Front(s)) + 1 :
              u[k] = IF k <= Len(Front(s)) THEN Front(s)[k] ELSE <<g>>[k - Len(Front(s))]
    BY <1>3, ConcatProperties
  <1>5. Len(u) = Len(s) /\ u[Len(s)] = g /\ \A k \in 1 .. Len(s) - 1 : u[k] = s[k]
    BY <1>1, <1>2, <1>4
  <1>6. t = u \o cs
    BY DEF restacked
  <1> HIDE DEF u, t
  <1>7. /\ t \in Seq(S) /\ Len(t) = Len(u) + Len(cs)
        /\ \A k \in 1 .. Len(u) + Len(cs) :
              t[k] = IF k <= Len(u) THEN u[k] ELSE cs[k - Len(u)]
    <2>1. /\ u \o cs \in Seq(S) /\ Len(u \o cs) = Len(u) + Len(cs)
          /\ \A k \in 1 .. Len(u) + Len(cs) :
                (u \o cs)[k] = IF k <= Len(u) THEN u[k] ELSE cs[k - Len(u)]
      BY <1>3, <1>4, ConcatProperties
    <2> QED
      BY <1>6, <2>1, Zenon
  <1>8. t \in Seq(Range(t))
    BY <1>7, SeqOfRange
  <1>9. Len(t) = Len(s) + Len(cs) /\ t # <<>>
    <2>1. Len(t) = Len(s) + Len(cs)
      BY <1>5, <1>7
    <2>2. Len(t) # 0
      BY <1>1, <2>1
    <2> QED
      BY <2>1, <2>2
  <1>10. \A k \in 1 .. Len(s) : t[k] = u[k]
    BY <1>1, <1>5, <1>7
  <1>11. \A k \in 1 .. Len(cs) : t[Len(s) + k] = cs[k]
    <2> SUFFICES ASSUME NEW k \in 1 .. Len(cs)
                 PROVE  t[Len(s) + k] = cs[k]
      OBVIOUS
    <2>1. Len(s) + k \in 1 .. Len(u) + Len(cs) /\ ~(Len(s) + k <= Len(u)) /\ Len(s) + k - Len(u) = k
      BY <1>1, <1>5
    <2> QED
      BY <1>7, <2>1
  <1>12. t[Len(s)] = g /\ \A k \in 1 .. Len(s) - 1 : t[k] = s[k]
    <2>1. Len(s) \in 1 .. Len(s) /\ \A k \in 1 .. Len(s) - 1 : k \in 1 .. Len(s)
      BY <1>1
    <2>2. t[Len(s)] = g
      BY <1>5, <1>10, <2>1
    <2>3. ASSUME NEW k \in 1 .. Len(s) - 1
          PROVE  t[k] = s[k]
      BY <1>5, <1>10, <2>1
    <2> QED
      BY <2>2, <2>3
  <1> QED
    BY <1>8, <1>9, <1>11, <1>12 DEF t

LEMMA PoppedStack ==
    ASSUME NEW s, s \in Seq(Range(s)), s # <<>>
    PROVE  /\ Front(s) \in Seq(Range(Front(s))) /\ Len(Front(s)) = Len(s) - 1
           /\ Len(s) \in Nat /\ Len(s) # 0
           /\ \A k \in 1 .. Len(s) - 1 : Front(s)[k] = s[k]
  <1>1. Len(s) \in Nat /\ Len(s) # 0
    BY EmptySeq
  <1> QED
    BY <1>1, FrontOfSequence, SeqOfRange
-----------------------------------------------------------------------------
(* The inductive invariant. *)

(* The texts are as handed in, and there is at most one result for each. *)
Typed ==
    /\ texts \in Seq(Seq(Characters))
    /\ results \in Seq(Range(results)) /\ Len(results) <= Len(texts)
    /\ stack \in Seq(Range(stack))

(* While a call is in progress there is an opened text, and the cursor is  *)
(* between its slashes or on the closing one.                              *)
CursorStaysInside ==
    stack # <<>> => Len(results) < Len(texts) /\ opened /\ cpos \in 0 .. epos

(* What the calls return and the Regex is put together from. *)
goodEntry(e) == good(e.opt) /\ ~(e.isFrontCheck /\ e.isBackCheck)
goodEntries(s) == s \in Seq(Range(s)) /\ \A k \in 1 .. Len(s) : goodEntry(s[k])
goodComponent(cc) ==
    \/ cc = SingleComponent(cc.entry) /\ goodEntry(cc.entry) /\ ~isCheck(cc.entry)
    \/ /\ cc = AllOfComponent(cc.musts) /\ goodEntries(cc.musts) /\ Len(cc.musts) >= 2
       /\ \E k \in 1 .. Len(cc.musts) : ~isCheck(cc.musts[k])
goodComponents(s) == s \in Seq(Range(s)) /\ \A k \in 1 .. Len(s) : goodComponent(s[k])
goodAnchor(cc) ==
    /\ goodComponent(cc)
    /\ \A e \in entriesIn(cc) : ~isCheck(e)
    /\ cc.tag = "AllOf" => isMatchable(cc)
goodRegex(regex) ==
    /\ goodComponent(regex.re)
    /\ regex.preanchor = NoComponent \/ goodAnchor(regex.preanchor)
    /\ regex.postanchor = NoComponent \/ goodAnchor(regex.postanchor)

ResultsGood ==
    \A k \in 1 .. Len(results) : results[k].status = "accepted" => goodRegex(results[k].regex)

(* What a call has collected so far. *)
goodFrame(f) ==
    \/ f.fn = "Regex" /\ DOMAIN f = DOMAIN RegexCall /\ goodComponents(f.rv)
    \/ f.fn = "Component" /\ DOMAIN f = {"fn", "are"} /\ goodEntries(f.are)
    \/ f.fn = "Entry" /\ DOMAIN f = {"fn", "entered", "isNegate", "isFrontCheck"}
    \/ f.fn = "AnyOf" /\ DOMAIN f = {"fn", "are"} /\ goodList(f.are)
    \/ f.fn = "Sequence" /\ DOMAIN f = {"fn", "sre"} /\ goodList(f.sre)
    \/ f.fn \in {"Repeat", "Paren"}
    \/ /\ f.fn = "Range" /\ DOMAIN f = {"fn", "rcc", "rng1ok", "min"}
       /\ good(f.rcc) /\ f.min \in {-1} \cup 0 .. UINT16_MAX

(* Which call has called which. *)
called(f, g) ==
    \/ f.fn = "Regex" /\ g.fn = "Component"
    \/ f.fn = "Component" /\ g.fn = "Entry"
    \/ f.fn = "Entry" /\ f.entered /\ g.fn \in {"AnyOf", "Range"}
    \/ f.fn = "AnyOf" /\ g.fn = "Sequence"
    \/ f.fn = "Sequence" /\ g.fn \in {"Repeat", "Range"}
    \/ f.fn = "Repeat" /\ g.fn = "Paren"
    \/ f.fn = "Paren" /\ g.fn = "AnyOf"

(* What a call gets back, and the calls that only go on with a value. *)
fits(fn, v) ==
    CASE fn = "Regex" -> goodComponent(v)
      [] fn = "Component" -> goodEntry(v)
      [] OTHER -> good(v)
waits(f) == f.fn \in {"AnyOf", "Paren"} \/ (f.fn = "Entry" /\ f.entered)

stackOf(s) ==
    /\ s[1].fn = "Regex"
    /\ \A k \in 1 .. Len(s) : goodFrame(s[k])
    /\ \A k \in 1 .. Len(s) - 1 : called(s[k], s[k + 1])

(* Until an error is reported.  After one no Regex is returned. *)
CallsGood ==
    stack # <<>> /\ ~errors =>
        /\ stackOf(stack)
        /\ ret = <<>> => ~waits(top)
        /\ ret # <<>> => ret = <<ret[1]>> /\ fits(top.fn, ret[1])

IInv == Typed /\ CursorStaysInside /\ ResultsGood /\ CallsGood

\* parseRegex returns: what it returns is all that has to be good.
LEMMA Finished ==
    ASSUME IInv, Len(results) < Len(texts), NEW result, finish(result),
           result.status = "accepted" => goodRegex(result.regex)
    PROVE  IInv'
  <1>1. results \in Seq(Range(results)) /\ results' = Append(results, result) /\ stack' = <<>>
    BY DEF IInv, Typed, finish
  <1>2. /\ results' \in Seq(Range(results')) /\ Len(results') = Len(results) + 1
        /\ \A k \in 1 .. Len(results') : results'[k] = IF k = Len(results) + 1 THEN result ELSE results[k]
        /\ \A k \in 1 .. Len(results') : k # Len(results) + 1 => k \in 1 .. Len(results)
    <2>1. PICK r : r = Append(results, result)
      OBVIOUS
    <2>2. /\ r \in Seq(Range(r)) /\ Len(r) = Len(results) + 1
          /\ \A k \in 1 .. Len(r) : r[k] = IF k = Len(results) + 1 THEN result ELSE results[k]
          /\ \A k \in 1 .. Len(r) : k # Len(results) + 1 => k \in 1 .. Len(results)
      <3>1. results \in Seq(Range(results))
        BY <1>1
      <3>2. r \in Seq(Range(r))
        BY <2>1, <3>1, OneMore
      <3>3. Len(r) = Len(results) + 1
        BY <2>1, <3>1, OneMore
      <3>4. \A k \in 1 .. Len(r) : r[k] = IF k = Len(results) + 1 THEN result ELSE results[k]
        BY <2>1, <3>1, OneMore
      <3>5. \A k \in 1 .. Len(r) : k # Len(results) + 1 => k \in 1 .. Len(results)
        BY <2>1, <3>1, OneMore
      <3> QED
        BY <3>2, <3>3, <3>4, <3>5
    <2>3. results' = r
      BY <1>1, <2>1
    <2> QED
      BY <2>2, <2>3
  <1>3. Typed'
    <2>1. <<>> \in Seq(Range(<<>>))
      BY EmptySeq
    <2>2. Len(texts) \in Nat /\ Len(results) \in Nat /\ texts' = texts
      BY DEF Typed, IInv, finish
    <2>3. Len(results') <= Len(texts')
      BY <1>2, <2>2
    <2> QED
      BY <1>1, <1>2, <2>1, <2>3 DEF Typed, IInv, finish
  <1>4. ResultsGood'
    BY <1>2 DEF IInv, ResultsGood
  <1> QED
    BY <1>1, <1>3, <1>4 DEF IInv, CursorStaysInside, CallsGood

\* The cursor moves inside the text that is open.
LEMMA Moved ==
    ASSUME IInv, stack # <<>>, NEW i \in 0 .. epos, NEW bad, moved(i, bad)
    PROVE  /\ CursorStaysInside' /\ ResultsGood'
           /\ stack' \in Seq(Range(stack')) => Typed'
           /\ ~errors' => ~errors /\ ~bad
  BY DEF IInv, moved, CursorStaysInside, opened, text, epos, charAt, isUnicode, ResultsGood, Typed
(* A list of calls, each made by the one before and the first by frame. *)
calledInTurn(frame, calls) ==
    /\ calls \in Seq(Range(calls))
    /\ \A k \in 1 .. Len(calls) : goodFrame(calls[k])
    /\ Len(calls) # 0 => called(frame, calls[1])
    /\ \A k \in 1 .. Len(calls) - 1 : called(calls[k], calls[k + 1])

(* What is left below the running call when it becomes frame. *)
replaces(frame) ==
    /\ goodFrame(frame)
    /\ IF Len(stack) = 1 THEN frame.fn = "Regex" ELSE called(stack[Len(stack) - 1], frame)

\* A call goes on as frame with more calls on top of it.
LEMMA Continued ==
    ASSUME IInv, stack # <<>>, NEW i \in 0 .. epos, NEW bad, NEW frame, NEW calls,
           continue(i, bad, frame, calls),
           calls \in Seq(Range(calls)),
           ~errors /\ ~bad =>
               /\ replaces(frame) /\ calledInTurn(frame, calls)
               /\ ~waits(IF Len(calls) = 0 THEN frame ELSE calls[Len(calls)])
    PROVE  IInv'
  <1> DEFINE n == Len(stack)
             m == Len(calls)
             t == restacked(stack, frame, calls)
  <1>1. stack \in Seq(Range(stack)) /\ stack' = t /\ ret' = <<>> /\ moved(i, bad)
    BY DEF IInv, Typed, continue, restacked
  <1>2. n \in Nat /\ n # 0 /\ m \in Nat
    BY <1>1, PoppedStack
  <1>3. /\ t \in Seq(Range(t)) /\ Len(t) = n + m /\ t # <<>>
        /\ \A k \in 1 .. n - 1 : t[k] = stack[k]
        /\ t[n] = frame
        /\ \A k \in 1 .. m : t[n + k] = calls[k]
    BY <1>1, ChangedStack
  <1> HIDE DEF t
  <1>4. Typed' /\ CursorStaysInside' /\ ResultsGood' /\ (~errors' => ~errors /\ ~bad)
    BY <1>1, <1>3, Moved
  <1>5. ASSUME ~errors'
        PROVE  stackOf(t) /\ ~waits(t[n + m])
    <2>1. stackOf(stack) /\ replaces(frame) /\ calledInTurn(frame, calls)
      BY <1>4, <1>5 DEF IInv, CallsGood
    <2>2. t[1].fn = "Regex"
      <3>1. CASE n = 1
        BY <1>3, <2>1, <3>1 DEF replaces
      <3>2. CASE n # 1
        <4>1. 1 \in 1 .. n - 1
          <5> HIDE DEF n, m
          <5> QED
            BY <1>2, <3>2
        <4> QED
          BY <1>3, <2>1, <4>1 DEF stackOf
      <3> QED
        BY <3>1, <3>2
    <2>3. ASSUME NEW k \in 1 .. Len(t)
          PROVE  goodFrame(t[k])
      <3>1. CASE k \in 1 .. n - 1
        <4>1. k \in 1 .. n
          BY <1>2, <3>1
        <4> QED
          BY <1>3, <2>1, <3>1, <4>1 DEF stackOf
      <3>2. CASE k = n
        BY <1>3, <2>1, <3>2 DEF replaces
      <3>3. CASE k > n
        <4>1. k - n \in 1 .. m /\ n + (k - n) = k
          BY <1>2, <1>3, <3>3
        <4>2. t[k] = calls[k - n]
          BY <1>3, <4>1
        <4> QED
          BY <2>1, <4>1, <4>2 DEF calledInTurn
      <3> QED
        BY <1>2, <1>3, <3>1, <3>2, <3>3
    <2>4. ASSUME NEW k \in 1 .. Len(t) - 1
          PROVE  called(t[k], t[k + 1])
      <3>1. CASE k + 1 \in 1 .. n - 1
        <4>1. k \in 1 .. n - 1
          BY <1>2, <3>1
        <4> QED
          BY <1>3, <2>1, <3>1, <4>1 DEF stackOf
      <3>2. CASE k + 1 = n
        <4>1. k \in 1 .. n - 1 /\ n # 1 /\ k = n - 1
          BY <1>2, <3>2
        <4>2. called(stack[n - 1], frame)
          BY <2>1, <4>1 DEF replaces
        <4> QED
          BY <1>3, <3>2, <4>1, <4>2
      <3>3. CASE k = n
        <4>1. 1 \in 1 .. m
          BY <1>2, <1>3, <3>3
        <4>2. t[n + 1] = calls[1] /\ m # 0
          BY <1>3, <4>1
        <4> QED
          BY <1>3, <2>1, <3>3, <4>2 DEF calledInTurn
      <3>4. CASE k > n
        <4>1. k - n \in 1 .. m - 1 /\ n + (k - n) = k /\ k - n \in 1 .. m
              /\ (k - n) + 1 \in 1 .. m /\ n + ((k - n) + 1) = k + 1
          BY <1>2, <1>3, <3>4
        <4>2. t[k] = calls[k - n]
          BY <1>3, <4>1
        <4>3. t[n + ((k - n) + 1)] = calls[(k - n) + 1]
          BY <1>3, <4>1
        <4> QED
          BY <2>1, <4>1, <4>2, <4>3 DEF calledInTurn
      <3> QED
        BY <1>2, <1>3, <3>1, <3>2, <3>3, <3>4
    <2>5. ~waits(t[n + m])
      <3>1. ~waits(IF m = 0 THEN frame ELSE calls[m])
        BY <1>4, <1>5
      <3>2. CASE m = 0
        BY <1>2, <1>3, <3>1, <3>2
      <3>3. CASE m # 0
        <4>1. m \in 1 .. m
          BY <1>2, <3>3
        <4> QED
          BY <1>3, <3>1, <3>3, <4>1
      <3> QED
        BY <3>2, <3>3
    <2> QED
      BY <2>2, <2>3, <2>4, <2>5 DEF stackOf
  <1>6. CallsGood'
    <2> SUFFICES ASSUME ~errors'
                 PROVE  /\ stackOf(stack')
                        /\ ret' = <<>> => ~waits(stack'[Len(stack')])
                        /\ ret' # <<>> => ret' = <<ret'[1]>> /\ fits(stack'[Len(stack')].fn, ret'[1])
      BY DEF CallsGood, top
    <2> QED
      BY <1>1, <1>3, <1>5
  <1> QED
    BY <1>4, <1>6 DEF IInv

\* A call returns to the one below it.
LEMMA Returned ==
    ASSUME IInv, stack # <<>>, NEW i \in 0 .. epos, NEW bad, NEW value, return(i, bad, value),
           ~errors /\ ~bad =>
               /\ top.fn # "Regex"
               /\ \A f : called(f, top) => fits(f.fn, value)
    PROVE  IInv'
  <1> DEFINE n == Len(stack)
             t == Front(stack)
  <1>1. stack \in Seq(Range(stack)) /\ stack' = t /\ ret' = <<value>> /\ moved(i, bad)
    BY DEF IInv, Typed, return
  <1>2. /\ n \in Nat /\ n # 0 /\ t \in Seq(Range(t)) /\ Len(t) = n - 1
        /\ \A k \in 1 .. n - 1 : t[k] = stack[k]
    BY <1>1, PoppedStack
  <1> HIDE DEF t
  <1>3. Typed' /\ CursorStaysInside' /\ ResultsGood' /\ (~errors' => ~errors /\ ~bad)
    BY <1>1, <1>2, Moved
  <1>4. ASSUME ~errors'
        PROVE  stackOf(t) /\ fits(t[n - 1].fn, value)
    <2>1. stackOf(stack) /\ top.fn # "Regex" /\ top = stack[n]
      BY <1>3, <1>4 DEF IInv, CallsGood, top
    <2>2. n # 1
      BY <2>1 DEF stackOf
    <2>3. n - 1 \in 1 .. n - 1 /\ 1 \in 1 .. n - 1
      BY <1>2, <2>2
    <2>4. t[1].fn = "Regex"
      BY <1>2, <2>1, <2>3 DEF stackOf
    <2>5. \A k \in 1 .. Len(t) : goodFrame(t[k])
      <3>1. \A k \in 1 .. n - 1 : k \in 1 .. n
        BY <1>2
      <3> QED
        BY <1>2, <2>1, <3>1 DEF stackOf
    <2>6. ASSUME NEW k \in 1 .. Len(t) - 1
          PROVE  called(t[k], t[k + 1])
      <3>1. k \in 1 .. n - 1 /\ k + 1 \in 1 .. n - 1
        BY <1>2
      <3> QED
        BY <1>2, <2>1, <3>1 DEF stackOf
    <2>7. called(stack[n - 1], top)
      <3>1. called(stack[n - 1], stack[(n - 1) + 1]) /\ (n - 1) + 1 = n
        BY <1>2, <2>1, <2>3 DEF stackOf
      <3> QED
        BY <2>1, <3>1
    <2>8. fits(stack[n - 1].fn, value)
      BY <1>3, <1>4, <2>7
    <2> QED
      BY <1>2, <2>3, <2>4, <2>5, <2>6, <2>8 DEF stackOf
  <1>5. CallsGood'
    <2> SUFFICES ASSUME ~errors'
                 PROVE  /\ stackOf(stack')
                        /\ ret' = <<>> => ~waits(stack'[Len(stack')])
                        /\ ret' # <<>> => ret' = <<ret'[1]>> /\ fits(stack'[Len(stack')].fn, ret'[1])
      BY DEF CallsGood, top
    <2> QED
      BY <1>1, <1>2, <1>4
  <1> QED
    BY <1>3, <1>5 DEF IInv

\* A call goes on with a value.
LEMMA Kept ==
    ASSUME IInv, stack # <<>>, NEW i \in 0 .. epos, NEW bad, NEW value,
           moved(i, bad), UNCHANGED stack, ret' = <<value>>,
           ~errors /\ ~bad => fits(top.fn, value)
    PROVE  IInv'
  <1>1. Typed' /\ CursorStaysInside' /\ ResultsGood' /\ (~errors' => ~errors /\ ~bad)
    BY Moved DEF IInv, Typed
  <1>2. CallsGood'
    <2> SUFFICES ASSUME ~errors'
                 PROVE  stackOf(stack) /\ fits(stack[Len(stack)].fn, value)
      BY DEF CallsGood, top
    <2> QED
      BY <1>1 DEF IInv, CallsGood, top
  <1> QED
    BY <1>1, <1>2 DEF IInv
-----------------------------------------------------------------------------
(* The calls made. *)

ParenCall == <<[fn |-> "Paren"]>> \o AnyOfCall
isSequence(s) == s \in Seq(Range(s))
lastOf(frame, calls) == IF Len(calls) = 0 THEN frame ELSE calls[Len(calls)]
ready(frame, calls) == calledInTurn(frame, calls) /\ ~waits(lastOf(frame, calls))

LEMMA EmptyLists == isSequence(<<>>) /\ goodList(<<>>) /\ goodEntries(<<>>) /\ goodComponents(<<>>)
  <1>1. <<>> \in Seq(Range(<<>>)) /\ Len(<<>>) = 0
    BY EmptySeq
  <1> QED
    BY <1>1 DEF isSequence, goodList, goodEntries, goodComponents

\* Lists of one, two and three calls.
LEMMA ShortLists ==
    ASSUME NEW a, NEW b, NEW c
    PROVE  /\ isSequence(<<a>>) /\ Len(<<a>>) = 1 /\ <<a>>[1] = a
           /\ isSequence(<<a, b>>) /\ Len(<<a, b>>) = 2 /\ <<a, b>>[1] = a /\ <<a, b>>[2] = b
           /\ isSequence(<<a, b, c>>) /\ Len(<<a, b, c>>) = 3
           /\ <<a, b, c>>[1] = a /\ <<a, b, c>>[2] = b /\ <<a, b, c>>[3] = c
  <1>1. <<a>> \in Seq({a}) /\ <<a, b>> \in Seq({a, b}) /\ <<a, b, c>> \in Seq({a, b, c})
    OBVIOUS
  <1>2. isSequence(<<a>>) /\ isSequence(<<a, b>>) /\ isSequence(<<a, b, c>>)
    BY <1>1, SeqOfRange DEF isSequence
  <1> QED
    BY <1>2

LEMMA OneCall ==
    ASSUME NEW frame, NEW a, goodFrame(a), called(frame, a), ~waits(a)
    PROVE  ready(frame, <<a>>)
  <1>1. calledInTurn(frame, <<a>>)
    <2>1. \A k \in 1 .. 1 : goodFrame(<<a>>[k])
      BY ShortLists
    <2>2. \A k \in 1 .. 1 - 1 : called(<<a>>[k], <<a>>[k + 1])
      OBVIOUS
    <2> QED
      BY <2>1, <2>2, ShortLists DEF calledInTurn, isSequence
  <1> QED
    BY <1>1, ShortLists DEF ready, lastOf

LEMMA TwoCalls ==
    ASSUME NEW frame, NEW a, NEW b, goodFrame(a), goodFrame(b), called(frame, a), called(a, b), ~waits(b)
    PROVE  ready(frame, <<a, b>>)
  <1>1. calledInTurn(frame, <<a, b>>)
    <2>1. \A k \in 1 .. 2 : goodFrame(<<a, b>>[k])
      BY ShortLists
    <2>2. \A k \in 1 .. 2 - 1 : called(<<a, b>>[k], <<a, b>>[k + 1])
      BY ShortLists
    <2> QED
      BY <2>1, <2>2, ShortLists DEF calledInTurn, isSequence
  <1> QED
    BY <1>1, ShortLists DEF ready, lastOf

LEMMA ThreeCalls ==
    ASSUME NEW frame, NEW a, NEW b, NEW c, goodFrame(a), goodFrame(b), goodFrame(c),
           called(frame, a), called(a, b), called(b, c), ~waits(c)
    PROVE  ready(frame, <<a, b, c>>)
  <1>1. calledInTurn(frame, <<a, b, c>>)
    <2>1. \A k \in 1 .. 3 : goodFrame(<<a, b, c>>[k])
      BY ShortLists
    <2>2. \A k \in 1 .. 3 - 1 : called(<<a, b, c>>[k], <<a, b, c>>[k + 1])
      BY ShortLists
    <2> QED
      BY <2>1, <2>2, ShortLists DEF calledInTurn, isSequence
  <1> QED
    BY <1>1, ShortLists DEF ready, lastOf

sequenceFrame == [fn |-> "Sequence", sre |-> <<>>]
anyOfFrame == [fn |-> "AnyOf", are |-> <<>>]
entryFrame == [fn |-> "Entry", entered |-> FALSE, isNegate |-> FALSE, isFrontCheck |-> FALSE]
componentFrame == [fn |-> "Component", are |-> <<>>]

LEMMA FirstFrames ==
    /\ goodFrame(sequenceFrame) /\ goodFrame(anyOfFrame) /\ goodFrame(entryFrame)
    /\ goodFrame(componentFrame) /\ goodFrame([fn |-> "Paren"]) /\ goodFrame([fn |-> "Repeat"])
    /\ goodFrame(RegexCall)
    /\ \A rcc, ok : good(rcc) => goodFrame(RangeFrame(rcc, ok))
  <1>1. goodFrame(sequenceFrame) /\ goodFrame(anyOfFrame)
    BY EmptyLists DEF sequenceFrame, anyOfFrame, goodFrame
  <1>2. goodFrame(entryFrame) /\ goodFrame(componentFrame)
    BY EmptyLists DEF entryFrame, componentFrame, goodFrame
  <1>3. goodFrame([fn |-> "Paren"]) /\ goodFrame([fn |-> "Repeat"])
    BY DEF goodFrame
  <1>4. goodFrame(RegexCall)
    BY EmptyLists DEF RegexCall, goodFrame
  <1>5. ASSUME NEW rcc, NEW ok, good(rcc)
        PROVE  goodFrame(RangeFrame(rcc, ok))
    BY <1>5 DEF RangeFrame, goodFrame
  <1> QED
    BY <1>1, <1>2, <1>3, <1>4, <1>5

LEMMA JoinedLists ==
    ASSUME NEW a, NEW b, NEW c
    PROVE  /\ <<a>> \o <<>> = <<a>> /\ <<a>> \o <<b>> = <<a, b>>
           /\ <<a>> \o <<b, c>> = <<a, b, c>>
  <1>1. <<a>> \o <<b>> = <<a, b>>
    <2>1. <<a>> \in Seq({a, b}) /\ <<b>> \in Seq({a, b}) /\ <<a, b>> \in Seq({a, b})
      OBVIOUS
    <2> DEFINE t == <<a>> \o <<b>>
    <2>2. /\ t \in Seq({a, b}) /\ Len(t) = 2
          /\ \A k \in 1 .. 2 : t[k] = IF k <= 1 THEN <<a>>[k] ELSE <<b>>[k - 1]
      BY <2>1, ConcatProperties, ShortLists
    <2>3. t[1] = <<a, b>>[1] /\ t[2] = <<a, b>>[2]
      <3> HIDE DEF t
      <3> QED
        BY <2>2
    <2> HIDE DEF t
    <2>4. \A k \in 1 .. Len(t) : t[k] = <<a, b>>[k]
      BY <2>2, <2>3
    <2>5. t = <<a, b>>
      BY <2>1, <2>2, <2>4, SeqEqual, ShortLists
    <2> QED
      BY <2>5 DEF t
  <1>2. <<a>> \o <<b, c>> = <<a, b, c>>
    <2> DEFINE S == {a, b, c}
               t == <<a>> \o <<b, c>>
    <2>1. <<a>> \in Seq(S) /\ <<b, c>> \in Seq(S) /\ <<a, b, c>> \in Seq(S)
      OBVIOUS
    <2>2. /\ t \in Seq(S) /\ Len(t) = 3
          /\ \A k \in 1 .. 3 : t[k] = IF k <= 1 THEN <<a>>[k] ELSE <<b, c>>[k - 1]
      BY <2>1, ConcatProperties, ShortLists
    <2>3. t[1] = <<a, b, c>>[1] /\ t[2] = <<a, b, c>>[2] /\ t[3] = <<a, b, c>>[3]
      <3> HIDE DEF t
      <3> QED
        BY <2>2
    <2> HIDE DEF t
    <2>4. \A k \in 1 .. Len(t) : t[k] = <<a, b, c>>[k]
      BY <2>2, <2>3
    <2>5. t = <<a, b, c>>
      BY <2>1, <2>2, <2>4, SeqEqual, ShortLists
    <2> QED
      BY <2>5 DEF t
  <1>3. <<a>> \o <<>> = <<a>>
    <2>1. <<a>> \in Seq({a})
      OBVIOUS
    <2> QED
      BY <2>1
  <1> QED
    BY <1>1, <1>2, <1>3

LEMMA CallLists ==
    /\ SequenceCall = <<sequenceFrame>> /\ AnyOfCall = <<anyOfFrame, sequenceFrame>>
    /\ RepeatCall = <<[fn |-> "Repeat"]>>
    /\ ParenCall = <<[fn |-> "Paren"], anyOfFrame, sequenceFrame>>
    /\ EntryCall = <<entryFrame>> /\ ComponentCall = <<componentFrame, entryFrame>>
  <1>1. SequenceCall = <<sequenceFrame>> /\ EntryCall = <<entryFrame>>
    BY DEF SequenceCall, EntryCall, sequenceFrame, entryFrame
  <1>2. AnyOfCall = <<anyOfFrame, sequenceFrame>>
    BY <1>1, JoinedLists, Zenon DEF AnyOfCall, anyOfFrame
  <1>3. ParenCall = <<[fn |-> "Paren"], anyOfFrame, sequenceFrame>>
    BY <1>2, JoinedLists, Zenon DEF ParenCall
  <1>4. ComponentCall = <<componentFrame, entryFrame>>
    BY <1>1, JoinedLists, Zenon DEF ComponentCall, componentFrame
  <1> QED
    BY <1>1, <1>2, <1>3, <1>4 DEF RepeatCall

\* The calls of each function, when no error was reported and when one was.
LEMMA CallsMade ==
    /\ isSequence(<<>>) /\ isSequence(SequenceCall) /\ isSequence(AnyOfCall)
    /\ isSequence(RepeatCall) /\ isSequence(ParenCall) /\ isSequence(EntryCall)
    /\ isSequence(ComponentCall) /\ \A f : isSequence(<<f>>)
    /\ \A f : /\ ~waits(f) => ready(f, <<>>)
              /\ f.fn = "Sequence" => ready(f, RepeatCall)
              /\ f.fn = "AnyOf" => ready(f, SequenceCall)
              /\ f.fn = "Entry" /\ f.entered => ready(f, AnyOfCall)
              /\ f.fn = "Repeat" => ready(f, ParenCall)
              /\ f.fn = "Component" => ready(f, EntryCall)
              /\ f.fn = "Regex" => ready(f, ComponentCall)
              /\ \A rcc, ok : f.fn = "Entry" /\ f.entered /\ good(rcc) => ready(f, <<RangeFrame(rcc, ok)>>)
  <1>1. /\ isSequence(<<>>) /\ isSequence(SequenceCall) /\ isSequence(AnyOfCall)
        /\ isSequence(RepeatCall) /\ isSequence(ParenCall) /\ isSequence(EntryCall)
        /\ isSequence(ComponentCall) /\ \A f : isSequence(<<f>>)
    BY EmptyLists, ShortLists, CallLists
  <1>2. ASSUME NEW f
        PROVE  /\ ~waits(f) => ready(f, <<>>)
               /\ f.fn = "Sequence" => ready(f, RepeatCall)
               /\ f.fn = "AnyOf" => ready(f, SequenceCall)
               /\ f.fn = "Entry" /\ f.entered => ready(f, AnyOfCall)
               /\ f.fn = "Repeat" => ready(f, ParenCall)
               /\ f.fn = "Component" => ready(f, EntryCall)
               /\ f.fn = "Regex" => ready(f, ComponentCall)
               /\ \A rcc, ok : f.fn = "Entry" /\ f.entered /\ good(rcc) => ready(f, <<RangeFrame(rcc, ok)>>)
    <2>1. ~waits(f) => ready(f, <<>>)
      <3>1. Len(<<>>) = 0
        OBVIOUS
      <3> QED
        BY <3>1, EmptyLists DEF ready, lastOf, calledInTurn, isSequence
    <2>2. f.fn = "Sequence" => ready(f, RepeatCall)
      BY OneCall, CallLists, FirstFrames DEF called, waits
    <2>3. f.fn = "AnyOf" => ready(f, SequenceCall)
      BY OneCall, CallLists, FirstFrames DEF called, waits, sequenceFrame
    <2>4. f.fn = "Entry" /\ f.entered => ready(f, AnyOfCall)
      BY TwoCalls, CallLists, FirstFrames DEF called, waits, anyOfFrame, sequenceFrame
    <2>5. f.fn = "Repeat" => ready(f, ParenCall)
      BY ThreeCalls, CallLists, FirstFrames DEF called, waits, anyOfFrame, sequenceFrame
    <2>6. f.fn = "Component" => ready(f, EntryCall)
      BY OneCall, CallLists, FirstFrames DEF called, waits, entryFrame
    <2>7. f.fn = "Regex" => ready(f, ComponentCall)
      BY TwoCalls, CallLists, FirstFrames DEF called, waits, componentFrame, entryFrame
    <2>8. ASSUME NEW rcc, NEW ok, f.fn = "Entry", f.entered, good(rcc)
          PROVE  ready(f, <<RangeFrame(rcc, ok)>>)
      BY <2>8, OneCall, FirstFrames DEF called, waits, RangeFrame
    <2> QED
      BY <2>1, <2>2, <2>3, <2>4, <2>5, <2>6, <2>7, <2>8
  <1> QED
    BY <1>1, <1>2
-----------------------------------------------------------------------------
(* Every step preserves the invariant. *)

\* What is known of the running call.
LEMMA RunningCall ==
    ASSUME IInv, stack # <<>>
    PROVE  /\ opened /\ epos \in Nat /\ cpos \in 0 .. epos
           /\ ~errors =>
                /\ replaces(top)
                /\ \A frame : goodFrame(frame) /\ frame.fn = top.fn => replaces(frame)
                /\ ret = <<>> => ~waits(top)
                /\ ret # <<>> => ret = <<ret[1]>> /\ fits(top.fn, ret[1])
  <1>1. opened /\ epos \in Nat /\ cpos \in 0 .. epos
    BY DEF IInv, CursorStaysInside, opened
  <1>2. ASSUME ~errors
        PROVE  /\ goodFrame(top)
               /\ \A frame : goodFrame(frame) /\ frame.fn = top.fn => replaces(frame)
               /\ ret = <<>> => ~waits(top)
               /\ ret # <<>> => ret = <<ret[1]>> /\ fits(top.fn, ret[1])
    <2>1. Len(stack) \in Nat /\ Len(stack) # 0
      BY PoppedStack DEF IInv, Typed
    <2>2. /\ stackOf(stack)
          /\ ret = <<>> => ~waits(top)
          /\ ret # <<>> => ret = <<ret[1]>> /\ fits(top.fn, ret[1])
      BY <1>2 DEF IInv, CallsGood
    <2>3. goodFrame(top)
      BY <2>1, <2>2 DEF stackOf, top
    <2>4. ASSUME NEW frame, goodFrame(frame), frame.fn = top.fn
          PROVE  replaces(frame)
      <3>1. CASE Len(stack) = 1
        BY <2>2, <2>4, <3>1 DEF stackOf, replaces, top
      <3>2. CASE Len(stack) # 1
        <4> DEFINE m == Len(stack) - 1
        <4>1. m \in 1 .. Len(stack) - 1 /\ m + 1 = Len(stack)
          <5>1. \A n \in Nat : n # 0 /\ n # 1 => n - 1 \in 1 .. n - 1 /\ (n - 1) + 1 = n
            OBVIOUS
          <5> QED
            BY <2>1, <3>2, <5>1
        <4>2. called(stack[m], top)
          BY <2>2, <4>1 DEF stackOf, top
        <4>3. called(stack[m], frame)
          BY <2>4, <4>2 DEF called
        <4> QED
          BY <2>4, <3>2, <4>3 DEF replaces
      <3> QED
        BY <3>1, <3>2
    <2> QED
      BY <2>2, <2>3, <2>4
  <1> QED
    BY <1>1, <1>2

\* Calls that are ready keep the invariant.
LEMMA Continues ==
    ASSUME IInv, stack # <<>>, NEW i \in 0 .. epos, NEW bad, NEW frame, NEW calls,
           continue(i, bad, frame, calls), isSequence(calls),
           ~errors /\ ~bad => replaces(frame) /\ ready(frame, calls)
    PROVE  IInv'
  BY Continued DEF isSequence, ready, lastOf

LEMMA BaseComponentStep ==
    ASSUME IInv, parseBaseComponent
    PROVE  IInv'
  <1>1. stack # <<>> /\ top.fn = "Repeat" /\ ret = <<>>
    BY DEF parseBaseComponent, running
  <1> DEFINE i == advanceTriviaOnly(cpos)
             atom == parseAtom(i)
  <1>2. i \in 0 .. epos
    BY <1>1, RunningCall, AdvanceTriviaOnlyInside
  <1>3. \/ isToken(i, "(") /\ continue(advance(i), FALSE, top, ParenCall)
        \/ atom.cpos > epos /\ finish(Undefined)
        \/ /\ ~(atom.cpos > epos) /\ moved(advanceTriviaOnly(atom.cpos), atom.bad)
           /\ ret' = <<atom.re>> /\ UNCHANGED stack
    BY DEF parseBaseComponent, ParenCall
  <1> HIDE DEF i
  <1>4. CASE isToken(i, "(") /\ continue(advance(i), FALSE, top, ParenCall)
    <2>1. advance(i) \in 0 .. epos
      BY <1>1, <1>2, RunningCall, AdvanceInside
    <2>2. isSequence(ParenCall) /\ ready(top, ParenCall)
      BY <1>1, CallsMade
    <2> QED
      BY <1>1, <1>4, <2>1, <2>2, RunningCall, Continues
  <1>5. CASE finish(Undefined)
    <2>1. Len(results) < Len(texts)
      BY <1>1 DEF IInv, CursorStaysInside
    <2> QED
      BY <1>5, <2>1, Finished DEF Undefined
  <1>6. CASE /\ ~(atom.cpos > epos) /\ moved(advanceTriviaOnly(atom.cpos), atom.bad)
             /\ ret' = <<atom.re>> /\ UNCHANGED stack
    <2>1. /\ atom.cpos \in 0 .. epos + 1
          /\ atom.cpos <= epos /\ ~atom.bad => isLeaf(atom.re)
      BY <1>1, <1>2, RunningCall, AtomInside
    <2>2. epos \in Nat
      BY <1>1, RunningCall
    <2> HIDE DEF atom
    <2>3. atom.cpos \in 0 .. epos /\ atom.cpos <= epos
      BY <1>6, <2>1, <2>2
    <2>4. advanceTriviaOnly(atom.cpos) \in 0 .. epos
      BY <1>1, <2>3, RunningCall, AdvanceTriviaOnlyInside
    <2>5. ~atom.bad => fits(top.fn, atom.re)
      BY <1>1, <2>1, <2>3, GoodLeaf DEF fits
    <2> QED
      BY <1>1, <1>6, <2>4, <2>5, Kept
  <1> QED
    BY <1>3, <1>4, <1>5, <1>6

LEMMA ParenthesizedStep ==
    ASSUME IInv, parseParenthesized
    PROVE  IInv'
  <1>1. /\ stack # <<>> /\ top.fn = "Paren"
        /\ return(advanceTriviaOnly(eat(cpos, ")")), ~isToken(cpos, ")"), ret[1])
    BY DEF parseParenthesized, running
  <1>2. advanceTriviaOnly(eat(cpos, ")")) \in 0 .. epos
    <2>1. eat(cpos, ")") \in 0 .. epos
      BY <1>1, RunningCall, EatInside
    <2> QED
      BY <1>1, <2>1, RunningCall, AdvanceTriviaOnlyInside
  <1>3. ~errors => \A f : called(f, top) => fits(f.fn, ret[1])
    <2>1. ~errors => good(ret[1])
      BY <1>1, RunningCall DEF waits, fits
    <2> QED
      BY <1>1, <2>1 DEF called, fits
  <1> QED
    BY <1>1, <1>2, <1>3, Returned

LEMMA RepeatComponentStep ==
    ASSUME IInv, parseRepeatComponent
    PROVE  IInv'
  <1>1. stack # <<>> /\ top.fn = "Repeat" /\ ret # <<>>
    BY DEF parseRepeatComponent, running
  <1> DEFINE rcc == ret[1]
  <1>2. ~errors => good(rcc)
    BY <1>1, RunningCall DEF fits
  <1>3. \/ /\ repeated(rcc) # NullOpt /\ moved(advance(cpos), FALSE)
           /\ ret' = <<repeated(rcc)>> /\ UNCHANGED stack
        \/ continue(cpos, FALSE, RangeFrame(rcc, FALSE), <<>>)
        \/ return(cpos, FALSE, rcc)
    BY DEF parseRepeatComponent
  <1>4. cpos \in 0 .. epos /\ advance(cpos) \in 0 .. epos
    BY <1>1, RunningCall, AdvanceInside
  <1> HIDE DEF rcc
  <1>5. CASE /\ repeated(rcc) # NullOpt /\ moved(advance(cpos), FALSE)
             /\ ret' = <<repeated(rcc)>> /\ UNCHANGED stack
    <2>1. ~errors => good(repeated(rcc))
      BY <1>2, <1>5, GoodRepeat DEF repeated
    <2>2. ~errors => fits(top.fn, repeated(rcc))
      BY <1>1, <2>1 DEF fits
    <2> QED
      BY <1>1, <1>4, <1>5, <2>2, Kept
  <1>6. CASE continue(cpos, FALSE, RangeFrame(rcc, FALSE), <<>>)
    <2> DEFINE g == RangeFrame(rcc, FALSE)
    <2>1. g.fn = "Range" /\ ~waits(g)
      BY DEF RangeFrame, waits
    <2>2. ~errors => replaces(g)
      <3> SUFFICES ASSUME ~errors
                   PROVE  replaces(g)
        OBVIOUS
      <3>1. goodFrame(g)
        BY <1>2, FirstFrames
      <3>2. replaces(top)
        BY <1>1, RunningCall
      <3> HIDE DEF g
      <3> QED
        BY <1>1, <2>1, <3>1, <3>2 DEF replaces, called
    <2>3. isSequence(<<>>) /\ ready(g, <<>>)
      BY <2>1, CallsMade
    <2> HIDE DEF g
    <2>4. continue(cpos, FALSE, g, <<>>)
      BY <1>6 DEF g
    <2> QED
      BY <1>1, <1>4, <2>2, <2>3, <2>4, Continues
  <1>7. CASE return(cpos, FALSE, rcc)
    <2>1. ~errors => \A f : called(f, top) => fits(f.fn, rcc)
      BY <1>1, <1>2 DEF called, fits
    <2> QED
      BY <1>1, <1>4, <1>7, <2>1, Returned
  <1> QED
    BY <1>3, <1>5, <1>6, <1>7
LEMMA RangeMinStep ==
    ASSUME IInv, parseRangeMin
    PROVE  IInv'
  <1>1. stack # <<>> /\ top.fn = "Range"
    BY DEF parseRangeMin, running
  <1> DEFINE min == parseRangeRepeatBound(advance(cpos), 0)
             i == advanceTriviaOnly(min.cpos)
             bad == min.bad \/ (min.has /\ ~isToken(i, ",") /\ ~isToken(i, "}"))
             frame == [top EXCEPT !.min = min.val]
  <1>2. continue(i, bad, frame, <<>>)
    BY DEF parseRangeMin
  <1>3. min.cpos \in 0 .. epos /\ min.val \in 0 .. UINT16_MAX
    <2>1. advance(cpos) \in 0 .. epos /\ opened /\ epos \in Nat
      BY <1>1, RunningCall, AdvanceInside
    <2> DEFINE a == advance(cpos)
    <2> HIDE DEF a
    <2>2. \A x \in 0 .. epos : /\ parseRangeRepeatBound(x, 0).cpos \in x .. epos
                               /\ parseRangeRepeatBound(x, 0).val \in {0} \cup 0 .. UINT16_MAX
      BY <2>1, BoundInside
    <2>3. min.cpos \in a .. epos /\ min.val \in {0} \cup 0 .. UINT16_MAX /\ a \in 0 .. epos
      BY <2>1, <2>2 DEF a
    <2> HIDE DEF min
    <2> QED
      BY <2>1, <2>3, WidthAssumption
  <1> HIDE DEF min
  <1>4. i \in 0 .. epos
    BY <1>1, <1>3, RunningCall, AdvanceTriviaOnlyInside
  <1>5. ~errors => replaces(frame) /\ ready(frame, <<>>)
    <2> SUFFICES ASSUME ~errors
                 PROVE  replaces(frame) /\ ready(frame, <<>>)
      OBVIOUS
    <2>1. goodFrame(top)
      BY <1>1, RunningCall DEF replaces
    <2>2. /\ DOMAIN top = {"fn", "rcc", "rng1ok", "min"} /\ good(top.rcc)
      BY <1>1, <2>1 DEF goodFrame
    <2>3. /\ frame.fn = "Range" /\ frame.rcc = top.rcc /\ frame.min = min.val
          /\ DOMAIN frame = {"fn", "rcc", "rng1ok", "min"}
      BY <1>1, <2>2
    <2> HIDE DEF frame
    <2>4. goodFrame(frame) /\ ~waits(frame)
      BY <1>3, <2>2, <2>3 DEF goodFrame, waits
    <2> QED
      BY <1>1, <2>3, <2>4, RunningCall, CallsMade
  <1> HIDE DEF i, bad, frame
  <1> QED
    BY <1>1, <1>2, <1>4, <1>5, CallsMade, Continues

LEMMA RangeMaxStep ==
    ASSUME IInv, parseRangeMax
    PROVE  IInv'
  <1>1. stack # <<>> /\ top.fn = "Range" /\ top.min # -1
    BY DEF parseRangeMax, running
  <1> DEFINE max == IF isToken(cpos, ",") THEN parseRangeRepeatBound(advance(cpos), UINT16_MAX)
                    ELSE [cpos |-> cpos, val |-> top.min, bad |-> FALSE]
             i == advanceTriviaOnly(max.cpos)
             bad == max.bad \/ ~isToken(i, "}") \/ badBounds(top.min, max.val, top.rng1ok)
             value == parseRangeRepeat(top.min, max.val, top.rcc)
  <1>2. return(eat(i, "}"), bad, value)
    BY DEF parseRangeMax
  <1>3. max.cpos \in 0 .. epos /\ (max.val = top.min \/ max.val \in 0 .. UINT16_MAX)
    <2>1. advance(cpos) \in 0 .. epos /\ opened /\ epos \in Nat /\ cpos \in 0 .. epos
      BY <1>1, RunningCall, AdvanceInside
    <2>2. CASE isToken(cpos, ",")
      <3> DEFINE a == advance(cpos)
      <3> HIDE DEF a
      <3>1. \A x \in 0 .. epos :
                /\ parseRangeRepeatBound(x, UINT16_MAX).cpos \in x .. epos
                /\ parseRangeRepeatBound(x, UINT16_MAX).val \in {UINT16_MAX} \cup 0 .. UINT16_MAX
        BY <2>1, BoundInside
      <3>2. max.cpos \in a .. epos /\ max.val \in {UINT16_MAX} \cup 0 .. UINT16_MAX /\ a \in 0 .. epos
        BY <2>1, <2>2, <3>1 DEF a
      <3> HIDE DEF max
      <3> QED
        BY <2>1, <3>2, WidthAssumption
    <2>3. CASE ~isToken(cpos, ",")
      BY <2>1, <2>3
    <2> QED
      BY <2>2, <2>3
  <1> HIDE DEF max
  <1>4. eat(i, "}") \in 0 .. epos
    <2>1. i \in 0 .. epos
      BY <1>1, <1>3, RunningCall, AdvanceTriviaOnlyInside
    <2> HIDE DEF i
    <2>2. opened /\ epos \in Nat
      BY <1>1, RunningCall
    <2> DEFINE c == eat(i, "}")
    <2>3. c \in i .. epos
      BY <2>1, <2>2, EatInside
    <2> HIDE DEF c
    <2>4. c \in 0 .. epos
      BY <2>1, <2>2, <2>3
    <2> QED
      BY <2>4 DEF c
  <1>5. ~errors /\ ~bad => \A f : called(f, top) => fits(f.fn, value)
    <2> SUFFICES ASSUME ~errors, ~bad
                 PROVE  \A f : called(f, top) => fits(f.fn, value)
      OBVIOUS
    <2>1. goodFrame(top)
      BY <1>1, RunningCall DEF replaces
    <2>2. good(top.rcc) /\ top.min \in 0 .. UINT16_MAX
      BY <1>1, <2>1 DEF goodFrame
    <2>3. ~badBounds(top.min, max.val, top.rng1ok)
      OBVIOUS
    <2>4. good(value)
      <3>1. max.val \in 0 .. UINT16_MAX
        BY <1>3, <2>2
      <3> QED
        BY <2>2, <2>3, <3>1, GoodRangeRepeat
    <2> HIDE DEF value
    <2> QED
      BY <1>1, <2>4 DEF called, fits
  <1> HIDE DEF i, bad, value
  <1> QED
    BY <1>1, <1>2, <1>4, <1>5, Returned

LEMMA SequenceStep ==
    ASSUME IInv, parseSequenceComponent
    PROVE  IInv'
  <1>1. stack # <<>> /\ top.fn = "Sequence"
    BY DEF parseSequenceComponent, running
  <1> DEFINE sre == IF ret = <<>> THEN top.sre ELSE pushed(top.sre, ret[1])
             frame == [top EXCEPT !.sre = sre]
             value == IF Len(sre) = 1 THEN sre[1] ELSE SequenceOpt(sre)
             bad == sre = <<>>
  <1>2. \/ return(cpos, bad, value)
        \/ continue(cpos, FALSE, frame, RepeatCall)
    BY DEF parseSequenceComponent
  <1>3. cpos \in 0 .. epos
    BY <1>1, RunningCall
  <1>4. ASSUME ~errors
        PROVE  /\ goodList(sre) /\ DOMAIN top = {"fn", "sre"}
    <2>1. goodFrame(top)
      BY <1>1, <1>4, RunningCall DEF replaces
    <2>2. goodList(top.sre) /\ DOMAIN top = {"fn", "sre"}
      BY <1>1, <2>1 DEF goodFrame
    <2>3. CASE ret = <<>>
      BY <2>2, <2>3
    <2>4. CASE ret # <<>>
      <3>1. good(ret[1])
        BY <1>1, <1>4, <2>4, RunningCall DEF fits
      <3>2. sre = Append(top.sre, ret[1])
        BY <1>4, <2>4 DEF pushed
      <3>3. goodList(Append(top.sre, ret[1]))
        BY <2>2, <3>1, GoodAppend
      <3> QED
        BY <2>2, <3>2, <3>3
    <2> QED
      BY <2>3, <2>4
  <1> HIDE DEF sre
  <1>5. CASE return(cpos, bad, value)
    <2>1. ASSUME ~errors, ~bad
          PROVE  good(value)
      <3>1. Len(sre) # 0
        BY <1>4, <2>1, EmptySeq DEF goodList
      <3> QED
        BY <1>4, <2>1, <3>1, GoodLists
    <2>2. ~errors /\ ~bad => \A f : called(f, top) => fits(f.fn, value)
      <3> HIDE DEF value, bad
      <3> QED
        BY <1>1, <2>1 DEF called, fits
    <2> HIDE DEF value, bad
    <2> QED
      BY <1>1, <1>3, <1>5, <2>2, Returned
  <1>6. CASE continue(cpos, FALSE, frame, RepeatCall)
    <2>1. ASSUME ~errors
          PROVE  replaces(frame) /\ ready(frame, RepeatCall)
      <3>1. DOMAIN top = {"fn", "sre"} /\ goodList(sre)
        BY <1>4, <2>1
      <3>2. frame.fn = "Sequence" /\ frame.sre = sre /\ DOMAIN frame = {"fn", "sre"}
        BY <1>1, <3>1
      <3> HIDE DEF frame
      <3>3. goodFrame(frame)
        BY <3>1, <3>2 DEF goodFrame
      <3> QED
        BY <1>1, <2>1, <3>2, <3>3, RunningCall, CallsMade
    <2> HIDE DEF frame
    <2> QED
      BY <1>1, <1>3, <1>6, <2>1, CallsMade, Continues
  <1> QED
    BY <1>2, <1>5, <1>6

LEMMA AnyOfStep ==
    ASSUME IInv, parseAnyOfComponent
    PROVE  IInv'
  <1>1. stack # <<>> /\ top.fn = "AnyOf"
    BY DEF parseAnyOfComponent, running
  <1> DEFINE are == top.are \o ret
             frame == [top EXCEPT !.are = are]
             value == IF Len(are) = 1 THEN are[1] ELSE AnyOfOpt(are)
  <1>2. \/ return(cpos, FALSE, value)
        \/ continue(advance(cpos), FALSE, frame, SequenceCall)
    BY DEF parseAnyOfComponent
  <1>3. cpos \in 0 .. epos /\ advance(cpos) \in 0 .. epos
    BY <1>1, RunningCall, AdvanceInside
  <1>4. ASSUME ~errors
        PROVE  /\ goodList(are) /\ Len(are) # 0 /\ DOMAIN top = {"fn", "are"}
    <2>1. goodFrame(top)
      BY <1>1, <1>4, RunningCall DEF replaces
    <2>2. goodList(top.are) /\ DOMAIN top = {"fn", "are"}
      BY <1>1, <2>1 DEF goodFrame
    <2>3. ret # <<>>
      BY <1>1, <1>4, RunningCall DEF waits
    <2>4. ret = <<ret[1]>> /\ good(ret[1])
      BY <1>1, <1>4, <2>3, RunningCall DEF fits
    <2>5. goodList(top.are \o <<ret[1]>>) /\ Len(top.are \o <<ret[1]>>) # 0
      BY <2>2, <2>4, GoodAppend
    <2> QED
      BY <2>2, <2>4, <2>5
  <1> HIDE DEF are
  <1>5. CASE return(cpos, FALSE, value)
    <2>1. ASSUME ~errors
          PROVE  good(value)
      BY <1>4, <2>1, GoodLists
    <2>2. ~errors => \A f : called(f, top) => fits(f.fn, value)
      <3> HIDE DEF value
      <3> QED
        BY <1>1, <2>1 DEF called, fits
    <2> HIDE DEF value
    <2> QED
      BY <1>1, <1>3, <1>5, <2>2, Returned
  <1>6. CASE continue(advance(cpos), FALSE, frame, SequenceCall)
    <2>1. ASSUME ~errors
          PROVE  replaces(frame) /\ ready(frame, SequenceCall)
      <3>1. DOMAIN top = {"fn", "are"} /\ goodList(are)
        BY <1>4, <2>1
      <3>2. frame.fn = "AnyOf" /\ frame.are = are /\ DOMAIN frame = {"fn", "are"}
        BY <1>1, <3>1
      <3> HIDE DEF frame
      <3>3. goodFrame(frame)
        BY <3>1, <3>2 DEF goodFrame
      <3> QED
        BY <1>1, <2>1, <3>2, <3>3, RunningCall, CallsMade
    <2> HIDE DEF frame
    <2> QED
      BY <1>1, <1>3, <1>6, <2>1, CallsMade, Continues
  <1> QED
    BY <1>2, <1>5, <1>6
LEMMA EnterEntryStep ==
    ASSUME IInv, enterEntry
    PROVE  IInv'
  <1>1. stack # <<>> /\ top.fn = "Entry"
    BY DEF enterEntry, running
  <1> DEFINE i == advanceTriviaOnly(cpos)
             i1 == eat(i, "!")
             i2 == eat(i1, "^")
             frame == [top EXCEPT !.entered = TRUE, !.isNegate = isToken(i, "!"),
                                  !.isFrontCheck = isToken(i1, "^")]
             calls == IF isToken(i2, "{") THEN <<RangeFrame(CharClassDotOpt, TRUE)>> ELSE AnyOfCall
  <1>2. continue(i2, isToken(i2, "!"), frame, calls)
    BY DEF enterEntry
  <1>3. opened /\ epos \in Nat /\ cpos \in 0 .. epos
    BY <1>1, RunningCall
  <1>4. i \in 0 .. epos
    BY <1>3, AdvanceTriviaOnlyInside
  <1> HIDE DEF i
  <1>5. i1 \in 0 .. epos
    <2>1. i1 \in i .. epos
      BY <1>3, <1>4, EatInside
    <2> HIDE DEF i1
    <2> QED
      BY <1>3, <1>4, <2>1
  <1> HIDE DEF i1
  <1>6. i2 \in 0 .. epos
    <2>1. i2 \in i1 .. epos
      BY <1>3, <1>5, EatInside
    <2> HIDE DEF i2
    <2> QED
      BY <1>3, <1>5, <2>1
  <1> HIDE DEF i2
  <1>7. ASSUME ~errors
        PROVE  replaces(frame) /\ ready(frame, calls)
    <2>1. goodFrame(top)
      BY <1>1, <1>7, RunningCall DEF replaces
    <2>2. DOMAIN top = {"fn", "entered", "isNegate", "isFrontCheck"}
      BY <1>1, <2>1 DEF goodFrame
    <2>3. /\ frame.fn = "Entry" /\ frame.entered
          /\ DOMAIN frame = {"fn", "entered", "isNegate", "isFrontCheck"}
      BY <1>1, <2>2
    <2> HIDE DEF frame
    <2>4. goodFrame(frame)
      BY <2>3 DEF goodFrame
    <2>5. good(CharClassDotOpt)
      BY GoodLeaf DEF CharClassDotOpt, isLeaf
    <2>6. ready(frame, AnyOfCall) /\ ready(frame, <<RangeFrame(CharClassDotOpt, TRUE)>>)
      BY <2>3, <2>5, CallsMade
    <2> QED
      BY <1>1, <1>7, <2>3, <2>4, <2>6, RunningCall
  <1>8. isSequence(calls)
    BY CallsMade
  <1> HIDE DEF frame, calls
  <1> QED
    BY <1>1, <1>2, <1>6, <1>7, <1>8, Continues

LEMMA LeaveEntryStep ==
    ASSUME IInv, leaveEntry
    PROVE  IInv'
  <1>1. stack # <<>> /\ top.fn = "Entry" /\ top.entered
    BY DEF leaveEntry, running
  <1> DEFINE i == advanceTriviaOnly(cpos)
             isBackCheck == isToken(i, "$")
             bad == top.isFrontCheck /\ isBackCheck
             entry == TopEntry(top.isNegate, top.isFrontCheck, isBackCheck, ret[1])
  <1>2. return(eat(i, "$"), bad, entry)
    BY DEF leaveEntry
  <1>3. opened /\ epos \in Nat /\ cpos \in 0 .. epos
    BY <1>1, RunningCall
  <1>4. i \in 0 .. epos
    BY <1>3, AdvanceTriviaOnlyInside
  <1> HIDE DEF i
  <1>5. eat(i, "$") \in 0 .. epos
    <2>1. eat(i, "$") \in i .. epos
      BY <1>3, <1>4, EatInside
    <2> QED
      BY <1>3, <1>4, <2>1
  <1>6. ~errors /\ ~bad => goodEntry(entry)
    <2>1. ~errors => good(ret[1])
      BY <1>1, RunningCall DEF waits, fits
    <2> QED
      BY <2>1 DEF goodEntry, TopEntry
  <1> HIDE DEF entry, bad
  <1>7. ~errors /\ ~bad => \A f : called(f, top) => fits(f.fn, entry)
    BY <1>1, <1>6 DEF called, fits
  <1> QED
    BY <1>1, <1>2, <1>5, <1>7, Returned

\* Lists of entries and of components grow by good ones.
LEMMA EntriesGrow ==
    ASSUME NEW s, goodEntries(s), NEW e, goodEntry(e), NEW t, t = s \o <<e>>
    PROVE  goodEntries(t)
  <1>1. s \in Seq(Range(s)) /\ \A k \in 1 .. Len(s) : goodEntry(s[k])
    BY DEF goodEntries
  <1>2. t \in Seq(Range(t))
    BY <1>1, OneMore
  <1>3. \A k \in 1 .. Len(t) : t[k] = IF k = Len(s) + 1 THEN e ELSE s[k]
    BY <1>1, OneMore
  <1>4. \A k \in 1 .. Len(t) : k # Len(s) + 1 => k \in 1 .. Len(s)
    BY <1>1, OneMore
  <1>5. \A k \in 1 .. Len(t) : goodEntry(t[k])
    BY <1>1, <1>3, <1>4
  <1> QED
    BY <1>2, <1>5 DEF goodEntries

LEMMA ComponentsGrow ==
    ASSUME NEW s, goodComponents(s), NEW c, goodComponent(c), NEW t, t = s \o <<c>>
    PROVE  goodComponents(t)
  <1>1. s \in Seq(Range(s)) /\ \A k \in 1 .. Len(s) : goodComponent(s[k])
    BY DEF goodComponents
  <1>2. t \in Seq(Range(t))
    BY <1>1, OneMore
  <1>3. \A k \in 1 .. Len(t) : t[k] = IF k = Len(s) + 1 THEN c ELSE s[k]
    BY <1>1, OneMore
  <1>4. \A k \in 1 .. Len(t) : k # Len(s) + 1 => k \in 1 .. Len(s)
    BY <1>1, OneMore
  <1>5. \A k \in 1 .. Len(t) : goodComponent(t[k])
    BY <1>1, <1>3, <1>4
  <1> QED
    BY <1>2, <1>5 DEF goodComponents

LEMMA ComponentStep ==
    ASSUME IInv, parseRegexComponent
    PROVE  IInv'
  <1>1. stack # <<>> /\ top.fn = "Component"
    BY DEF parseRegexComponent, running
  <1> DEFINE are == top.are \o ret
             i == cpos + 1
             next == advanceTriviaOnly(eat(i, "&"))
             frame == [top EXCEPT !.are = are]
             onlyChecks == \A k \in DOMAIN are : are[k].isFrontCheck \/ are[k].isBackCheck
             value == IF Len(are) = 1 THEN SingleComponent(are[1]) ELSE AllOfComponent(are)
  <1>2. \/ isToken(cpos, "&") /\ continue(next, isToken(i, "&"), frame, EntryCall)
        \/ return(cpos, onlyChecks, value)
    BY DEF parseRegexComponent
  <1>3. opened /\ epos \in Nat /\ cpos \in 0 .. epos
    BY <1>1, RunningCall
  <1>4. ASSUME ~errors
        PROVE  goodEntries(are) /\ DOMAIN top = {"fn", "are"}
    <2>1. goodFrame(top)
      BY <1>1, <1>4, RunningCall DEF replaces
    <2>2. goodEntries(top.are) /\ DOMAIN top = {"fn", "are"}
      BY <1>1, <2>1 DEF goodFrame
    <2>3. CASE ret = <<>>
      <3>1. top.are \o <<>> = top.are
        BY <2>2 DEF goodEntries
      <3> QED
        BY <2>2, <2>3, <3>1
    <2>4. CASE ret # <<>>
      <3>1. ret = <<ret[1]>> /\ goodEntry(ret[1])
        BY <1>1, <1>4, <2>4, RunningCall DEF fits
      <3>2. goodEntries(top.are \o <<ret[1]>>)
        BY <2>2, <3>1, EntriesGrow
      <3> QED
        BY <2>2, <3>1, <3>2
    <2> QED
      BY <2>3, <2>4
  <1> HIDE DEF are
  <1>5. CASE isToken(cpos, "&") /\ continue(next, isToken(i, "&"), frame, EntryCall)
    <2>1. next \in 0 .. epos
      <3>1. i \in 0 .. epos
        BY <1>3, <1>5 DEF isToken, isEOS
      <3> HIDE DEF i
      <3>2. eat(i, "&") \in i .. epos
        BY <1>3, <3>1, EatInside
      <3>3. eat(i, "&") \in 0 .. epos
        BY <1>3, <3>1, <3>2
      <3> QED
        BY <1>3, <3>3, AdvanceTriviaOnlyInside
    <2>2. ASSUME ~errors
          PROVE  replaces(frame) /\ ready(frame, EntryCall)
      <3>1. DOMAIN top = {"fn", "are"} /\ goodEntries(are)
        BY <1>4, <2>2
      <3>2. frame.fn = "Component" /\ frame.are = are /\ DOMAIN frame = {"fn", "are"}
        BY <1>1, <3>1
      <3> HIDE DEF frame
      <3>3. goodFrame(frame)
        BY <3>1, <3>2 DEF goodFrame
      <3> QED
        BY <1>1, <2>2, <3>2, <3>3, RunningCall, CallsMade
    <2> HIDE DEF frame, next
    <2> QED
      BY <1>1, <1>5, <2>1, <2>2, CallsMade, Continues
  <1>6. CASE return(cpos, onlyChecks, value)
    <2>1. ASSUME ~errors, ~onlyChecks
          PROVE  goodComponent(value)
      <3>1. /\ are \in Seq(Range(are)) /\ Len(are) \in Nat /\ DOMAIN are = 1 .. Len(are)
            /\ \A k \in 1 .. Len(are) : goodEntry(are[k])
        BY <1>4, <2>1 DEF goodEntries
      <3>2. PICK k \in 1 .. Len(are) : ~isCheck(are[k])
        BY <2>1, <3>1 DEF isCheck
      <3>3. CASE Len(are) = 1
        <4>1. k = 1 /\ value = SingleComponent(are[1])
          BY <3>2, <3>3
        <4> QED
          BY <3>1, <3>2, <4>1 DEF goodComponent, SingleComponent
      <3>4. CASE Len(are) # 1
        <4>1. value = AllOfComponent(are) /\ Len(are) >= 2
          BY <3>1, <3>2, <3>4
        <4>2. value.musts = are
          BY <4>1 DEF AllOfComponent
        <4> QED
          BY <1>4, <2>1, <3>2, <4>1, <4>2 DEF goodComponent
      <3> QED
        BY <3>3, <3>4
    <2> HIDE DEF value, onlyChecks
    <2>2. ~errors /\ ~onlyChecks => \A f : called(f, top) => fits(f.fn, value)
      BY <1>1, <2>1 DEF called, fits
    <2> QED
      BY <1>1, <1>3, <1>6, <2>2, Returned
  <1> QED
    BY <1>2, <1>5, <1>6
\* parseRegex starts: a text without its slashes is refused at once, the
\* others are opened.
LEMMA ParseRegexStep ==
    ASSUME IInv, parseRegex
    PROVE  IInv'
  <1>1. stack = <<>> /\ Len(results) < Len(texts)
    BY DEF parseRegex
  <1> DEFINE i == advanceTriviaOnly(0)
             calls == IF isToken(i, "<") THEN <<>> ELSE ComponentCall
  <1>2. \/ finish(Rejected)
        \/ finish(Undefined)
        \/ /\ framed /\ ~(epos < 0) /\ moved(i, FALSE) /\ ret' = <<>>
           /\ stack' = <<RegexCall>> \o calls
    BY DEF parseRegex
  <1>3. CASE finish(Rejected)
    BY <1>1, <1>3, Finished DEF Rejected
  <1>4. CASE finish(Undefined)
    BY <1>1, <1>4, Finished DEF Undefined
  <1>5. CASE /\ framed /\ ~(epos < 0) /\ moved(i, FALSE) /\ ret' = <<>>
             /\ stack' = <<RegexCall>> \o calls
    <2>1. opened /\ epos \in Nat
      <3>1. text \in Seq(Characters) /\ Len(text) \in Nat
        <4>1. Len(results) \in Nat /\ Len(texts) \in Nat /\ texts \in Seq(Seq(Characters))
          BY DEF IInv, Typed
        <4>2. Len(results) + 1 \in 1 .. Len(texts)
          BY <1>1, <4>1
        <4>3. text \in Seq(Characters)
          BY <4>1, <4>2 DEF text
        <4> QED
          BY <4>3
      <3>2. epos \in Int
        BY <3>1 DEF epos
      <3>3. epos \in Nat
        BY <1>5, <3>2
      <3>4. epos + 2 <= Len(text) /\ charAt(epos) = "/"
        <4>1. Len(text) >= 2 /\ text[1] = "/"
          BY <1>5 DEF framed
        <4>2. CASE isUnicode
          <5>1. epos + 2 = Len(text) /\ text[Len(text)] = "/"
            BY <1>5, <3>1, <4>2 DEF epos, framed
          <5> QED
            BY <3>1, <3>3, <5>1 DEF charAt
        <4>3. CASE ~isUnicode
          <5>1. epos + 2 = Len(text) - 1 /\ text[Len(text) - 1] = "/"
            BY <1>5, <3>1, <4>3 DEF epos, framed
          <5> QED
            BY <3>1, <3>3, <5>1 DEF charAt
        <4> QED
          BY <4>2, <4>3
      <3> QED
        BY <3>1, <3>3, <3>4 DEF opened
    <2>2. i \in 0 .. epos
      BY <2>1, AdvanceTriviaOnlyInside
    <2> HIDE DEF i
    <2>3. CursorStaysInside'
      <3>1. cpos' = i /\ results' = results /\ texts' = texts /\ entrypoint' = entrypoint
        BY <1>5 DEF moved
      <3>2. opened' /\ epos' = epos
        BY <2>1, <3>1 DEF opened, text, epos, charAt, isUnicode
      <3> QED
        BY <1>1, <2>2, <3>1, <3>2 DEF CursorStaysInside
    <2>4. \/ stack' = <<RegexCall>>
          \/ stack' = <<RegexCall, componentFrame, entryFrame>>
      BY <1>5, JoinedLists, CallLists
    <2>5. isSequence(stack') /\ stack' # <<>>
      <3>1. \A a, b, c : isSequence(<<a>>) /\ <<a>> # <<>> /\ isSequence(<<a, b, c>>) /\ <<a, b, c>> # <<>>
        BY ShortLists
      <3> QED
        BY <2>4, <3>1, Zenon
    <2>6. Typed'
      BY <1>5, <2>5 DEF IInv, Typed, moved, isSequence
    <2>7. ResultsGood'
      BY <1>5 DEF IInv, ResultsGood, moved
    <2>8. stackOf(stack') /\ ~waits(stack'[Len(stack')])
      <3>1. RegexCall.fn = "Regex" /\ componentFrame.fn = "Component" /\ entryFrame.fn = "Entry"
            /\ ~entryFrame.entered
        BY DEF RegexCall, componentFrame, entryFrame
      <3>2. called(RegexCall, componentFrame) /\ called(componentFrame, entryFrame)
            /\ ~waits(RegexCall) /\ ~waits(entryFrame)
        BY <3>1 DEF called, waits
      <3>3. CASE stack' = <<RegexCall>>
        <4> DEFINE s == <<RegexCall>>
        <4>1. Len(s) = 1 /\ s[1] = RegexCall
          BY ShortLists
        <4> HIDE DEF s
        <4>2. stackOf(s) /\ ~waits(s[Len(s)])
          BY <3>1, <3>2, <4>1, FirstFrames DEF stackOf
        <4> QED
          BY <3>3, <4>2 DEF s
      <3>4. CASE stack' = <<RegexCall, componentFrame, entryFrame>>
        <4> DEFINE s == <<RegexCall, componentFrame, entryFrame>>
        <4>1. Len(s) = 3 /\ s[1] = RegexCall /\ s[2] = componentFrame /\ s[3] = entryFrame
          BY ShortLists
        <4> HIDE DEF s
        <4>2. \A k \in 1 .. Len(s) : goodFrame(s[k])
          BY <4>1, FirstFrames
        <4>3. \A k \in 1 .. Len(s) - 1 : called(s[k], s[k + 1])
          BY <3>2, <4>1
        <4>4. stackOf(s) /\ ~waits(s[Len(s)])
          BY <3>1, <3>2, <4>1, <4>2, <4>3 DEF stackOf
        <4> QED
          BY <3>4, <4>4 DEF s
      <3> QED
        BY <2>4, <3>3, <3>4
    <2>9. CallsGood'
      BY <1>5, <2>8 DEF CallsGood, top
    <2> QED
      BY <2>3, <2>6, <2>7, <2>9 DEF IInv
  <1> QED
    BY <1>2, <1>3, <1>4, <1>5

\* What parseRegex has collected, one component more when one was parsed.
LEMMA Collected ==
    ASSUME IInv, stack # <<>>, top.fn = "Regex", ~errors
    PROVE  DOMAIN top = DOMAIN RegexCall /\ goodComponents(top.rv \o ret)
  <1>1. goodFrame(top)
    BY RunningCall DEF replaces
  <1>2. goodComponents(top.rv) /\ DOMAIN top = DOMAIN RegexCall
    BY <1>1 DEF goodFrame
  <1>3. CASE ret = <<>>
    <2>1. top.rv \o <<>> = top.rv
      BY <1>2 DEF goodComponents
    <2> QED
      BY <1>2, <1>3, <2>1
  <1>4. CASE ret # <<>>
    <2>1. ret = <<ret[1]>> /\ goodComponent(ret[1])
      BY <1>4, RunningCall DEF fits
    <2>2. goodComponents(top.rv \o <<ret[1]>>)
      BY <1>2, <2>1, ComponentsGrow
    <2> QED
      BY <1>2, <2>1, <2>2
  <1> QED
    BY <1>3, <1>4

\* parseRegex goes on behind its tokens, with what it has collected.
LEMMA RegexGoesOn ==
    ASSUME IInv, stack # <<>>, top.fn = "Regex", NEW i \in 0 .. epos, NEW frame,
           continue(i, FALSE, frame, componentIfMore(i)),
           frame.fn = "Regex",
           DOMAIN top = DOMAIN RegexCall => DOMAIN frame = DOMAIN RegexCall /\ frame.rv = top.rv \o ret
    PROVE  IInv'
  <1>1. ASSUME ~errors
        PROVE  replaces(frame) /\ ready(frame, componentIfMore(i))
    <2>1. DOMAIN frame = DOMAIN RegexCall /\ goodComponents(frame.rv)
      BY <1>1, Collected
    <2>2. goodFrame(frame) /\ ~waits(frame)
      BY <2>1 DEF goodFrame, waits
    <2>3. ready(frame, <<>>) /\ ready(frame, ComponentCall)
      BY <2>2, CallsMade
    <2> QED
      BY <1>1, <2>2, <2>3, RunningCall DEF componentIfMore
  <1>2. isSequence(componentIfMore(i))
    BY CallsMade DEF componentIfMore
  <1> QED
    BY <1>1, <1>2, Continues

LEMMA FirstComponentStep ==
    ASSUME IInv, firstComponent
    PROVE  IInv'
  <1>1. stack # <<>> /\ top.fn = "Regex"
    BY DEF firstComponent, running
  <1> DEFINE i == eat(cpos, "^")
             i1 == eat(i, "<")
             frame == [top EXCEPT !.at = "second", !.rv = @ \o ret,
                                  !.preanchor = isToken(cpos, "^"), !.preparen = isToken(i, "<")]
  <1>2. continue(i1, FALSE, frame, componentIfMore(i1))
    BY DEF firstComponent
  <1>3. opened /\ epos \in Nat /\ cpos \in 0 .. epos
    BY <1>1, RunningCall
  <1>4. i \in 0 .. epos
    <2>1. i \in cpos .. epos
      BY <1>3, EatInside
    <2> HIDE DEF i
    <2> QED
      BY <1>3, <2>1
  <1> HIDE DEF i
  <1>5. i1 \in 0 .. epos
    <2>1. i1 \in i .. epos
      BY <1>3, <1>4, EatInside
    <2> HIDE DEF i1
    <2> QED
      BY <1>3, <1>4, <2>1
  <1>6. /\ frame.fn = "Regex"
        /\ DOMAIN top = DOMAIN RegexCall => DOMAIN frame = DOMAIN RegexCall /\ frame.rv = top.rv \o ret
    BY <1>1 DEF RegexCall
  <1> HIDE DEF i1, frame
  <1> QED
    BY <1>1, <1>2, <1>5, <1>6, RegexGoesOn

LEMMA SecondComponentStep ==
    ASSUME IInv, secondComponent
    PROVE  IInv'
  <1>1. stack # <<>> /\ top.fn = "Regex"
    BY DEF secondComponent, running
  <1> DEFINE i == eat(cpos, ">")
             i1 == eat(i, "$")
             frame == [top EXCEPT !.at = "third", !.rv = @ \o ret,
                                  !.postparen = isToken(cpos, ">"), !.postanchor = isToken(i, "$")]
  <1>2. continue(i1, FALSE, frame, componentIfMore(i1))
    BY DEF secondComponent
  <1>3. opened /\ epos \in Nat /\ cpos \in 0 .. epos
    BY <1>1, RunningCall
  <1>4. i \in 0 .. epos
    <2>1. i \in cpos .. epos
      BY <1>3, EatInside
    <2> HIDE DEF i
    <2> QED
      BY <1>3, <2>1
  <1> HIDE DEF i
  <1>5. i1 \in 0 .. epos
    <2>1. i1 \in i .. epos
      BY <1>3, <1>4, EatInside
    <2> HIDE DEF i1
    <2> QED
      BY <1>3, <1>4, <2>1
  <1>6. /\ frame.fn = "Regex"
        /\ DOMAIN top = DOMAIN RegexCall => DOMAIN frame = DOMAIN RegexCall /\ frame.rv = top.rv \o ret
    BY <1>1 DEF RegexCall
  <1> HIDE DEF i1, frame
  <1> QED
    BY <1>1, <1>2, <1>5, <1>6, RegexGoesOn
\* A good component that the tests for an anchor let through.
LEMMA AnchorIsGood ==
    ASSUME NEW cc, goodComponent(cc), validPreAnchor(cc) \/ validPostAnchor(cc)
    PROVE  goodAnchor(cc)
  <1>1. CASE cc = SingleComponent(cc.entry) /\ ~isCheck(cc.entry)
    <2>1. cc.tag = "Single"
      BY <1>1 DEF SingleComponent
    <2>2. entriesOf(cc) = <<cc.entry>>
      BY <2>1 DEF entriesOf
    <2>3. \A e \in entriesIn(cc) : e = cc.entry
      BY <2>2 DEF entriesIn
    <2> QED
      BY <1>1, <2>1, <2>3 DEF goodAnchor
  <1>2. CASE cc = AllOfComponent(cc.musts) /\ goodEntries(cc.musts)
    <2>1. cc.tag = "AllOf"
      BY <1>2 DEF AllOfComponent
    <2>2. entriesOf(cc) = cc.musts
      BY <2>1 DEF entriesOf
    <2>3. validAllOf(cc)
      BY <2>1 DEF validPreAnchor, validPostAnchor
    <2>4. \A e \in entriesIn(cc) : ~isCheck(e)
      BY <2>2, <2>3 DEF entriesIn, validAllOf, isCheck
    <2> QED
      BY <2>3, <2>4 DEF goodAnchor, validAllOf
  <1> QED
    BY <1>1, <1>2 DEF goodComponent

LEMMA ThirdComponentStep ==
    ASSUME IInv, thirdComponent
    PROVE  IInv'
  <1>1. stack # <<>> /\ top.fn = "Regex"
    BY DEF thirdComponent, running
  <1> DEFINE rv == top.rv \o ret
             regex == regexOf(top, rv)
             anchored == top.preanchor \/ top.postanchor
             bad == \/ errors
                    \/ top.preparen # top.postparen
                    \/ anchored /\ ~(top.preparen /\ top.postparen)
                    \/ anchored /\ Len(rv) # wanted(top)
                    \/ top.preanchor /\ ~validPreAnchor(regex.preanchor)
                    \/ top.postanchor /\ ~validPostAnchor(regex.postanchor)
                    \/ ~isEOS(cpos)
             Accepted == [status |-> "accepted", regex |-> regex, parts |-> Len(rv)]
             result == IF Len(rv) < wanted(top) THEN Undefined ELSE IF bad THEN Rejected ELSE Accepted
  <1>2. finish(result)
    BY DEF thirdComponent
  <1>3. ASSUME ~(Len(rv) < wanted(top)), ~bad
        PROVE  goodRegex(regex)
    <2>1. goodComponents(rv)
      BY <1>1, <1>3, Collected
    <2>2. /\ top.preanchor => validPreAnchor(regex.preanchor)
          /\ top.postanchor => validPostAnchor(regex.postanchor)
      BY <1>3
    <2>3. /\ regex.preanchor = IF top.preanchor THEN rv[1] ELSE NoComponent
          /\ regex.re = IF top.preanchor THEN rv[2] ELSE rv[1]
          /\ regex.postanchor = IF top.postanchor THEN rv[wanted(top)] ELSE NoComponent
      BY DEF regexOf
    <2>4. ~(Len(rv) < wanted(top))
      BY <1>3
    <2> HIDE DEF rv, regex
    <2>5. Len(rv) \in Nat /\ \A k \in 1 .. Len(rv) : goodComponent(rv[k])
      BY <2>1 DEF goodComponents
    <2>6. wanted(top) \in 1 .. 3 /\ (top.preanchor => wanted(top) \in 2 .. 3)
      BY DEF wanted
    <2>7. goodComponent(rv[1]) /\ goodComponent(rv[wanted(top)]) /\ (top.preanchor => goodComponent(rv[2]))
      <3>1. 1 \in 1 .. Len(rv) /\ wanted(top) \in 1 .. Len(rv)
        BY <2>4, <2>5, <2>6
      <3>2. ASSUME top.preanchor
            PROVE  2 \in 1 .. Len(rv)
        BY <2>4, <2>5, <2>6, <3>2
      <3> QED
        BY <2>5, <3>1, <3>2
    <2>8. goodComponent(regex.re)
      BY <2>3, <2>7
    <2>9. regex.preanchor = NoComponent \/ goodAnchor(regex.preanchor)
      BY <2>2, <2>3, <2>7, AnchorIsGood
    <2>10. regex.postanchor = NoComponent \/ goodAnchor(regex.postanchor)
      BY <2>2, <2>3, <2>7, AnchorIsGood
    <2> QED
      BY <2>8, <2>9, <2>10 DEF goodRegex
  <1> HIDE DEF regex, bad, rv
  <1>4. result.status = "accepted" => goodRegex(result.regex)
    BY <1>3 DEF Undefined, Rejected
  <1>5. Len(results) < Len(texts)
    BY <1>1 DEF IInv, CursorStaysInside
  <1> HIDE DEF result
  <1> QED
    BY <1>2, <1>4, <1>5, Finished

-----------------------------------------------------------------------------
(* The theorems. *)

LEMMA InitHolds == Init => IInv
  <1> SUFFICES ASSUME Init
               PROVE  IInv
    OBVIOUS
  <1>1. PICK session \in Sessions : entrypoint = session.entrypoint /\ texts = session.texts
    BY DEF Init
  <1>2. texts \in Seq(Seq(Characters))
    BY <1>1, SessionsAssumption
  <1>3. results = <<>> /\ stack = <<>> /\ <<>> \in Seq(Range(<<>>)) /\ Len(<<>>) = 0
    BY EmptySeq DEF Init, Idle
  <1>4. Len(texts) \in Nat
    BY <1>2
  <1>5. Typed
    BY <1>2, <1>3, <1>4 DEF Typed
  <1>6. ResultsGood
    BY <1>3 DEF ResultsGood
  <1> QED
    BY <1>3, <1>5, <1>6 DEF IInv, CursorStaysInside, CallsGood

LEMMA StepKeeps == IInv /\ [Step]_vars => IInv'
  <1>1. ASSUME IInv, Step
        PROVE  IInv'
    BY <1>1, ParseRegexStep, FirstComponentStep, SecondComponentStep, ThirdComponentStep,
       ComponentStep, EnterEntryStep, LeaveEntryStep, AnyOfStep, SequenceStep, RepeatComponentStep,
       BaseComponentStep, ParenthesizedStep, RangeMinStep, RangeMaxStep DEF Step
  <1>2. ASSUME IInv, UNCHANGED vars
        PROVE  IInv'
    BY <1>2 DEF vars, IInv, Typed, CursorStaysInside, ResultsGood, CallsGood, top,
                opened, text, epos, charAt, isUnicode
  <1> QED
    BY <1>1, <1>2

\* parseRegex and all that it calls keep the calls, what they have collected
\* and what they returned in order, for every text and every session.
THEOREM InvariantHolds == Spec => []IInv
  <1> QED
    BY InitHolds, StepKeeps, PTL DEF Spec

\* No call moves the cursor out of the text that is open: it stays between
\* the slashes of every text, well formed or not, whatever the errors
\* reported on the way (cpos and epos of RegexParser).
THEOREM CursorInside == Spec => []CursorStaysInside
  <1>1. IInv => CursorStaysInside
    BY DEF IInv
  <1> QED
    BY <1>1, InvariantHolds, PTL

\* A good component has good entries, one of them no check.
LEMMA EntriesOfComponent ==
    ASSUME NEW cc, goodComponent(cc)
    PROVE  /\ \A e \in entriesIn(cc) : goodEntry(e)
           /\ \E e \in entriesIn(cc) : ~isCheck(e)
           /\ cc.tag = "AllOf" => Len(cc.musts) >= 2
  <1>1. CASE cc = SingleComponent(cc.entry) /\ goodEntry(cc.entry) /\ ~isCheck(cc.entry)
    <2>1. cc.tag = "Single"
      BY <1>1 DEF SingleComponent
    <2>2. entriesOf(cc) = <<cc.entry>>
      BY <2>1 DEF entriesOf
    <2>3. entriesIn(cc) = {cc.entry}
      BY <2>2 DEF entriesIn
    <2> QED
      BY <1>1, <2>1, <2>3
  <1>2. CASE /\ cc = AllOfComponent(cc.musts) /\ goodEntries(cc.musts) /\ Len(cc.musts) >= 2
             /\ \E k \in 1 .. Len(cc.musts) : ~isCheck(cc.musts[k])
    <2>1. cc.tag = "AllOf"
      BY <1>2 DEF AllOfComponent
    <2>2. entriesOf(cc) = cc.musts
      BY <2>1 DEF entriesOf
    <2>3. DOMAIN cc.musts = 1 .. Len(cc.musts) /\ \A k \in 1 .. Len(cc.musts) : goodEntry(cc.musts[k])
      BY <1>2 DEF goodEntries
    <2>4. entriesIn(cc) = {cc.musts[k] : k \in 1 .. Len(cc.musts)}
      BY <2>2, <2>3 DEF entriesIn
    <2> QED
      BY <1>2, <2>3, <2>4
  <1> QED
    BY <1>1, <1>2 DEF goodComponent

\* What the parser returns without an error is what the compiler and the
\* operations of a Regex take for granted: bounds of a repeat in order and
\* not one of those with a node of their own, choices and sequences of at
\* least two parts at every depth, no component of checks alone, no entry
\* that is anchored at both ends, no check in an anchor.
THEOREM AcceptedRegexesAreWellBuilt == Spec => []AcceptedIsWellBuilt
  <1>1. ASSUME IInv
        PROVE  AcceptedIsWellBuilt
    <2> SUFFICES ASSUME NEW k \in accepted
                 PROVE  LET regex == results[k].regex
                        IN  /\ \A cc \in componentsOf(regex) :
                                  /\ \A e \in entriesIn(cc) :
                                        wellBuilt(e.opt, Len(texts[k])) /\ ~(e.isFrontCheck /\ e.isBackCheck)
                                  /\ \E e \in entriesIn(cc) : ~isCheck(e)
                                  /\ cc.tag = "AllOf" => Len(cc.musts) >= 2
                            /\ \A cc \in {regex.preanchor, regex.postanchor} \ {NoComponent} :
                                  /\ \A e \in entriesIn(cc) : ~isCheck(e)
                                  /\ cc.tag = "AllOf" => isMatchable(cc)
      BY DEF AcceptedIsWellBuilt
    <2> DEFINE regex == results[k].regex
    <2>1. /\ texts \in Seq(Seq(Characters)) /\ results \in Seq(Range(results))
          /\ Len(results) <= Len(texts) /\ ResultsGood
      BY <1>1 DEF IInv, Typed
    <2>2. k \in 1 .. Len(results) /\ results[k].status = "accepted"
      BY <2>1 DEF accepted
    <2>3. goodRegex(regex)
      BY <2>1, <2>2 DEF ResultsGood
    <2>4. Len(texts[k]) \in Nat
      <3>1. Len(texts) \in Nat /\ Len(results) \in Nat
        BY <2>1
      <3>2. k \in 1 .. Len(texts)
        BY <2>1, <2>2, <3>1
      <3>3. texts[k] \in Seq(Characters)
        BY <2>1, <3>2
      <3> QED
        BY <3>3
    <2> HIDE DEF regex
    <2>5. ASSUME NEW cc \in componentsOf(regex)
          PROVE  /\ \A e \in entriesIn(cc) :
                       wellBuilt(e.opt, Len(texts[k])) /\ ~(e.isFrontCheck /\ e.isBackCheck)
                 /\ \E e \in entriesIn(cc) : ~isCheck(e)
                 /\ cc.tag = "AllOf" => Len(cc.musts) >= 2
      <3>1. goodComponent(cc)
        BY <2>3 DEF componentsOf, goodRegex, goodAnchor
      <3>2. ASSUME NEW e \in entriesIn(cc)
            PROVE  wellBuilt(e.opt, Len(texts[k])) /\ ~(e.isFrontCheck /\ e.isBackCheck)
        <4>1. goodEntry(e)
          BY <3>1, EntriesOfComponent
        <4>2. \A d \in 0 .. Len(texts[k]) : d \in Nat
          BY <2>4
        <4> QED
          BY <4>1, <4>2 DEF goodEntry, good, wellBuilt
      <3> QED
        BY <3>1, <3>2, EntriesOfComponent
    <2>6. ASSUME NEW cc \in {regex.preanchor, regex.postanchor} \ {NoComponent}
          PROVE  /\ \A e \in entriesIn(cc) : ~isCheck(e)
                 /\ cc.tag = "AllOf" => isMatchable(cc)
      BY <2>3 DEF goodRegex, goodAnchor
    <2> QED
      BY <2>5, <2>6 DEF regex
  <1> QED
    BY <1>1, InvariantHolds, PTL

=============================================================================
