--------------------------- MODULE REExecutorProofs ---------------------------
(***************************************************************************)
(* Proofs about REExecutor: that its lists, merges, loops and choices give *)
(* the answers its properties describe by substrings and languages.        *)
(***************************************************************************)
EXTENDS REExecutor, SequenceTheorems, WellFoundedInduction, TLAPS

-----------------------------------------------------------------------------
(* Lists that pick some elements of another, in its order. *)

\* A set of natural numbers that is not empty has a least one.
LEMMA LeastNumber ==
    ASSUME NEW S \in SUBSET Nat, S # {}
    PROVE  \E i \in S : \A j \in S : i <= j
  <1>1. PICK i \in S : \A j \in S : ~(<<j, i>> \in OpToRel(<, Nat))
    BY NatLessThanWellFounded, WFMin
  <1>2. \A j \in S : ~(j < i)
    BY <1>1, Zenon DEF OpToRel
  <1> QED
    BY <1>2

(* A function may be defined from each number to the next. *)
isDefinedBy(f, N, b, g) ==
    f = [n \in 0..N |-> IF n = 0 THEN b ELSE g[<<n, f[n - 1]>>]]

LEMMA DefinedByNext ==
    ASSUME NEW N \in Nat, NEW T, NEW b \in T, NEW g \in [(1..N) \X T -> T]
    PROVE  \E f \in [0..N -> T] : isDefinedBy(f, N, b, g)
  <1> DEFINE Bad == {k \in 0..N : ~\E f \in [0..k -> T] : isDefinedBy(f, k, b, g)}
  <1>1. SUFFICES ASSUME Bad # {}
                 PROVE  FALSE
    OBVIOUS
  <1>2. PICK k \in Bad : \A j \in Bad : k <= j
    <2> HIDE DEF Bad
    <2>1. Bad \in SUBSET Nat
      BY DEF Bad
    <2> QED
      BY <1>1, <2>1, LeastNumber
  <1>3. k # 0
    <2>1. isDefinedBy([n \in 0..0 |-> b], 0, b, g)
      BY DEF isDefinedBy
    <2> QED
      BY <2>1
  <1>4. k - 1 \in Nat /\ k - 1 \in 0..N /\ k - 1 \notin Bad
    BY <1>2, <1>3
  <1>5. PICK f \in [0 .. k - 1 -> T] : isDefinedBy(f, k - 1, b, g)
    BY <1>4
  <1> DEFINE h == [n \in 0..k |-> IF n = k THEN g[<<k, f[k - 1]>>] ELSE f[n]]
  <1>6. f[k - 1] \in T /\ k \in 1..N
    BY <1>3, <1>4
  <1>7. g[<<k, f[k - 1]>>] \in T
    BY <1>6
  <1>8. h \in [0..k -> T]
    BY <1>7
  <1>9. isDefinedBy(h, k, b, g)
    <2>1. ASSUME NEW n \in 0..k
          PROVE  h[n] = IF n = 0 THEN b ELSE g[<<n, h[n - 1]>>]
      <3>1. CASE n = k
        <4>1. k - 1 \in 0..k /\ k - 1 # k
          BY <1>4
        <4>2. h[k - 1] = f[k - 1]
          BY <4>1
        <4> QED
          BY <1>3, <3>1, <4>2
      <3>2. CASE n # k
        <4>1. n \in 0 .. k - 1
          BY <1>4, <3>2
        <4>2. f[n] = IF n = 0 THEN b ELSE g[<<n, f[n - 1]>>]
          BY <1>5, <4>1 DEF isDefinedBy
        <4>3. n # 0 => n - 1 \in 0..k /\ n - 1 # k
          BY <1>4, <4>1
        <4>4. n # 0 => h[n - 1] = f[n - 1]
          BY <4>3
        <4> QED
          BY <3>2, <4>2, <4>4
      <3> QED
        BY <3>1, <3>2
    <2> QED
      BY <2>1 DEF isDefinedBy
  <1> QED
    BY <1>2, <1>8, <1>9

(* l holds the elements of S among the first n of s, in their order. *)
picks(l, s, n, S) ==
    /\ l \in Seq(Range(s))
    /\ \A x \in 1..Len(l) : \E m \in 1..n : l[x] = s[m] /\ s[m] \in S
    /\ \A m \in 1..n : s[m] \in S => \E x \in 1..Len(l) : l[x] = s[m]
    /\ \A x, y \in 1..Len(l) : x < y =>
          \E m, p \in 1..n : m < p /\ l[x] = s[m] /\ l[y] = s[p]

\* Of no elements, none are picked.
LEMMA PicksNone ==
    ASSUME NEW s, NEW S
    PROVE  picks(<<>>, s, 0, S)
  BY DEF picks

\* The next element is appended when it is in S and passed over when not.
LEMMA PicksNext ==
    ASSUME NEW T, NEW s \in Seq(T), NEW S, NEW l, NEW n \in Nat, n < Len(s),
           picks(l, s, n, S)
    PROVE  picks(IF s[n + 1] \in S THEN Append(l, s[n + 1]) ELSE l, s, n + 1, S)
  <1> DEFINE e == s[n + 1]
             k == Len(l)
             r == Append(l, e)
  <1>1. Len(s) \in Nat /\ DOMAIN s = 1..Len(s) /\ n + 1 \in 1..Len(s) /\ e \in Range(s)
    BY DEF Range
  <1>2. /\ n + 1 \in 1 .. n + 1
        /\ \A m \in 1..n : m \in 1 .. n + 1 /\ m < n + 1
        /\ \A m \in 1 .. n + 1 : m \in 1..n \/ m = n + 1
    OBVIOUS
  <1>3. CASE e \notin S
    <2>1. \A x \in 1..Len(l) : \E m \in 1 .. n + 1 : l[x] = s[m] /\ s[m] \in S
      BY <1>2 DEF picks
    <2>2. \A m \in 1 .. n + 1 : s[m] \in S => \E x \in 1..Len(l) : l[x] = s[m]
      BY <1>2, <1>3 DEF picks
    <2>3. \A x, y \in 1..Len(l) : x < y =>
             \E m, p \in 1 .. n + 1 : m < p /\ l[x] = s[m] /\ l[y] = s[p]
      BY <1>2 DEF picks
    <2> QED
      BY <1>3, <2>1, <2>2, <2>3 DEF picks
  <1>4. CASE e \in S
    <2>1. /\ k \in Nat
          /\ r \in Seq(Range(s)) /\ Len(r) = k + 1
          /\ r[k + 1] = e /\ \A x \in 1..k : r[x] = l[x]
      BY <1>1 DEF picks
    <2>2. /\ \A x \in 1 .. k + 1 : x \in 1..k \/ x = k + 1
          /\ \A x \in 1..k : x \in 1 .. k + 1
          /\ \A x, y \in 1 .. k + 1 : x < y => x \in 1..k
          /\ k + 1 \in 1 .. k + 1
      BY <2>1
    <2>0. /\ \A x \in 1..k : \E m \in 1..n : l[x] = s[m] /\ s[m] \in S
          /\ \A x, y \in 1..k : x < y =>
                \E m, p \in 1..n : m < p /\ l[x] = s[m] /\ l[y] = s[p]
      BY DEF picks
    <2> HIDE DEF r, k, e
    <2>3. ASSUME NEW x \in 1 .. k + 1
          PROVE  \E m \in 1 .. n + 1 : r[x] = s[m] /\ s[m] \in S
      <3>1. CASE x \in 1..k
        <4>1. PICK m \in 1..n : l[x] = s[m] /\ s[m] \in S
          BY <2>0, <3>1
        <4> QED
          BY <1>2, <2>1, <3>1, <4>1
      <3>2. CASE x = k + 1
        BY <1>2, <1>4, <2>1, <3>2 DEF e
      <3> QED
        BY <2>2, <3>1, <3>2
    <2>4. ASSUME NEW m \in 1 .. n + 1, s[m] \in S
          PROVE  \E x \in 1 .. k + 1 : r[x] = s[m]
      <3>1. CASE m \in 1..n
        <4>1. PICK x \in 1..k : l[x] = s[m]
          BY <2>4, <3>1 DEF picks, k
        <4> QED
          BY <2>1, <2>2, <4>1
      <3>2. CASE m = n + 1
        BY <2>1, <2>2, <3>2 DEF e
      <3> QED
        BY <1>2, <3>1, <3>2
    <2>5. ASSUME NEW x \in 1 .. k + 1, NEW y \in 1 .. k + 1, x < y
          PROVE  \E m, p \in 1 .. n + 1 : m < p /\ r[x] = s[m] /\ r[y] = s[p]
      <3>1. x \in 1..k /\ r[x] = l[x]
        BY <2>1, <2>2, <2>5
      <3>2. CASE y \in 1..k
        <4>1. PICK m \in 1..n, p \in 1..n : m < p /\ l[x] = s[m] /\ l[y] = s[p]
          BY <2>0, <2>5, <3>1, <3>2
        <4> QED
          BY <1>2, <2>1, <3>1, <3>2, <4>1
      <3>3. CASE y = k + 1
        <4>1. PICK m \in 1..n : l[x] = s[m]
          BY <2>0, <3>1
        <4> QED
          BY <1>2, <2>1, <3>1, <3>3, <4>1 DEF e
      <3> QED
        BY <2>2, <3>2, <3>3
    <2>6. picks(r, s, n + 1, S)
      <3>1. Len(r) = k + 1 /\ r \in Seq(Range(s))
        BY <2>1
      <3> QED
        BY <2>3, <2>4, <2>5, <3>1 DEF picks
    <2> QED
      BY <1>4, <2>6 DEF r, e
  <1> QED
    BY <1>3, <1>4

(* The loop of copy_if, and of the lists of matches. *)
LEMMA KeepPicks ==
    ASSUME NEW T, NEW s \in Seq(T), NEW S
    PROVE  picks(keep(s, S), s, Len(s), S)
  <1> DEFINE N == Len(s)
             kept(f) == f = [n \in 0..N |->
                IF n = 0 THEN <<>> ELSE IF s[n] \in S THEN Append(f[n - 1], s[n]) ELSE f[n - 1]]
             f == CHOOSE f : kept(f)
  <1>1. N \in Nat
    OBVIOUS
  <1>2. \E h : kept(h)
    <2> DEFINE L == Seq(T)
               g == [p \in (1..N) \X L |-> IF s[p[1]] \in S THEN Append(p[2], s[p[1]]) ELSE p[2]]
    <2>1. g \in [(1..N) \X L -> L] /\ <<>> \in L
      OBVIOUS
    <2>2. PICK h \in [0..N -> L] : isDefinedBy(h, N, <<>>, g)
      <3> HIDE DEF g, L, N
      <3> QED
        BY <1>1, <2>1, DefinedByNext
    <2>3. \A n \in 0..N : n # 0 => n \in 1..N /\ n - 1 \in 0..N
      BY <1>1
    <2>4. \A n \in 0..N : n # 0 =>
             g[<<n, h[n - 1]>>] = IF s[n] \in S THEN Append(h[n - 1], s[n]) ELSE h[n - 1]
      <3> HIDE DEF L, N
      <3> QED
        BY <2>3
    <2>5. kept(h)
      <3> HIDE DEF g, L, N
      <3> QED
        BY <2>2, <2>4 DEF isDefinedBy
    <2> QED
      BY <2>5
  <1>3. kept(f)
    BY <1>2
  <1>4. keep(s, S) = f[N]
    BY DEF keep
  <1>5. /\ 0 \in 0..N => f[0] = <<>>
        /\ \A n \in 0..N : n # 0 =>
              f[n] = IF s[n] \in S THEN Append(f[n - 1], s[n]) ELSE f[n - 1]
    <2> HIDE DEF f
    <2> QED
      BY <1>1, <1>3
  <1> DEFINE Bad == {n \in 0..N : ~picks(f[n], s, n, S)}
  <1> HIDE DEF f
  <1>6. SUFFICES ASSUME Bad # {}
                 PROVE  FALSE
    BY <1>1, <1>4
  <1>7. PICK n \in Bad : \A j \in Bad : n <= j
    <2>1. Bad \in SUBSET Nat
      BY <1>1
    <2> HIDE DEF Bad
    <2> QED
      BY <1>6, <2>1, LeastNumber
  <1>8. n # 0
    <2>1. f[0] = <<>>
      BY <1>1, <1>5
    <2> QED
      BY <2>1, PicksNone
  <1>9. n - 1 \in 0..N /\ n - 1 \in Nat /\ n - 1 < Len(s) /\ (n - 1) + 1 = n
    BY <1>1, <1>8
  <1>10. picks(f[n - 1], s, n - 1, S)
    BY <1>7, <1>9
  <1>11. f[n] = IF s[n] \in S THEN Append(f[n - 1], s[n]) ELSE f[n - 1]
    BY <1>5, <1>8
  <1>12. picks(f[n], s, n, S)
    <2>1. picks(IF s[(n - 1) + 1] \in S THEN Append(f[n - 1], s[(n - 1) + 1]) ELSE f[n - 1],
                s, (n - 1) + 1, S)
      BY <1>9, <1>10, PicksNext
    <2> QED
      BY <1>9, <1>11, <2>1
  <1> QED
    BY <1>12

-----------------------------------------------------------------------------
(* Lists of positions, in order. *)

rising(l) == \A x, y \in 1..Len(l) : x < y => l[x] < l[y]
falling(l) == \A x, y \in 1..Len(l) : x < y => l[x] > l[y]

(* l holds the elements of S, each of them once if it rises or falls. *)
holdsSet(l, S) ==
    /\ l \in Seq(S)
    /\ \A e \in S : \E x \in 1..Len(l) : l[x] = e

LEMMA ListElements ==
    ASSUME NEW S, NEW l \in Seq(S)
    PROVE  /\ Len(l) \in Nat /\ DOMAIN l = 1..Len(l)
           /\ \A x \in 1..Len(l) : l[x] \in S
           /\ Range(l) = {l[x] : x \in 1..Len(l)}
  BY DEF Range

LEMMA ListIn ==
    ASSUME NEW S, NEW T, NEW l \in Seq(S), \A x \in 1..Len(l) : l[x] \in T
    PROVE  l \in Seq(T)
  <1>1. Len(l) \in Nat /\ l = [x \in 1..Len(l) |-> l[x]]
    OBVIOUS
  <1> QED
    BY <1>1, IsASeq

(* What is kept of a list that rises, or falls, does as well. *)
LEMMA KeepHolds ==
    ASSUME NEW s \in Seq(Int), NEW S
    PROVE  /\ holdsSet(keep(s, S), Range(s) \cap S)
           /\ rising(s) => rising(keep(s, S))
           /\ falling(s) => falling(keep(s, S))
  <1> DEFINE l == keep(s, S)
             N == Len(s)
  <1>1. picks(l, s, N, S) /\ N \in Nat
    BY KeepPicks
  <1>2. \A x \in 1..N : s[x] \in Int /\ s[x] \in Range(s)
    BY DEF Range
  <1>3. \A e \in Range(s) : \E x \in 1..N : e = s[x]
    BY DEF Range
  <1> HIDE DEF l, N
  <1>4. /\ l \in Seq(Range(s)) /\ Len(l) \in Nat
        /\ \A x \in 1..Len(l) : \E m \in 1..N : l[x] = s[m] /\ s[m] \in S
        /\ \A m \in 1..N : s[m] \in S => \E x \in 1..Len(l) : l[x] = s[m]
        /\ \A x, y \in 1..Len(l) : x < y =>
              \E m, p \in 1..N : m < p /\ l[x] = s[m] /\ l[y] = s[p]
    BY <1>1 DEF picks
  <1>5. \A x \in 1..Len(l) : l[x] \in Range(s) \cap S
    BY <1>2, <1>4
  <1>6. l \in Seq(Range(s) \cap S)
    BY <1>4, <1>5
  <1>7. ASSUME NEW e \in Range(s) \cap S
        PROVE  \E x \in 1..Len(l) : l[x] = e
    <2>1. PICK m \in 1..N : e = s[m]
      BY <1>3
    <2> QED
      BY <1>4, <2>1
  <1>8. rising(s) => rising(l)
    BY <1>4 DEF rising, N
  <1>9. falling(s) => falling(l)
    BY <1>4 DEF falling, N
  <1> QED
    BY <1>6, <1>7, <1>8, <1>9 DEF holdsSet, l

(* matchForward and matchReverse. *)
ends(k, str, i, j) == {e \in i..j : inLang(k, str, i, e)}
starts(k, str, i, j) == {s \in i..j : inLang(k, str, s, j)}

\* The positions list i..j rising and, reversed, falling.
LEMMA PositionsRise ==
    ASSUME NEW i \in Int, NEW j \in Int, i <= j + 1
    PROVE  /\ positions(i, j) \in Seq(Int) /\ Range(positions(i, j)) = i..j
           /\ rising(positions(i, j))
           /\ Reverse(positions(i, j)) \in Seq(Int) /\ Range(Reverse(positions(i, j))) = i..j
           /\ falling(Reverse(positions(i, j)))
  <1> DEFINE p == positions(i, j)
             q == Reverse(positions(i, j))
             n == j - i + 1
  <1>1. n \in Nat
    OBVIOUS
  <1>2. p \in Seq(Int) /\ Len(p) = n /\ DOMAIN p = 1..n /\ \A x \in 1..n : p[x] = i + x - 1
    BY <1>1 DEF positions
  <1>3. /\ q \in Seq(Int) /\ Len(q) = n /\ DOMAIN q = 1..n
        /\ \A x \in 1..n : q[x] = j - x + 1
    <2> DEFINE r == [x \in 1..n |-> p[(n - x) + 1]]
    <2>1. q = r
      BY <1>2 DEF Reverse
    <2>2. \A x \in 1..n : (n - x) + 1 \in 1..n /\ i + ((n - x) + 1) - 1 = j - x + 1
      BY <1>1
    <2>3. \A x \in 1..n : p[(n - x) + 1] = j - x + 1 /\ j - x + 1 \in Int
      BY <1>2, <2>2
    <2> HIDE DEF p, q, n
    <2>4. r \in Seq(Int) /\ Len(r) = n /\ DOMAIN r = 1..n /\ \A x \in 1..n : r[x] = j - x + 1
      BY <1>1, <2>3
    <2> QED
      BY <2>1, <2>4
  <1>4. /\ \A x \in 1..n : i + x - 1 \in i..j /\ j - x + 1 \in i..j
        /\ \A e \in i..j : /\ e - i + 1 \in 1..n /\ i + (e - i + 1) - 1 = e
                           /\ j - e + 1 \in 1..n /\ j - (j - e + 1) + 1 = e
    OBVIOUS
  <1> HIDE DEF p, q
  <1>5. Range(p) = i..j /\ Range(q) = i..j
    <2> HIDE DEF n
    <2>1. Range(p) = {p[x] : x \in 1..n} /\ Range(q) = {q[x] : x \in 1..n}
      BY <1>2, <1>3 DEF Range
    <2> QED
      BY <1>2, <1>3, <1>4, <2>1
  <1>6. rising(p) /\ falling(q)
    BY <1>1, <1>2, <1>3 DEF rising, falling
  <1> QED
    BY <1>2, <1>3, <1>5, <1>6 DEF p, q

\* What NFAExecutor lists: the ends rising, the starts falling.
LEMMA MatchesAreListed ==
    ASSUME NEW k, NEW str, NEW i \in Int, NEW j \in Int, i <= j + 1
    PROVE  /\ holdsSet(matchForward(k, str, i, j), ends(k, str, i, j))
           /\ rising(matchForward(k, str, i, j))
           /\ holdsSet(matchReverse(k, str, i, j), starts(k, str, i, j))
           /\ falling(matchReverse(k, str, i, j))
  <1>1. /\ (i..j) \cap ends(k, str, i, j) = ends(k, str, i, j)
        /\ (i..j) \cap starts(k, str, i, j) = starts(k, str, i, j)
    BY DEF ends, starts
  <1>2. matchForward(k, str, i, j) = keep(positions(i, j), ends(k, str, i, j))
    BY DEF matchForward, ends
  <1>3. matchReverse(k, str, i, j) = keep(Reverse(positions(i, j)), starts(k, str, i, j))
    BY DEF matchReverse, starts
  <1>4. /\ positions(i, j) \in Seq(Int) /\ Range(positions(i, j)) = i..j
        /\ rising(positions(i, j))
        /\ Reverse(positions(i, j)) \in Seq(Int) /\ Range(Reverse(positions(i, j))) = i..j
        /\ falling(Reverse(positions(i, j)))
    BY PositionsRise
  <1>5. /\ holdsSet(keep(positions(i, j), ends(k, str, i, j)), (i..j) \cap ends(k, str, i, j))
        /\ rising(keep(positions(i, j), ends(k, str, i, j)))
    BY <1>4, KeepHolds
  <1>6. /\ holdsSet(keep(Reverse(positions(i, j)), starts(k, str, i, j)), (i..j) \cap starts(k, str, i, j))
        /\ falling(keep(Reverse(positions(i, j)), starts(k, str, i, j)))
    BY <1>4, KeepHolds
  <1> QED
    BY <1>1, <1>2, <1>3, <1>5, <1>6

-----------------------------------------------------------------------------
(* The merge of two lists that rise, and of any number of them. *)

places(A, B) == [i : 1 .. Len(A)+1, j : 1 .. Len(B)+1, shared : Seq(Int)]

(* After n rounds: what has been passed in one list is less than what is   *)
(* still to come in the other, and what both have passed is shared.        *)
merged(A, B, n, at) ==
    /\ at \in places(A, B)
    /\ at.i + at.j >= n + 2 \/ at.i > Len(A) \/ at.j > Len(B)
    /\ \A x \in 1..Len(A), y \in 1..Len(B) :
          /\ x < at.i /\ y >= at.j => A[x] < B[y]
          /\ x >= at.i /\ y < at.j => B[y] < A[x]
          /\ x < at.i /\ y < at.j /\ A[x] = B[y] =>
                \E z \in 1..Len(at.shared) : at.shared[z] = A[x]
    /\ \A z \in 1..Len(at.shared) :
          \E x \in 1..Len(A), y \in 1..Len(B) :
             x < at.i /\ y < at.j /\ at.shared[z] = A[x] /\ A[x] = B[y]
    /\ rising(at.shared)

\* In a rising list a later entry is never smaller.
LEMMA RisingThroughout ==
    ASSUME NEW s \in Seq(Int), rising(s)
    PROVE  \A x, y \in 1..Len(s) : x <= y => s[x] <= s[y] /\ (x < y => s[x] < s[y])
  <1> SUFFICES ASSUME NEW x \in 1..Len(s), NEW y \in 1..Len(s), x <= y
               PROVE  s[x] <= s[y] /\ (x < y => s[x] < s[y])
    OBVIOUS
  <1>1. s[x] \in Int /\ s[y] \in Int /\ x \in Int /\ y \in Int
    OBVIOUS
  <1>2. CASE x = y
    BY <1>1, <1>2
  <1>3. CASE x < y
    <2>1. s[x] < s[y]
      BY <1>3 DEF rising
    <2> QED
      BY <1>1, <2>1
  <1> QED
    BY <1>1, <1>2, <1>3

\* One round of the merge.
LEMMA MergeRound ==
    ASSUME NEW A \in Seq(Int), NEW B \in Seq(Int), rising(A), rising(B),
           NEW n \in Nat, NEW at, merged(A, B, n, at)
    PROVE  merged(A, B, n + 1, mergeRound(A, B, at))
  <1> DEFINE I == at.i
             J == at.j
             c == at.shared
             to == mergeRound(A, B, at)
  <1>1. /\ Len(A) \in Nat /\ \A x \in 1..Len(A) : A[x] \in Int
        /\ Len(B) \in Nat /\ \A y \in 1..Len(B) : B[y] \in Int
    OBVIOUS
  <1>0. /\ \A x, y \in 1..Len(A) : x <= y => A[x] <= A[y] /\ (x < y => A[x] < A[y])
        /\ \A x, y \in 1..Len(B) : x <= y => B[x] <= B[y] /\ (x < y => B[x] < B[y])
    BY RisingThroughout
  <1>2. /\ I \in 1 .. Len(A)+1 /\ J \in 1 .. Len(B)+1 /\ c \in Seq(Int) /\ Len(c) \in Nat
        /\ at = [i |-> I, j |-> J, shared |-> c]
    BY DEF merged, places
  <1>3. CASE I > Len(A) \/ J > Len(B)
    <2>1. to = at
      BY <1>3 DEF mergeRound
    <2> QED
      BY <1>3, <2>1 DEF merged
  <1>4. CASE ~(I > Len(A) \/ J > Len(B))
    <2>1. I \in 1..Len(A) /\ J \in 1..Len(B) /\ A[I] \in Int /\ B[J] \in Int
      BY <1>1, <1>2, <1>4
    <2>2. /\ I + J >= n + 2
          /\ \A x \in 1..Len(A), y \in 1..Len(B) :
                /\ x < I /\ y >= J => A[x] < B[y]
                /\ x >= I /\ y < J => B[y] < A[x]
                /\ x < I /\ y < J /\ A[x] = B[y] => \E z \in 1..Len(c) : c[z] = A[x]
          /\ \A z \in 1..Len(c) :
                \E x \in 1..Len(A), y \in 1..Len(B) :
                   x < I /\ y < J /\ c[z] = A[x] /\ A[x] = B[y]
          /\ rising(c)
      BY <1>4 DEF merged
    <2>3. CASE A[I] < B[J]
      <3>1. to = [i |-> I + 1, j |-> J, shared |-> c]
        <4>1. to = [at EXCEPT !.i = I + 1]
          BY <1>4, <2>3 DEF mergeRound
        <4> HIDE DEF I, J, c, to
        <4> QED
          BY <1>2, <4>1
      <3> HIDE DEF I, J, c, to
      <3>2. to \in places(A, B) /\ to.i = I + 1 /\ to.j = J /\ to.shared = c
        <4>1. I + 1 \in 1 .. Len(A)+1 /\ J \in 1 .. Len(B)+1
          BY <1>1, <2>1
        <4> QED
          BY <1>2, <2>1, <3>1, <4>1 DEF places
      <3>3. ASSUME NEW x \in 1..Len(A), NEW y \in 1..Len(B)
            PROVE  /\ x < I + 1 /\ y >= J => A[x] < B[y]
                   /\ x >= I + 1 /\ y < J => B[y] < A[x]
                   /\ x < I + 1 /\ y < J /\ A[x] = B[y] => \E z \in 1..Len(c) : c[z] = A[x]
        <4>1. A[x] \in Int /\ B[y] \in Int /\ (x < I + 1 => x < I \/ x = I) /\ (x >= I + 1 => x >= I)
          BY <1>1, <2>1
        <4>2. x < I + 1 /\ y >= J => A[x] < B[y]
          <5>1. y >= J => J <= y
            BY <2>1
          <5>2. y >= J => B[J] <= B[y]
            BY <1>0, <2>1, <5>1
          <5> QED
            BY <2>1, <2>2, <2>3, <4>1, <5>2
        <4>3. x >= I + 1 /\ y < J => B[y] < A[x]
          BY <2>2, <4>1
        <4>4. x < I + 1 /\ y < J /\ A[x] = B[y] => \E z \in 1..Len(c) : c[z] = A[x]
          <5>1. x = I /\ y < J => B[y] < A[x]
            BY <2>1, <2>2
          <5> QED
            BY <2>2, <4>1, <5>1
        <4> QED
          BY <4>2, <4>3, <4>4
      <3>4. ASSUME NEW z \in 1..Len(c)
            PROVE  \E x \in 1..Len(A), y \in 1..Len(B) :
                      x < I + 1 /\ y < J /\ c[z] = A[x] /\ A[x] = B[y]
        <4>1. PICK x \in 1..Len(A), y \in 1..Len(B) :
                 x < I /\ y < J /\ c[z] = A[x] /\ A[x] = B[y]
          BY <2>2
        <4>2. x < I + 1
          BY <2>1, <4>1
        <4> QED
          BY <4>1, <4>2
      <3>5. (I + 1) + J >= (n + 1) + 2
        BY <2>1, <2>2
      <3> QED
        BY <2>2, <3>2, <3>3, <3>4, <3>5 DEF merged, to
    <2>4. CASE B[J] < A[I]
      <3>1. to = [i |-> I, j |-> J + 1, shared |-> c]
        <4>1. to = [at EXCEPT !.j = J + 1]
          BY <1>4, <2>1, <2>4 DEF mergeRound
        <4> HIDE DEF I, J, c, to
        <4> QED
          BY <1>2, <4>1
      <3> HIDE DEF I, J, c, to
      <3>2. to \in places(A, B) /\ to.i = I /\ to.j = J + 1 /\ to.shared = c
        <4>1. I \in 1 .. Len(A)+1 /\ J + 1 \in 1 .. Len(B)+1
          BY <1>1, <2>1
        <4> QED
          BY <1>2, <2>1, <3>1, <4>1 DEF places
      <3>3. ASSUME NEW x \in 1..Len(A), NEW y \in 1..Len(B)
            PROVE  /\ x < I /\ y >= J + 1 => A[x] < B[y]
                   /\ x >= I /\ y < J + 1 => B[y] < A[x]
                   /\ x < I /\ y < J + 1 /\ A[x] = B[y] => \E z \in 1..Len(c) : c[z] = A[x]
        <4>1. A[x] \in Int /\ B[y] \in Int /\ (y < J + 1 => y < J \/ y = J) /\ (y >= J + 1 => y >= J)
          BY <1>1, <2>1
        <4>2. x >= I /\ y < J + 1 => B[y] < A[x]
          <5>1. x >= I => I <= x
            BY <2>1
          <5>2. x >= I => A[I] <= A[x]
            BY <1>0, <2>1, <5>1
          <5> QED
            BY <2>1, <2>2, <2>4, <4>1, <5>2
        <4>3. x < I /\ y >= J + 1 => A[x] < B[y]
          BY <2>2, <4>1
        <4>4. x < I /\ y < J + 1 /\ A[x] = B[y] => \E z \in 1..Len(c) : c[z] = A[x]
          <5>1. y = J /\ x < I => A[x] < B[y]
            BY <2>1, <2>2
          <5> QED
            BY <2>2, <4>1, <5>1
        <4> QED
          BY <4>2, <4>3, <4>4
      <3>4. ASSUME NEW z \in 1..Len(c)
            PROVE  \E x \in 1..Len(A), y \in 1..Len(B) :
                      x < I /\ y < J + 1 /\ c[z] = A[x] /\ A[x] = B[y]
        <4>1. PICK x \in 1..Len(A), y \in 1..Len(B) :
                 x < I /\ y < J /\ c[z] = A[x] /\ A[x] = B[y]
          BY <2>2
        <4>2. y < J + 1
          BY <2>1, <4>1
        <4> QED
          BY <4>1, <4>2
      <3>5. I + (J + 1) >= (n + 1) + 2
        BY <2>1, <2>2
      <3> QED
        BY <2>2, <3>2, <3>3, <3>4, <3>5 DEF merged, to
    <2>5. CASE A[I] = B[J]
      <3> DEFINE d == Append(c, A[I])
                 l == Len(c)
      <3>1. to = [i |-> I + 1, j |-> J + 1, shared |-> d]
        <4>1. ~(A[I] < B[J]) /\ ~(B[J] < A[I])
          BY <2>1, <2>5
        <4> QED
          BY <1>4, <4>1 DEF mergeRound
      <3>2. /\ d \in Seq(Int) /\ Len(d) = l + 1 /\ d[l + 1] = A[I]
            /\ \A z \in 1..l : d[z] = c[z]
        BY <1>2, <2>1
      <3>3. /\ l \in Nat /\ l + 1 \in 1 .. l + 1
            /\ \A z \in 1..l : z \in 1 .. l + 1
            /\ \A z \in 1 .. l + 1 : z \in 1..l \/ z = l + 1
        BY <1>2
      <3> HIDE DEF I, J, c, to, d
      <3>4. to \in places(A, B) /\ to.i = I + 1 /\ to.j = J + 1 /\ to.shared = d
        <4>1. I + 1 \in 1 .. Len(A)+1 /\ J + 1 \in 1 .. Len(B)+1
          BY <1>1, <2>1
        <4> QED
          BY <1>2, <2>1, <3>1, <3>2, <4>1 DEF places
      <3>5. ASSUME NEW x \in 1..Len(A), NEW y \in 1..Len(B)
            PROVE  /\ x < I + 1 /\ y >= J + 1 => A[x] < B[y]
                   /\ x >= I + 1 /\ y < J + 1 => B[y] < A[x]
                   /\ x < I + 1 /\ y < J + 1 /\ A[x] = B[y] =>
                         \E z \in 1..Len(d) : d[z] = A[x]
        <4>1. /\ A[x] \in Int /\ B[y] \in Int
              /\ x < I + 1 => x < I \/ x = I
              /\ y < J + 1 => y < J \/ y = J
              /\ x >= I + 1 => A[I] < A[x] /\ x >= I
              /\ y >= J + 1 => B[J] < B[y] /\ y >= J
          <5>1. /\ x < I + 1 => x < I \/ x = I
                /\ y < J + 1 => y < J \/ y = J
                /\ x >= I + 1 => I < x /\ x >= I
                /\ y >= J + 1 => J < y /\ y >= J
            BY <2>1
          <5> QED
            BY <1>0, <1>1, <2>1, <5>1
        <4>2. x < I /\ y = J => A[x] < B[y]
          BY <2>1, <2>2
        <4>3. x = I /\ y < J => B[y] < A[x]
          BY <2>1, <2>2
        <4>4. x < I + 1 /\ y >= J + 1 => A[x] < B[y]
          <5>1. x < I /\ y >= J + 1 => A[x] < B[y]
            BY <2>2, <4>1
          <5>2. x = I /\ y >= J + 1 => A[x] < B[y]
            BY <2>5, <4>1
          <5> QED
            BY <4>1, <5>1, <5>2
        <4>5. x >= I + 1 /\ y < J + 1 => B[y] < A[x]
          <5>1. x >= I + 1 /\ y < J => B[y] < A[x]
            BY <2>2, <4>1
          <5>2. x >= I + 1 /\ y = J => B[y] < A[x]
            BY <2>5, <4>1
          <5> QED
            BY <4>1, <5>1, <5>2
        <4>6. ASSUME x < I + 1, y < J + 1, A[x] = B[y]
              PROVE  \E z \in 1 .. l + 1 : d[z] = A[x]
          <5>1. (x < I /\ y < J) \/ (x = I /\ y = J)
            BY <4>1, <4>2, <4>3, <4>6
          <5>2. CASE x < I /\ y < J
            <6>1. PICK z \in 1..l : c[z] = A[x]
              BY <2>2, <4>6, <5>2
            <6> QED
              BY <3>2, <3>3, <6>1
          <5>3. CASE x = I
            BY <3>2, <3>3, <5>3
          <5> QED
            BY <5>1, <5>2, <5>3
        <4> QED
          BY <3>2, <4>4, <4>5, <4>6
      <3>6. ASSUME NEW z \in 1 .. l + 1
            PROVE  \E x \in 1..Len(A), y \in 1..Len(B) :
                      x < I + 1 /\ y < J + 1 /\ d[z] = A[x] /\ A[x] = B[y]
        <4>1. I < I + 1 /\ J < J + 1 /\ (\A x \in 1..Len(A) : x < I => x < I + 1)
              /\ (\A y \in 1..Len(B) : y < J => y < J + 1)
          BY <2>1
        <4>2. CASE z \in 1..l
          <5>1. PICK x \in 1..Len(A), y \in 1..Len(B) :
                   x < I /\ y < J /\ c[z] = A[x] /\ A[x] = B[y]
            BY <2>2, <4>2
          <5> QED
            BY <3>2, <4>1, <4>2, <5>1
        <4>3. CASE z = l + 1
          BY <2>1, <2>5, <3>2, <4>1, <4>3
        <4> QED
          BY <3>3, <4>2, <4>3
      <3>7. rising(d)
        <4>1. ASSUME NEW z \in 1 .. l + 1, NEW w \in 1 .. l + 1, z < w
              PROVE  d[z] < d[w]
          <5>1. z \in 1..l /\ d[z] = c[z]
            BY <3>2, <3>3, <4>1
          <5>2. CASE w \in 1..l
            BY <2>2, <3>2, <4>1, <5>1, <5>2 DEF rising
          <5>3. CASE w = l + 1
            <6>1. PICK x \in 1..Len(A) : x < I /\ c[z] = A[x]
              BY <2>2, <5>1
            <6> QED
              BY <1>0, <2>1, <3>2, <5>1, <5>3, <6>1
          <5> QED
            BY <3>3, <5>2, <5>3
        <4> QED
          BY <3>2, <4>1 DEF rising
      <3>8. (I + 1) + (J + 1) >= (n + 1) + 2
        BY <2>1, <2>2
      <3> QED
        <4> HIDE DEF l
        <4>1. Len(d) = l + 1
          BY <3>2
        <4>2. \A z \in 1..Len(d) : \E x \in 1..Len(A), y \in 1..Len(B) :
                 x < I + 1 /\ y < J + 1 /\ d[z] = A[x] /\ A[x] = B[y]
          BY <3>6, <4>1
        <4> QED
          BY <3>4, <3>5, <3>7, <3>8, <4>2 DEF merged, to
    <2> QED
      BY <2>1, <2>3, <2>4, <2>5
  <1> QED
    BY <1>3, <1>4

\* A round stays within both lists.
LEMMA MergeRoundPlaces ==
    ASSUME NEW A \in Seq(Int), NEW B \in Seq(Int), NEW at \in places(A, B)
    PROVE  mergeRound(A, B, at) \in places(A, B)
  <1>1. /\ Len(A) \in Nat /\ Len(B) \in Nat /\ \A x \in 1..Len(A) : A[x] \in Int
        /\ at.i \in 1 .. Len(A)+1 /\ at.j \in 1 .. Len(B)+1 /\ at.shared \in Seq(Int)
    BY DEF places
  <1>2. CASE at.i > Len(A) \/ at.j > Len(B)
    BY <1>2 DEF mergeRound
  <1>3. CASE ~(at.i > Len(A) \/ at.j > Len(B))
    <2>1. /\ at.i \in 1..Len(A) /\ at.i + 1 \in 1 .. Len(A)+1
          /\ at.j + 1 \in 1 .. Len(B)+1
      <3>1. \A m \in Nat : \A x \in 1 .. m+1 : ~(x > m) => x \in 1..m /\ x + 1 \in 1 .. m+1
        OBVIOUS
      <3> QED
        BY <1>1, <1>3, <3>1
    <2>2. Append(at.shared, A[at.i]) \in Seq(Int)
      BY <1>1, <2>1
    <2>3. /\ [at EXCEPT !.i = at.i + 1] \in places(A, B)
          /\ [at EXCEPT !.j = at.j + 1] \in places(A, B)
          /\ [i |-> at.i + 1, j |-> at.j + 1, shared |-> Append(at.shared, A[at.i])] \in places(A, B)
      BY <1>1, <2>1, <2>2 DEF places
    <2> QED
      BY <1>3, <2>3 DEF mergeRound
  <1> QED
    BY <1>2, <1>3

(* Of two lists that rise, set_intersection lists what they share. *)
LEMMA IntersectionHolds ==
    ASSUME NEW S \in SUBSET Int, NEW A, holdsSet(A, S), rising(A),
           NEW T \in SUBSET Int, NEW B, holdsSet(B, T), rising(B)
    PROVE  holdsSet(set_intersection(A, B), S \cap T) /\ rising(set_intersection(A, B))
  <1> DEFINE N == Len(A) + Len(B)
             L == places(A, B)
             first == [i |-> 1, j |-> 1, shared |-> <<>>]
             after(f) == f = [n \in 0..N |-> IF n = 0 THEN first ELSE mergeRound(A, B, f[n - 1])]
             f == CHOOSE f : after(f)
  <1>1. /\ A \in Seq(Int) /\ B \in Seq(Int) /\ Len(A) \in Nat /\ Len(B) \in Nat /\ N \in Nat
        /\ \A x \in 1..Len(A) : A[x] \in S /\ A[x] \in Int
        /\ \A y \in 1..Len(B) : B[y] \in T /\ B[y] \in Int
        /\ \A e \in S : \E x \in 1..Len(A) : A[x] = e
        /\ \A e \in T : \E y \in 1..Len(B) : B[y] = e
    <2>1. /\ A \in Seq(S) /\ \A e \in S : \E x \in 1..Len(A) : A[x] = e
          /\ B \in Seq(T) /\ \A e \in T : \E y \in 1..Len(B) : B[y] = e
      BY DEF holdsSet
    <2>2. A \in Seq(Int) /\ Len(A) \in Nat /\ \A x \in 1..Len(A) : A[x] \in S
      BY <2>1, ListElements, ListIn
    <2>3. B \in Seq(Int) /\ Len(B) \in Nat /\ \A y \in 1..Len(B) : B[y] \in T
      BY <2>1, ListElements, ListIn
    <2> QED
      BY <2>1, <2>2, <2>3
  <1>2. first \in L
    BY <1>1 DEF places
  <1>3. \E h : after(h)
    <2> DEFINE g == [p \in (1..N) \X L |-> mergeRound(A, B, p[2])]
    <2>1. g \in [(1..N) \X L -> L]
      BY <1>1, MergeRoundPlaces
    <2>2. PICK h \in [0..N -> L] : isDefinedBy(h, N, first, g)
      <3> HIDE DEF g, L, N, first
      <3> QED
        BY <1>1, <1>2, <2>1, DefinedByNext
    <2>3. \A n \in 0..N : n # 0 => n \in 1..N /\ n - 1 \in 0..N
      BY <1>1
    <2>4. \A n \in 0..N : n # 0 => g[<<n, h[n - 1]>>] = mergeRound(A, B, h[n - 1])
      <3> HIDE DEF L, N
      <3> QED
        BY <2>3
    <2>5. after(h)
      <3> HIDE DEF g, L, N, first
      <3> QED
        BY <2>2, <2>4 DEF isDefinedBy
    <2> QED
      BY <2>5
  <1>4. after(f)
    BY <1>3
  <1>5. set_intersection(A, B) = f[N].shared
    BY DEF set_intersection
  <1>6. /\ 0 \in 0..N /\ f[0] = first
        /\ \A n \in 0..N : n # 0 => f[n] = mergeRound(A, B, f[n - 1])
    <2>1. f = [n \in 0..N |-> IF n = 0 THEN first ELSE mergeRound(A, B, f[n - 1])]
      BY <1>4
    <2> HIDE DEF f, first, N
    <2>2. 0 \in 0..N
      BY <1>1
    <2> QED
      BY <2>1, <2>2
  <1> DEFINE Bad == {n \in 0..N : ~merged(A, B, n, f[n])}
  <1> HIDE DEF f, N, first
  <1>7. Bad = {}
    <2>1. SUFFICES ASSUME Bad # {}
                   PROVE  FALSE
      OBVIOUS
    <2>2. PICK n \in Bad : \A j \in Bad : n <= j
      <3>1. Bad \in SUBSET Nat
        BY <1>1
      <3> HIDE DEF Bad
      <3> QED
        BY <2>1, <3>1, LeastNumber
    <2>3. n # 0
      <3>1. first.i = 1 /\ first.j = 1 /\ first.shared = <<>> /\ first \in places(A, B)
        BY <1>2 DEF first
      <3>2. merged(A, B, 0, first)
        BY <1>1, <3>1 DEF merged, rising
      <3> QED
        BY <1>6, <3>2
    <2>4. n - 1 \in 0..N /\ n - 1 \in Nat /\ (n - 1) + 1 = n
      BY <1>1, <2>3
    <2>5. merged(A, B, n - 1, f[n - 1])
      BY <2>2, <2>4
    <2>6. merged(A, B, (n - 1) + 1, mergeRound(A, B, f[n - 1]))
      BY <1>1, <2>4, <2>5, MergeRound
    <2> QED
      BY <1>6, <2>2, <2>3, <2>4, <2>6
  <1> DEFINE at == f[N]
             c == at.shared
  <1>8. merged(A, B, N, at) /\ N \in 0..N
    BY <1>1, <1>7
  <1> HIDE DEF at
  <1>9. /\ c \in Seq(Int) /\ Len(c) \in Nat /\ rising(c)
        /\ at.i \in 1 .. Len(A)+1 /\ at.j \in 1 .. Len(B)+1
        /\ at.i > Len(A) \/ at.j > Len(B)
    BY <1>1, <1>8 DEF merged, places, N
  <1>10. \A z \in 1..Len(c) : c[z] \in S \cap T
    <2>1. ASSUME NEW z \in 1..Len(c)
          PROVE  c[z] \in S \cap T
      <3>1. PICK x \in 1..Len(A), y \in 1..Len(B) : c[z] = A[x] /\ A[x] = B[y]
        BY <1>8 DEF merged
      <3> QED
        BY <1>1, <3>1
    <2> QED
      BY <2>1
  <1>11. ASSUME NEW e \in S \cap T
         PROVE  \E z \in 1..Len(c) : c[z] = e
    <2>1. PICK x \in 1..Len(A) : A[x] = e
      BY <1>1
    <2>2. PICK y \in 1..Len(B) : B[y] = e
      BY <1>1
    <2>3. x < at.i /\ y < at.j
      <3>1. /\ x < at.i /\ y >= at.j => A[x] < B[y]
            /\ x >= at.i /\ y < at.j => B[y] < A[x]
        BY <1>8 DEF merged
      <3>2. ~(A[x] < B[y]) /\ ~(B[y] < A[x])
        BY <1>1, <2>1, <2>2
      <3>3. x < at.i \/ y < at.j
        <4>1. x \in Nat /\ y \in Nat /\ x <= Len(A) /\ y <= Len(B)
          BY <1>1
        <4>2. Len(A) \in Int /\ Len(B) \in Int /\ at.i \in Int /\ at.j \in Int
          <5>1. Len(A) \in Nat /\ Len(B) \in Nat
            BY <1>1
          <5>2. at.i \in 1 .. Len(A)+1 /\ at.j \in 1 .. Len(B)+1
            BY <1>9
          <5> QED
            BY <5>1, <5>2
        <4>3. CASE at.i > Len(A)
          BY <4>1, <4>2, <4>3
        <4>4. CASE at.j > Len(B)
          BY <4>1, <4>2, <4>4
        <4> QED
          BY <1>9, <4>3, <4>4
      <3> QED
        BY <1>9, <3>1, <3>2, <3>3
    <2> QED
      BY <1>8, <2>1, <2>2, <2>3 DEF merged
  <1> HIDE DEF c
  <1>12. c \in Seq(S \cap T)
    BY <1>9, <1>10
  <1> QED
    BY <1>5, <1>9, <1>11, <1>12 DEF holdsSet, at, c

(* Of any number of lists that rise, what all of them hold. *)
LEMMA SharedHolds ==
    ASSUME NEW N \in Nat, N # 0, NEW ms, Len(ms) = N, NEW S \in [1..N -> SUBSET Int],
           \A n \in 1..N : holdsSet(ms[n], S[n]) /\ rising(ms[n])
    PROVE  /\ holdsSet(computeSharedMatches(ms), {e \in S[1] : \A m \in 1..N : e \in S[m]})
           /\ rising(computeSharedMatches(ms))
  <1> DEFINE R == {l \in Seq(Int) : rising(l)}
             shared(f) == f = [n \in 1..N |->
                IF n = 1 THEN ms[1] ELSE set_intersection(f[n - 1], ms[n])]
             f == CHOOSE f : shared(f)
             common(n) == {e \in S[1] : \A m \in 1..n : e \in S[m]}
  <1>1. \A n \in 1..N : ms[n] \in R
    <2>1. \A n \in 1..N : ms[n] \in Seq(S[n]) /\ S[n] \in SUBSET Int
      BY DEF holdsSet
    <2>2. \A n \in 1..N : ms[n] \in Seq(Int)
      <3>1. ASSUME NEW n \in 1..N
            PROVE  ms[n] \in Seq(Int)
        BY <2>1, ListElements, ListIn
      <3> QED
        BY <3>1
    <2> QED
      BY <2>2
  <1>2. ASSUME NEW A \in R, NEW B \in R
        PROVE  set_intersection(A, B) \in R
    <2>1. /\ Range(A) \in SUBSET Int /\ holdsSet(A, Range(A))
          /\ Range(B) \in SUBSET Int /\ holdsSet(B, Range(B))
      <3>1. /\ Range(A) = {A[x] : x \in 1..Len(A)} /\ \A x \in 1..Len(A) : A[x] \in Int
            /\ Range(B) = {B[x] : x \in 1..Len(B)} /\ \A x \in 1..Len(B) : B[x] \in Int
        BY ListElements
      <3>2. A \in Seq(Range(A)) /\ B \in Seq(Range(B))
        BY <3>1, ListIn
      <3> QED
        BY <3>1, <3>2 DEF holdsSet
    <2>2. /\ holdsSet(set_intersection(A, B), Range(A) \cap Range(B))
          /\ rising(set_intersection(A, B))
      BY <2>1, IntersectionHolds
    <2>3. set_intersection(A, B) \in Seq(Range(A) \cap Range(B))
      BY <2>2 DEF holdsSet
    <2>4. set_intersection(A, B) \in Seq(Int)
      BY <2>1, <2>3, ListElements, ListIn
    <2> QED
      BY <2>2, <2>4
  <1>3. \E h : shared(h)
    <2> DEFINE M == N - 1
               g == [p \in (1..M) \X R |-> set_intersection(p[2], ms[p[1] + 1])]
    <2>1. /\ M \in Nat /\ 1 \in 1..N /\ \A n \in 1..M : n + 1 \in 1..N
          /\ \A n \in 1..N : n - 1 \in 0..M /\ (n # 1 => n - 1 # 0 /\ n - 1 \in 1..M /\ n - 1 \in 1..N
                                                    /\ (n - 1) + 1 = n /\ (n - 1) - 1 \in 0..M)
      OBVIOUS
    <2> HIDE DEF R, M
    <2>2. g \in [(1..M) \X R -> R]
      BY <1>1, <1>2, <2>1
    <2>3. PICK h \in [0..M -> R] : isDefinedBy(h, M, ms[1], g)
      <3> HIDE DEF g
      <3> QED
        BY <1>1, <2>1, <2>2, DefinedByNext
    <2> DEFINE k == [n \in 1..N |-> h[n - 1]]
    <2>4. ASSUME NEW n \in 1..N
          PROVE  k[n] = IF n = 1 THEN ms[1] ELSE set_intersection(k[n - 1], ms[n])
      <3>1. \A m \in 0..M : h[m] = IF m = 0 THEN ms[1] ELSE g[<<m, h[m - 1]>>]
        <4> HIDE DEF g
        <4> QED
          BY <2>3 DEF isDefinedBy
      <3>2. CASE n = 1
        <4>1. n - 1 \in 0..M /\ n - 1 = 0
          BY <2>1, <3>2
        <4>2. h[n - 1] = ms[1] /\ k[n] = h[n - 1]
          BY <3>1, <4>1
        <4> HIDE DEF k, g
        <4> QED
          BY <3>2, <4>2
      <3>3. CASE n # 1
        <4>1. h[n - 1] = g[<<n - 1, h[(n - 1) - 1]>>]
          BY <2>1, <3>1, <3>3
        <4>2. h[(n - 1) - 1] \in R
          BY <2>1, <3>3
        <4>3. g[<<n - 1, h[(n - 1) - 1]>>] = set_intersection(h[(n - 1) - 1], ms[n])
          BY <2>1, <3>3, <4>2
        <4>4. k[n - 1] = h[(n - 1) - 1]
          BY <2>1, <3>3
        <4> HIDE DEF g
        <4> QED
          BY <3>3, <4>1, <4>3, <4>4
      <3> QED
        BY <3>2, <3>3
    <2>5. shared(k)
      BY <2>4
    <2> QED
      BY <2>5
  <1>4. shared(f)
    BY <1>3
  <1>5. computeSharedMatches(ms) = f[N]
    <2>1. ms # <<>>
      OBVIOUS
    <2> QED
      BY <2>1 DEF computeSharedMatches
  <1>6. \A n \in 1..N : f[n] = IF n = 1 THEN ms[1] ELSE set_intersection(f[n - 1], ms[n])
    <2> HIDE DEF f
    <2> QED
      BY <1>4
  <1> DEFINE good(n) == holdsSet(f[n], common(n)) /\ rising(f[n])
             Bad == {n \in 1..N : ~good(n)}
  <1> HIDE DEF f
  <1>7. ASSUME Bad # {}
        PROVE  FALSE
    <2>1. PICK n \in Bad : \A j \in Bad : n <= j
      <3>1. Bad \in SUBSET Nat
        OBVIOUS
      <3> HIDE DEF Bad
      <3> QED
        BY <1>7, <3>1, LeastNumber
    <2>2. n \in 1..N /\ ~good(n)
      BY <2>1
    <2>3. CASE n = 1
      <3>1. common(1) = S[1] /\ f[1] = ms[1] /\ 1 \in 1..N
        BY <1>6
      <3> QED
        BY <2>2, <2>3, <3>1
    <2>4. CASE n # 1
      <3>1. n - 1 \in 1..N /\ n - 1 < n
        BY <2>2, <2>4
      <3>2. good(n - 1)
        <4> HIDE DEF good
        <4>1. n - 1 \notin Bad
          <5> HIDE DEF Bad
          <5> QED
            BY <2>1, <3>1, <2>2
        <4> QED
          BY <3>1, <4>1
      <3>3. common(n - 1) \in SUBSET Int /\ S[n] \in SUBSET Int
        BY <2>2
      <3>4. common(n - 1) \cap S[n] = common(n)
        <4>1. \A m : m \in 1..n <=> m \in 1 .. n-1 \/ m = n
          BY <2>2
        <4> QED
          BY <4>1
      <3>5. f[n] = set_intersection(f[n - 1], ms[n])
        BY <1>6, <2>2, <2>4
      <3>6. holdsSet(ms[n], S[n]) /\ rising(ms[n])
        BY <2>2
      <3>7. /\ holdsSet(set_intersection(f[n - 1], ms[n]), common(n - 1) \cap S[n])
            /\ rising(set_intersection(f[n - 1], ms[n]))
        <4> HIDE DEF common
        <4> QED
          BY <3>2, <3>3, <3>6, IntersectionHolds
      <3>8. good(n)
        <4> HIDE DEF common
        <4> QED
          BY <3>4, <3>5, <3>7
      <3> QED
        BY <2>2, <3>8
    <2> QED
      BY <2>3, <2>4
  <1>8. N \in 1..N
    OBVIOUS
  <1>9. good(N)
    BY <1>7, <1>8
  <1> QED
    BY <1>5, <1>9

-----------------------------------------------------------------------------
(* The checks and the components. *)

flagged(k) ==
    /\ {k.isNegative, k.isFrontCheck, k.isBackCheck} \subseteq BOOLEAN
    /\ ~(k.isFrontCheck /\ k.isBackCheck)

(* A check that binds holds of what is in its language. *)
LEMMA BindingHolds ==
    ASSUME NEW k, NEW str, flagged(k), binding(k), NEW i \in Int, NEW j \in Int, i <= j + 1
    PROVE  holds(k, str, i, j) <=> inLang(k, str, i, j)
  <1> DEFINE some == \E a \in i .. j+1 : \E b \in a-1 .. j :
                        /\ word(str, a, b) \in k.lang
                        /\ a = i \/ k.isBackCheck
                        /\ b = j \/ k.isFrontCheck
  <1>1. i \in i .. j+1 /\ j \in i-1 .. j
    OBVIOUS
  <1>2. ~k.isNegative /\ ~k.isFrontCheck /\ ~k.isBackCheck
    BY DEF binding
  <1>3. some <=> word(str, i, j) \in k.lang
    BY <1>1, <1>2, Zenon
  <1>4. k.isNegative = FALSE
    BY <1>2 DEF flagged
  <1>5. holds(k, str, i, j) <=> (FALSE # some)
    BY <1>4, Zenon DEF holds
  <1> QED
    BY <1>3, <1>5, Zenon DEF inLang

\* A check answers what its language and flags say.
LEMMA ValidateHolds ==
    ASSUME NEW k, NEW str, flagged(k), NEW i \in Int, NEW j \in Int, i <= j + 1
    PROVE  validateSingleOp(k, str, i, j) <=> holds(k, str, i, j)
  <1> DEFINE some == \E a \in i .. j+1 : \E b \in a-1 .. j :
                        /\ word(str, a, b) \in k.lang
                        /\ a = i \/ k.isBackCheck
                        /\ b = j \/ k.isFrontCheck
             seen == IF k.isFrontCheck THEN matchTestForward(k, str, i, j)
                     ELSE IF k.isBackCheck THEN matchTestReverse(k, str, i, j)
                     ELSE inLang(k, str, i, j)
  <1>1. i \in i .. j+1 /\ j \in i-1 .. j /\ \A a \in i .. j+1 : j \in a-1 .. j
    OBVIOUS
  <1>2. k.isFrontCheck \in BOOLEAN /\ k.isBackCheck \in BOOLEAN
        /\ ~(k.isFrontCheck /\ k.isBackCheck)
    BY DEF flagged
  <1>3. seen \in BOOLEAN /\ some \in BOOLEAN
    <2>1. /\ matchTestForward(k, str, i, j) \in BOOLEAN /\ matchTestReverse(k, str, i, j) \in BOOLEAN
          /\ inLang(k, str, i, j) \in BOOLEAN
      BY SMT DEF matchTestForward, matchTestReverse, inLang
    <2>2. some \in BOOLEAN
      BY Zenon
    <2> QED
      BY <2>1, <2>2
  <1>4. seen <=> some
    <2>1. CASE k.isFrontCheck
      <3>1. seen <=> \E e \in i-1 .. j : word(str, i, e) \in k.lang
        BY <2>1, Zenon DEF matchTestForward, inLang
      <3>2. some <=> \E e \in i-1 .. j : word(str, i, e) \in k.lang
        BY <1>1, <1>2, <2>1, Zenon
      <3> QED
        BY <3>1, <3>2
    <2>2. CASE k.isBackCheck
      <3>1. seen <=> \E s \in i .. j+1 : word(str, s, j) \in k.lang
        BY <1>2, <2>2, Zenon DEF matchTestReverse, inLang
      <3>2. some <=> \E s \in i .. j+1 : word(str, s, j) \in k.lang
        BY <1>1, <1>2, <2>2, Zenon
      <3> QED
        BY <3>1, <3>2
    <2>3. CASE ~k.isFrontCheck /\ ~k.isBackCheck
      <3>1. seen <=> word(str, i, j) \in k.lang
        BY <2>3, Zenon DEF inLang
      <3>2. some <=> word(str, i, j) \in k.lang
        BY <1>1, <2>3, Zenon
      <3> QED
        BY <3>1, <3>2
    <2> QED
      BY <2>1, <2>2, <2>3
  <1>5. seen = some
    <2> HIDE DEF seen, some
    <2> QED
      BY <1>3, <1>4
  <1>6. (k.isNegative # seen) <=> (k.isNegative # some)
    <2> HIDE DEF seen, some
    <2> QED
      BY <1>5
  <1> QED
    BY <1>6, Zenon DEF validateSingleOp, holds

(* What parsedComponent says of the checks. *)
LEMMA ParsedChecks ==
    ASSUME NEW cc, parsedComponent(cc)
    PROVE  /\ cc.tag \in {"Single", "AllOf"} /\ cc.checks \in Seq(checksOf(cc))
           /\ checksOf(cc) = Range(cc.checks)
           /\ \A k \in checksOf(cc) : flagged(k)
           /\ cc # NoComponent
           /\ cc.tag = "Single" => checksOf(cc) = {cc.checks[1]} /\ flagged(cc.checks[1])
  <1>1. cc.tag \in {"Single", "AllOf"} /\ cc.checks \in Seq(checksOf(cc))
    BY DEF parsedComponent
  <1>2. \A k \in checksOf(cc) : flagged(k)
    BY DEF parsedComponent, flagged
  <1>3. checksOf(cc) = {cc.checks[i] : i \in DOMAIN cc.checks}
    BY DEF checksOf
  <1>4. checksOf(cc) = Range(cc.checks)
    BY <1>3 DEF Range
  <1>5. cc # NoComponent
    BY <1>1 DEF NoComponent
  <1>6. ASSUME cc.tag = "Single"
        PROVE  checksOf(cc) = {cc.checks[1]} /\ flagged(cc.checks[1])
    <2>1. Len(cc.checks) = 1
      BY <1>6 DEF parsedComponent
    <2>2. DOMAIN cc.checks = {1}
      BY <1>1, <2>1
    <2> QED
      BY <1>2, <1>3, <2>2
  <1> QED
    BY <1>1, <1>2, <1>4, <1>5, <1>6

\* The test of a component is acceptance of the interval.
LEMMA ComponentTestAccepts ==
    ASSUME NEW cc, NEW str, parsedComponent(cc), NEW i \in Int, NEW j \in Int, i <= j + 1
    PROVE  componentTest(cc, str, i, j) <=> Accepts(cc, str, i, j)
  <1>1. \A k \in checksOf(cc) : flagged(k)
    BY ParsedChecks
  <1>2. \A k \in checksOf(cc) : validateSingleOp(k, str, i, j) <=> holds(k, str, i, j)
    BY <1>1, ValidateHolds
  <1> QED
    BY <1>2, Zenon DEF componentTest, Accepts

(* The entries of a conjunction that bind. *)
LEMMA BindingOf ==
    ASSUME NEW cc, parsedComponent(cc)
    PROVE  /\ bindingOf(cc) \in Seq(checksOf(cc))
           /\ Range(bindingOf(cc)) = {k \in checksOf(cc) : binding(k)}
  <1> DEFINE s == cc.checks
             B == {k \in checksOf(cc) : binding(k)}
             l == keep(s, B)
  <1>1. s \in Seq(checksOf(cc)) /\ checksOf(cc) = Range(s) /\ Len(s) \in Nat
        /\ Range(s) = {s[x] : x \in 1..Len(s)}
    BY ParsedChecks, ListElements
  <1>2. picks(l, s, Len(s), B)
    BY <1>1, KeepPicks
  <1>3. bindingOf(cc) = l
    BY DEF bindingOf
  <1> HIDE DEF l
  <1>4. l \in Seq(Range(s))
    BY <1>2 DEF picks
  <1>5. Range(l) = {l[x] : x \in 1..Len(l)}
    BY <1>4, ListElements
  <1>6. ASSUME NEW k \in B
        PROVE  k \in Range(l)
    <2>1. PICK m \in 1..Len(s) : k = s[m]
      BY <1>1
    <2>2. PICK x \in 1..Len(l) : l[x] = s[m]
      BY <1>2, <2>1 DEF picks
    <2> QED
      BY <1>5, <2>1, <2>2
  <1>7. ASSUME NEW k \in Range(l)
        PROVE  k \in B
    <2>1. PICK x \in 1..Len(l) : k = l[x]
      BY <1>5
    <2>2. PICK m \in 1..Len(s) : l[x] = s[m] /\ s[m] \in B
      BY <1>2, <2>1 DEF picks
    <2> QED
      BY <2>1, <2>2
  <1> QED
    BY <1>1, <1>3, <1>4, <1>6, <1>7

-----------------------------------------------------------------------------
(* The searches of a component, as sets of positions and of spans. *)

LEMMA ListOf ==
    ASSUME NEW S, NEW l, holdsSet(l, S)
    PROVE  l \in Seq(S) /\ Range(l) = S /\ (l = <<>> <=> S = {})
  <1>1. l \in Seq(S) /\ \A e \in S : \E x \in 1..Len(l) : l[x] = e
    BY DEF holdsSet
  <1>2. /\ Len(l) \in Nat /\ Range(l) = {l[x] : x \in 1..Len(l)}
        /\ \A x \in 1..Len(l) : l[x] \in S
    BY <1>1, ListElements
  <1>3. Range(l) = S
    BY <1>1, <1>2
  <1>4. ASSUME l = <<>>
        PROVE  S = {}
    BY <1>1, <1>4
  <1>5. ASSUME S = {}
        PROVE  l = <<>>
    <2>1. 1 \notin 1..Len(l)
      BY <1>2, <1>5
    <2>2. Len(l) = 0
      BY <1>2, <2>1
    <2> QED
      BY <1>1, <2>2
  <1> QED
    BY <1>1, <1>3, <1>4, <1>5

fronts(cc, str, i, j) == {p \in i..j : Accepts(cc, str, i, p)}
backs(cc, str, i, j) == {p \in i..j : Accepts(cc, str, p, j)}

(* A component of one check that binds accepts what is in its language. *)
LEMMA SingleAccepts ==
    ASSUME NEW cc, NEW str, parsedComponent(cc), cc.tag = "Single", isMatchable(cc),
           NEW i \in Int, NEW j \in Int, i <= j + 1
    PROVE  Accepts(cc, str, i, j) <=> inLang(cc.checks[1], str, i, j)
  <1>1. checksOf(cc) = {cc.checks[1]} /\ flagged(cc.checks[1])
    BY ParsedChecks
  <1>2. binding(cc.checks[1])
    BY <1>1 DEF isMatchable
  <1>3. holds(cc.checks[1], str, i, j) <=> inLang(cc.checks[1], str, i, j)
    BY <1>1, <1>2, BindingHolds
  <1> QED
    BY <1>1, <1>3 DEF Accepts

\* A search from the front lists, rising, the ends of what is accepted.
LEMMA FrontLists ==
    ASSUME NEW cc, NEW str, parsedComponent(cc), isMatchable(cc), NEW i \in Int,
           NEW j \in Int, i <= j + 1
    PROVE  /\ holdsSet(componentMatchFront(cc, str, i, j), fronts(cc, str, i, j))
           /\ rising(componentMatchFront(cc, str, i, j))
  <1>1. CASE cc.tag = "Single"
    <2> DEFINE k == cc.checks[1]
    <2>1. \A p \in i..j : Accepts(cc, str, i, p) <=> inLang(k, str, i, p)
      BY <1>1, SingleAccepts
    <2>2. fronts(cc, str, i, j) = ends(k, str, i, j)
      BY <2>1 DEF fronts, ends
    <2>3. componentMatchFront(cc, str, i, j) = matchForward(k, str, i, j)
      BY <1>1 DEF componentMatchFront
    <2> QED
      BY <2>2, <2>3, MatchesAreListed
  <1>2. CASE cc.tag = "AllOf"
    <2> DEFINE b == bindingOf(cc)
               N == Len(b)
               ms == [n \in DOMAIN b |-> matchForward(b[n], str, i, j)]
               S == [n \in 1..N |-> ends(b[n], str, i, j)]
               common == {e \in S[1] : \A m \in 1..N : e \in S[m]}
               all == computeSharedMatches(ms)
               T == {p \in Range(all) : \A k \in checksOf(cc) : binding(k) \/ validateSingleOp(k, str, i, p)}
    <2>1. /\ b \in Seq(checksOf(cc)) /\ Range(b) = {k \in checksOf(cc) : binding(k)}
          /\ N \in Nat /\ DOMAIN b = 1..N /\ Range(b) = {b[x] : x \in 1..N}
      BY BindingOf, ListElements
    <2>2. N # 0
      <3>1. \E k \in Range(b) : TRUE
        BY <2>1 DEF isMatchable
      <3> QED
        BY <2>1, <3>1
    <2>3. Len(ms) = N
      BY <2>1
    <2>4. S \in [1..N -> SUBSET Int]
      BY DEF ends
    <2>5. \A n \in 1..N : holdsSet(ms[n], S[n]) /\ rising(ms[n])
      BY <2>1, MatchesAreListed
    <2> HIDE DEF b, N, ms, S
    <2>6. holdsSet(all, common) /\ rising(all)
      BY <2>1, <2>2, <2>3, <2>4, <2>5, SharedHolds
    <2>7. common \in SUBSET Int
      BY <2>1, <2>2, <2>4
    <2>8. \A e : e \in common <=> e \in i..j /\ \A k \in checksOf(cc) : binding(k) => inLang(k, str, i, e)
      <3>1. 1 \in 1..N /\ \A n \in 1..N : S[n] = ends(b[n], str, i, j)
        BY <2>1, <2>2 DEF S
      <3>2. \A e : e \in common <=> \A m \in 1..N : e \in ends(b[m], str, i, j)
        BY <3>1
      <3>3. \A e : e \in common <=> \A k \in Range(b) : e \in ends(k, str, i, j)
        BY <2>1, <3>2
      <3>4. \E k \in Range(b) : TRUE
        BY <2>1, <3>1
      <3> QED
        BY <2>1, <3>3, <3>4 DEF ends
    <2> HIDE DEF all, common
    <2>9. all \in Seq(common) /\ Range(all) = common
      BY <2>6, ListOf
    <2>10. all \in Seq(Int)
      BY <2>7, <2>9, SeqMonotonic
    <2>11. Range(all) \cap T = fronts(cc, str, i, j)
      <3>1. ASSUME NEW e
            PROVE  e \in Range(all) \cap T <=> e \in fronts(cc, str, i, j)
        <4>1. e \in Range(all) \cap T <=>
                 /\ e \in i..j
                 /\ \A k \in checksOf(cc) : binding(k) => inLang(k, str, i, e)
                 /\ \A k \in checksOf(cc) : binding(k) \/ validateSingleOp(k, str, i, e)
          BY <2>8, <2>9
        <4>2. ASSUME e \in i..j
              PROVE  \A k \in checksOf(cc) :
                        /\ binding(k) => (holds(k, str, i, e) <=> inLang(k, str, i, e))
                        /\ validateSingleOp(k, str, i, e) <=> holds(k, str, i, e)
          <5>1. e \in Int /\ i <= e + 1 /\ \A k \in checksOf(cc) : flagged(k)
            BY <4>2, ParsedChecks
          <5> QED
            BY <5>1, BindingHolds, ValidateHolds
        <4>3. e \in Range(all) \cap T <=> e \in i..j /\ \A k \in checksOf(cc) : holds(k, str, i, e)
          <5> HIDE DEF T
          <5> QED
            BY <4>1, <4>2, Zenon
        <4> QED
          BY <4>3 DEF fronts, Accepts
      <3> QED
        BY <3>1
    <2>12. componentMatchFront(cc, str, i, j) = keep(all, T)
      BY <1>2 DEF componentMatchFront, validateMatchSetOptions, all, ms, b
    <2>13. holdsSet(keep(all, T), Range(all) \cap T) /\ rising(keep(all, T))
      <3> HIDE DEF T
      <3> QED
        BY <2>6, <2>10, KeepHolds
    <2> HIDE DEF T
    <2> QED
      BY <2>11, <2>12, <2>13
  <1> QED
    BY <1>1, <1>2, ParsedChecks

(* From the back the same of a component of one check. *)
LEMMA BackLists ==
    ASSUME NEW cc, NEW str, parsedComponent(cc), isMatchable(cc), cc.tag = "Single",
           NEW i \in Int, NEW j \in Int, i <= j + 1
    PROVE  /\ holdsSet(componentMatchBack(cc, str, i, j), backs(cc, str, i, j))
           /\ falling(componentMatchBack(cc, str, i, j))
  <1> DEFINE k == cc.checks[1]
  <1>1. \A p \in i..j : Accepts(cc, str, p, j) <=> inLang(k, str, p, j)
    BY SingleAccepts
  <1>2. backs(cc, str, i, j) = starts(k, str, i, j)
    BY <1>1 DEF backs, starts
  <1>3. componentMatchBack(cc, str, i, j) = matchReverse(k, str, i, j)
    BY DEF componentMatchBack
  <1> QED
    BY <1>2, <1>3, MatchesAreListed

\* Two lists joined hold what either holds.
LEMMA JoinedRange ==
    ASSUME NEW T, NEW l \in Seq(T), NEW r \in Seq(T)
    PROVE  Range(l \o r) = Range(l) \cup Range(r)
  <1> DEFINE A == Len(l)
             B == Len(r)
             c == l \o r
  <1>1. /\ A \in Nat /\ Range(l) = {l[x] : x \in 1..A}
        /\ B \in Nat /\ Range(r) = {r[x] : x \in 1..B}
    BY ListElements
  <1>2. c \in Seq(T) /\ Len(c) = A + B
    BY ConcatProperties
  <1>3. \A x \in 1 .. A+B : c[x] = IF x <= A THEN l[x] ELSE r[x - A]
    BY ConcatProperties
  <1>4. Range(c) = {c[x] : x \in 1 .. A+B}
    BY <1>2, ListElements
  <1> HIDE DEF A, B, c
  <1>5. ASSUME NEW e \in Range(c)
        PROVE  e \in Range(l) \cup Range(r)
    <2>1. PICK x \in 1 .. A+B : e = c[x]
      BY <1>4
    <2>2. CASE x <= A
      BY <1>1, <1>3, <2>1, <2>2
    <2>3. CASE ~(x <= A)
      <3>1. x - A \in 1..B
        BY <1>1, <2>3
      <3> QED
        BY <1>1, <1>3, <2>1, <2>3, <3>1
    <2> QED
      BY <2>2, <2>3
  <1>6. ASSUME NEW e \in Range(l)
        PROVE  e \in Range(c)
    <2>1. PICK x \in 1..A : e = l[x]
      BY <1>1
    <2>2. x \in 1 .. A+B /\ x <= A
      BY <1>1
    <2> QED
      BY <1>3, <1>4, <2>1, <2>2
  <1>7. ASSUME NEW e \in Range(r)
        PROVE  e \in Range(c)
    <2>1. PICK x \in 1..B : e = r[x]
      BY <1>1
    <2>2. x + A \in 1 .. A+B /\ ~(x + A <= A) /\ (x + A) - A = x
      BY <1>1
    <2> QED
      BY <1>3, <1>4, <2>1, <2>2
  <1> QED
    BY <1>5, <1>6, <1>7 DEF c

spansIn(i, j) == {s \in (i..j) \X (i..j) : s[1] <= s[2]}
contained(cc, str, i, j) == {s \in spansIn(i, j) : Accepts(cc, str, s[1], s[2])}

\* A search anywhere lists all the spans accepted.
LEMMA ContainsLists ==
    ASSUME NEW cc, NEW str, parsedComponent(cc), isMatchable(cc), cc.tag = "Single",
           NEW i \in Int, NEW j \in Int, i <= j + 1
    PROVE  /\ componentMatchContains(cc, str, i, j) \in Seq(Int \X Int)
           /\ Range(componentMatchContains(cc, str, i, j)) = contained(cc, str, i, j)
  <1> DEFINE k == cc.checks[1]
             N == j - i + 1
             L == Seq(Int \X Int)
             from(ii) == LET es == matchForward(k, str, ii, j)
                         IN  [n \in DOMAIN es |-> <<ii, es[n]>>]
             matches(f) == f = [n \in 0..N |-> IF n = 0 THEN <<>> ELSE f[n - 1] \o from(i + n - 1)]
             f == CHOOSE f : matches(f)
             upTo(n) == {s \in contained(cc, str, i, j) : s[1] < i + n}
  <1>1. N \in Nat /\ \A n \in 0..N : n # 0 => n \in 1..N /\ n - 1 \in 0..N /\ n - 1 < n
                                          /\ i + n - 1 \in i..j
    OBVIOUS
  <1>2. ASSUME NEW ii \in i..j
        PROVE  /\ from(ii) \in L
               /\ Range(from(ii)) = {s \in contained(cc, str, i, j) : s[1] = ii}
    <2> DEFINE es == matchForward(k, str, ii, j)
    <2>1. ii \in Int /\ ii <= j + 1
      OBVIOUS
    <2>2. holdsSet(es, ends(k, str, ii, j))
      BY <2>1, MatchesAreListed
    <2> HIDE DEF es
    <2>3. /\ es \in Seq(ends(k, str, ii, j)) /\ Range(es) = ends(k, str, ii, j)
      BY <2>2, ListOf
    <2>4. /\ Len(es) \in Nat /\ DOMAIN es = 1..Len(es) /\ Range(es) = {es[x] : x \in 1..Len(es)}
      BY <2>3, ListElements
    <2>5. \A x \in 1..Len(es) : es[x] \in Int
      BY <2>1, <2>3, <2>4 DEF ends
    <2> DEFINE l == [n \in 1..Len(es) |-> <<ii, es[n]>>]
    <2>6. from(ii) = l
      BY <2>4 DEF es
    <2>7. l \in L /\ Len(l) = Len(es) /\ \A x \in 1..Len(es) : l[x] = <<ii, es[x]>>
      BY <2>1, <2>4, <2>5
    <2> HIDE DEF l
    <2>8. Range(l) = {l[x] : x \in 1..Len(es)}
      BY <2>7, ListElements
    <2>9. Range(l) = {<<ii, e>> : e \in ends(k, str, ii, j)}
      <3>1. Range(l) = {<<ii, es[x]>> : x \in 1..Len(es)}
        BY <2>7, <2>8
      <3>2. ends(k, str, ii, j) = {es[x] : x \in 1..Len(es)}
        BY <2>3, <2>4
      <3> QED
        BY <3>1, <3>2
    <2>10. \A e \in ii..j : Accepts(cc, str, ii, e) <=> inLang(k, str, ii, e)
      BY SingleAccepts
    <2>11. {<<ii, e>> : e \in ends(k, str, ii, j)} = {s \in contained(cc, str, i, j) : s[1] = ii}
      <3>1. ASSUME NEW s \in contained(cc, str, i, j), s[1] = ii
            PROVE  s \in {<<ii, e>> : e \in ends(k, str, ii, j)}
        <4>1. s = <<ii, s[2]>> /\ s[2] \in ii..j /\ Accepts(cc, str, ii, s[2])
          BY <3>1 DEF contained, spansIn
        <4> QED
          BY <2>10, <4>1 DEF ends
      <3>2. ASSUME NEW e \in ends(k, str, ii, j)
            PROVE  <<ii, e>> \in contained(cc, str, i, j)
        <4>1. e \in ii..j /\ Accepts(cc, str, ii, e)
          BY <2>10 DEF ends
        <4>2. <<ii, e>> \in spansIn(i, j)
          BY <2>1, <4>1 DEF spansIn
        <4> QED
          BY <4>1, <4>2 DEF contained
      <3> QED
        BY <3>1, <3>2
    <2> QED
      BY <2>6, <2>7, <2>9, <2>11
  <1> HIDE DEF from
  <1>3. \E h : matches(h)
    <2> DEFINE g == [p \in (1..N) \X L |-> p[2] \o from(i + p[1] - 1)]
    <2>1. g \in [(1..N) \X L -> L]
      <3>1. ASSUME NEW n \in 1..N, NEW l \in L
            PROVE  l \o from(i + n - 1) \in L
        <4>1. from(i + n - 1) \in L
          BY <1>1, <1>2
        <4> QED
          BY <4>1, ConcatProperties
      <3> HIDE DEF L, N
      <3> QED
        BY <3>1
    <2>2. <<>> \in L
      OBVIOUS
    <2>3. PICK h \in [0..N -> L] : isDefinedBy(h, N, <<>>, g)
      <3> HIDE DEF g, L, N
      <3> QED
        BY <1>1, <2>1, <2>2, DefinedByNext
    <2>4. \A n \in 0..N : n # 0 => g[<<n, h[n - 1]>>] = h[n - 1] \o from(i + n - 1)
      <3> HIDE DEF L, N
      <3> QED
        BY <1>1
    <2>5. matches(h)
      <3> HIDE DEF g, L, N
      <3> QED
        BY <2>3, <2>4 DEF isDefinedBy
    <2> QED
      BY <2>5
  <1>4. matches(f)
    BY <1>3
  <1>5. componentMatchContains(cc, str, i, j) = f[N]
    BY DEF componentMatchContains, from
  <1>6. /\ f[0] = <<>>
        /\ \A n \in 0..N : n # 0 => f[n] = f[n - 1] \o from(i + n - 1)
    <2>1. f = [n \in 0..N |-> IF n = 0 THEN <<>> ELSE f[n - 1] \o from(i + n - 1)]
      BY <1>4
    <2> HIDE DEF f, N
    <2>2. 0 \in 0..N
      BY <1>1
    <2> QED
      BY <2>1, <2>2
  <1> DEFINE good(n) == f[n] \in L /\ Range(f[n]) = upTo(n)
             Bad == {n \in 0..N : ~good(n)}
  <1> HIDE DEF f
  <1>7. ASSUME Bad # {}
        PROVE  FALSE
    <2>1. PICK n \in Bad : \A m \in Bad : n <= m
      <3>1. Bad \in SUBSET Nat
        OBVIOUS
      <3> HIDE DEF Bad
      <3> QED
        BY <1>7, <3>1, LeastNumber
    <2>2. n \in 0..N /\ ~good(n)
      BY <2>1
    <2>3. CASE n = 0
      <3>1. upTo(0) = {}
        BY DEF contained, spansIn
      <3>2. Range(<<>>) = {} /\ <<>> \in L
        BY DEF Range
      <3> QED
        BY <1>6, <2>2, <2>3, <3>1, <3>2
    <2>4. CASE n # 0
      <3>1. n - 1 \in 0..N /\ n - 1 < n /\ i + n - 1 \in i..j
        BY <1>1, <2>2, <2>4
      <3>2. good(n - 1)
        <4> HIDE DEF good
        <4>1. n - 1 \notin Bad
          <5> HIDE DEF Bad
          <5> QED
            BY <2>1, <2>2, <3>1
        <4> QED
          BY <3>1, <4>1
      <3>3. /\ from(i + n - 1) \in L
            /\ Range(from(i + n - 1)) = {s \in contained(cc, str, i, j) : s[1] = i + n - 1}
        BY <1>2, <3>1
      <3>4. f[n] = f[n - 1] \o from(i + n - 1)
        BY <1>6, <2>2, <2>4
      <3>5. f[n] \in L /\ Range(f[n]) = Range(f[n - 1]) \cup Range(from(i + n - 1))
        <4>1. f[n - 1] \in L
          BY <3>2
        <4> HIDE DEF L
        <4> QED
          BY <3>3, <3>4, <4>1, ConcatProperties, JoinedRange DEF L
      <3>6. upTo(n) = upTo(n - 1) \cup {s \in contained(cc, str, i, j) : s[1] = i + n - 1}
        <4>1. \A s \in contained(cc, str, i, j) : s[1] \in Int
          BY DEF contained, spansIn
        <4>2. \A a \in Int : a < i + n <=> a < i + (n - 1) \/ a = i + n - 1
          BY <2>2
        <4> HIDE DEF L
        <4> QED
          BY <4>1, <4>2
      <3> QED
        BY <2>2, <3>2, <3>3, <3>5, <3>6
    <2> QED
      BY <2>3, <2>4
  <1>8. good(N)
    <2> HIDE DEF good
    <2> QED
      BY <1>1, <1>7
  <1>9. upTo(N) = contained(cc, str, i, j)
    BY DEF contained, spansIn
  <1> QED
    BY <1>5, <1>8, <1>9

-----------------------------------------------------------------------------
(* The anchors, and the tests that need no list. *)

\* testFront of an anchor after a span is Followed.
LEMMA AnchorFollows ==
    ASSUME NEW cc, NEW str, parsedComponent(cc), validAnchor(cc), NEW i \in Int,
           NEW j \in Int, i <= j + 1
    PROVE  componentTestFront(cc, str, i, j) <=> Followed(cc, str, i, j)
  <1>1. cc.tag \in {"Single", "AllOf"} /\ cc # NoComponent
    BY ParsedChecks
  <1>2. CASE cc.tag = "Single"
    <2>1. Followed(cc, str, i, j) <=>
             (cc.checks[1].isNegative # \E b \in i-1 .. j : inLang(cc.checks[1], str, i, b))
      BY <1>1, <1>2, Zenon DEF Followed
    <2>2. componentTestFront(cc, str, i, j) <=>
             (cc.checks[1].isNegative # \E b \in i-1 .. j : inLang(cc.checks[1], str, i, b))
      BY <1>2, Zenon DEF componentTestFront, matchTestForward
    <2> QED
      BY <2>1, <2>2
  <1>3. CASE cc.tag = "AllOf"
    <2>1. isMatchable(cc)
      BY <1>3 DEF validAnchor
    <2>2. componentMatchFront(cc, str, i, j) = <<>> <=> fronts(cc, str, i, j) = {}
      BY <2>1, FrontLists, ListOf
    <2>3. componentTestFront(cc, str, i, j) <=> componentMatchFront(cc, str, i, j) # <<>>
      BY <1>3 DEF componentTestFront
    <2>4. Followed(cc, str, i, j) <=> \E b \in i..j : Accepts(cc, str, i, b)
      BY <1>1, <1>3 DEF Followed
    <2> QED
      BY <2>2, <2>3, <2>4 DEF fronts
  <1> QED
    BY <1>1, <1>2, <1>3

\* testBack of an anchor before a span is Preceded.
LEMMA AnchorPrecedes ==
    ASSUME NEW cc, NEW str, parsedComponent(cc), cc.tag = "Single", NEW i \in Int, NEW j \in Int
    PROVE  componentTestBack(cc, str, i, j) <=> Preceded(cc, str, i, j)
  <1>1. cc # NoComponent
    BY ParsedChecks
  <1>2. Preceded(cc, str, i, j) <=>
           (cc.checks[1].isNegative # \E a \in i .. j+1 : inLang(cc.checks[1], str, a, j))
    BY <1>1, Zenon DEF Preceded
  <1>3. componentTestBack(cc, str, i, j) <=>
           (cc.checks[1].isNegative # \E a \in i .. j+1 : inLang(cc.checks[1], str, a, j))
    BY Zenon DEF componentTestBack, matchTestReverse
  <1> QED
    BY <1>2, <1>3

(* A test of one check sees the empty word, a search does not: they agree  *)
(* where the check does not accept it.                                     *)
LEMMA EmptyWord ==
    ASSUME NEW k, NEW str, <<>> \notin k.lang, NEW i \in Int
    PROVE  ~inLang(k, str, i, i - 1)
  <1>1. word(str, i, i - 1) = <<>>
    BY SubSeqEmpty DEF word
  <1> QED
    BY <1>1 DEF inLang

\* A test at the front finds what the search would list.
LEMMA TestFrontFinds ==
    ASSUME NEW cc, NEW str, parsedComponent(cc), isMatchable(cc), NEW i \in Int,
           NEW j \in Int, i <= j + 1,
           cc.tag = "Single" => <<>> \notin cc.checks[1].lang
    PROVE  componentTestFront(cc, str, i, j) <=> fronts(cc, str, i, j) # {}
  <1>1. cc.tag \in {"Single", "AllOf"}
    BY ParsedChecks
  <1>2. CASE cc.tag = "Single"
    <2> DEFINE k == cc.checks[1]
               some == \E b \in i-1 .. j : inLang(k, str, i, b)
    <2>1. checksOf(cc) = {k} /\ flagged(k)
      BY <1>2, ParsedChecks
    <2>2. k.isNegative = FALSE
      BY <2>1 DEF isMatchable, binding, flagged
    <2>3. componentTestFront(cc, str, i, j) <=> some
      <3>1. componentTestFront(cc, str, i, j) <=> (FALSE # some)
        BY <1>2, <2>2, Zenon DEF componentTestFront, matchTestForward
      <3> QED
        BY <3>1, Zenon
    <2>4. \A b : b \in i-1 .. j <=> b = i - 1 \/ b \in i..j
      OBVIOUS
    <2>5. ~inLang(k, str, i, i - 1)
      BY <1>2, EmptyWord
    <2>6. some <=> \E b \in i..j : inLang(k, str, i, b)
      BY <2>4, <2>5
    <2>7. \A b \in i..j : inLang(k, str, i, b) <=> Accepts(cc, str, i, b)
      BY <1>2, SingleAccepts
    <2> QED
      BY <2>3, <2>6, <2>7 DEF fronts
  <1>3. CASE cc.tag = "AllOf"
    <2>1. componentMatchFront(cc, str, i, j) = <<>> <=> fronts(cc, str, i, j) = {}
      BY FrontLists, ListOf
    <2>2. componentTestFront(cc, str, i, j) <=> componentMatchFront(cc, str, i, j) # <<>>
      BY <1>3 DEF componentTestFront
    <2> QED
      BY <2>1, <2>2
  <1> QED
    BY <1>1, <1>2, <1>3

\* A test at the back finds what the search would list.
LEMMA TestBackFinds ==
    ASSUME NEW cc, NEW str, parsedComponent(cc), isMatchable(cc), NEW i \in Int,
           NEW j \in Int, i <= j + 1,
           cc.tag = "Single", <<>> \notin cc.checks[1].lang
    PROVE  componentTestBack(cc, str, i, j) <=> backs(cc, str, i, j) # {}
  <1> DEFINE k == cc.checks[1]
             some == \E a \in i .. j+1 : inLang(k, str, a, j)
  <1>1. checksOf(cc) = {k} /\ flagged(k)
    BY ParsedChecks
  <1>2. k.isNegative = FALSE
    BY <1>1 DEF isMatchable, binding, flagged
  <1>3. componentTestBack(cc, str, i, j) <=> some
    <2>1. componentTestBack(cc, str, i, j) <=> (FALSE # some)
      BY <1>2, Zenon DEF componentTestBack, matchTestReverse
    <2> QED
      BY <2>1, Zenon
  <1>4. \A a : a \in i .. j+1 <=> a = j + 1 \/ a \in i..j
    OBVIOUS
  <1>5. ~inLang(k, str, j + 1, (j + 1) - 1) /\ (j + 1) - 1 = j
    BY EmptyWord
  <1>6. some <=> \E a \in i..j : inLang(k, str, a, j)
    BY <1>4, <1>5
  <1>7. \A a \in i..j : inLang(k, str, a, j) <=> Accepts(cc, str, a, j)
    BY SingleAccepts
  <1> QED
    BY <1>3, <1>6, <1>7 DEF backs

\* A test anywhere finds what the search would list.
LEMMA TestContainsFinds ==
    ASSUME NEW cc, NEW str, parsedComponent(cc), isMatchable(cc), NEW i \in Int,
           NEW j \in Int, i <= j + 1,
           cc.tag = "Single", <<>> \notin cc.checks[1].lang
    PROVE  componentTestContains(cc, str, i, j) <=> contained(cc, str, i, j) # {}
  <1> DEFINE k == cc.checks[1]
  <1>1. componentTestContains(cc, str, i, j) <=>
           \E a \in i..j : \E b \in a-1 .. j : inLang(k, str, a, b)
    BY Zenon DEF componentTestContains, matchTestForward
  <1>2. ASSUME NEW a \in i..j
        PROVE  (\E b \in a-1 .. j : inLang(k, str, a, b)) <=> \E b \in a..j : Accepts(cc, str, a, b)
    <2>1. \A b : b \in a-1 .. j <=> b = a - 1 \/ b \in a..j
      OBVIOUS
    <2>2. ~inLang(k, str, a, a - 1)
      BY EmptyWord
    <2>3. \A b \in a..j : Accepts(cc, str, a, b) <=> inLang(k, str, a, b)
      BY SingleAccepts
    <2> QED
      BY <2>1, <2>2, <2>3
  <1>3. (\E a \in i..j : \E b \in a..j : Accepts(cc, str, a, b)) <=> contained(cc, str, i, j) # {}
    <2>1. ASSUME NEW a \in i..j, NEW b \in a..j, Accepts(cc, str, a, b)
          PROVE  <<a, b>> \in contained(cc, str, i, j)
      <3>1. <<a, b>> \in spansIn(i, j)
        BY DEF spansIn
      <3> QED
        BY <2>1, <3>1 DEF contained
    <2>2. ASSUME NEW s \in contained(cc, str, i, j)
          PROVE  s[1] \in i..j /\ s[2] \in s[1]..j /\ Accepts(cc, str, s[1], s[2])
      BY DEF contained, spansIn
    <2> QED
      BY <2>1, <2>2
  <1> QED
    BY <1>1, <1>2, <1>3

-----------------------------------------------------------------------------
(* The choice of one span, and the spans the anchors let through. *)

\* A set of numbers between two bounds has a least and a greatest.
LEMMA Extremes ==
    ASSUME NEW i \in Int, NEW j \in Int, NEW S \in SUBSET (i..j), S # {}
    PROVE  /\ \E m \in S : \A x \in S : m <= x
           /\ \E m \in S : \A x \in S : x <= m
  <1> DEFINE up == {x - i : x \in S}
             down == {j - x : x \in S}
  <1>1. up \in SUBSET Nat /\ up # {} /\ down \in SUBSET Nat /\ down # {}
    <2>1. \A x \in S : x - i \in Nat /\ j - x \in Nat
      OBVIOUS
    <2>2. \E x \in S : TRUE
      OBVIOUS
    <2> QED
      BY <2>1, <2>2
  <1>2. PICK a \in up : \A x \in up : a <= x
    <2> HIDE DEF up
    <2> QED
      BY <1>1, LeastNumber
  <1>3. PICK b \in down : \A x \in down : b <= x
    <2> HIDE DEF down
    <2> QED
      BY <1>1, LeastNumber
  <1>4. PICK m \in S : a = m - i
    OBVIOUS
  <1>5. PICK p \in S : b = j - p
    OBVIOUS
  <1>6. \A x \in S : m <= x
    <2>1. \A x \in S : m - i <= x - i
      BY <1>2, <1>4
    <2> QED
      BY <2>1
  <1>7. \A x \in S : x <= p
    <2>1. \A x \in S : j - p <= j - x
      BY <1>3, <1>5
    <2> QED
      BY <2>1
  <1> QED
    BY <1>6, <1>7

LEMMA SpansAreEqual ==
    ASSUME NEW i, NEW j, NEW s \in spansIn(i, j), NEW t \in spansIn(i, j), s[1] = t[1], s[2] = t[2]
    PROVE  s = t
  BY DEF spansIn

earlier(s, t) == s[1] < t[1] \/ (s[1] = t[1] /\ s[2] > t[2])
later(s, t) == s[2] > t[2] \/ (s[2] = t[2] /\ s[1] < t[1])

\* The two sorts of matchContainsFirst pick the earliest span.
LEMMA FirstIsEarliest ==
    ASSUME NEW i \in Int, NEW j \in Int, NEW l, Range(l) \in SUBSET spansIn(i, j), Range(l) # {}
    PROVE  /\ firstSpan(l) \in Range(l)
           /\ \A t \in Range(l) \ {firstSpan(l)} : earlier(firstSpan(l), t)
  <1> DEFINE R == Range(l)
             a == firstBy(R, byStart)
             W == {s \in R : s[1] = a[1]}
             b == lastBy(W, byEnd)
  <1>1. \A s \in R : s[1] \in i..j /\ s[2] \in i..j
    BY DEF spansIn
  <1>2. \A s, t \in R : s[1] = t[1] /\ s[2] = t[2] => s = t
    BY SpansAreEqual
  <1>3. a \in R /\ \A t \in R : ~(t[1] < a[1])
    <2> DEFINE S == {s[1] : s \in R}
    <2>1. S \in SUBSET (i..j) /\ S # {}
      BY <1>1
    <2>2. PICK m \in S : \A x \in S : m <= x
      <3> HIDE DEF S
      <3> QED
        BY <2>1, Extremes
    <2>3. PICK s \in R : s[1] = m
      OBVIOUS
    <2>4. \A t \in R : ~byStart(t, s)
      BY <1>1, <2>2, <2>3 DEF byStart
    <2>5. a = CHOOSE x \in R : \A t \in R : ~byStart(t, x)
      BY DEF firstBy
    <2>6. a \in R /\ \A t \in R : ~byStart(t, a)
      <3> HIDE DEF R, a
      <3> QED
        BY <2>4, <2>5
    <2> QED
      BY <2>6 DEF byStart
  <1> HIDE DEF a
  <1>4. b \in W /\ \A t \in W : ~(b[2] < t[2])
    <2> DEFINE S == {s[2] : s \in W}
    <2>1. S \in SUBSET (i..j) /\ S # {}
      BY <1>1, <1>3
    <2>2. PICK m \in S : \A x \in S : x <= m
      <3> HIDE DEF S
      <3> QED
        BY <2>1, Extremes
    <2>3. PICK s \in W : s[2] = m
      OBVIOUS
    <2>4. \A t \in W : ~byEnd(s, t)
      <3>1. \A t \in W : t[2] <= s[2] /\ t[2] \in Int /\ s[2] \in Int
        BY <1>1, <2>2, <2>3
      <3> HIDE DEF W
      <3> QED
        BY <3>1 DEF byEnd
    <2>5. b = CHOOSE x \in W : \A t \in W : ~byEnd(x, t)
      BY DEF lastBy
    <2>6. b \in W /\ \A t \in W : ~byEnd(b, t)
      <3> HIDE DEF W, b
      <3> QED
        BY <2>4, <2>5
    <2> QED
      BY <2>6 DEF byEnd
  <1>5. firstSpan(l) = b
    BY DEF firstSpan, a
  <1> HIDE DEF b
  <1>6. ASSUME NEW t \in R \ {b}
        PROVE  earlier(b, t)
    <2>1. b \in R /\ b[1] = a[1]
      BY <1>4
    <2>2. ~(t[1] < b[1])
      BY <1>3, <2>1
    <2>3. t[1] = b[1] => ~(b[2] < t[2]) /\ b[2] # t[2]
      BY <1>2, <1>4, <2>1
    <2> HIDE DEF R
    <2> QED
      BY <1>1, <2>1, <2>2, <2>3 DEF earlier
  <1> QED
    BY <1>4, <1>5, <1>6

\* The two sorts of matchContainsLast pick the latest span.
LEMMA LastIsLatest ==
    ASSUME NEW i \in Int, NEW j \in Int, NEW l, Range(l) \in SUBSET spansIn(i, j), Range(l) # {}
    PROVE  /\ lastSpan(l) \in Range(l)
           /\ \A t \in Range(l) \ {lastSpan(l)} : later(lastSpan(l), t)
  <1> DEFINE R == Range(l)
             a == lastBy(R, byEnd)
             W == {s \in R : s[2] = a[2]}
             b == firstBy(W, byStart)
  <1>1. \A s \in R : s[1] \in i..j /\ s[2] \in i..j
    BY DEF spansIn
  <1>2. \A s, t \in R : s[1] = t[1] /\ s[2] = t[2] => s = t
    BY SpansAreEqual
  <1>3. a \in R /\ \A t \in R : ~(a[2] < t[2])
    <2> DEFINE S == {s[2] : s \in R}
    <2>1. S \in SUBSET (i..j) /\ S # {}
      BY <1>1
    <2>2. PICK m \in S : \A x \in S : x <= m
      <3> HIDE DEF S
      <3> QED
        BY <2>1, Extremes
    <2>3. PICK s \in R : s[2] = m
      OBVIOUS
    <2>4. \A t \in R : ~byEnd(s, t)
      BY <1>1, <2>2, <2>3 DEF byEnd
    <2>5. a = CHOOSE x \in R : \A t \in R : ~byEnd(x, t)
      BY DEF lastBy
    <2>6. a \in R /\ \A t \in R : ~byEnd(a, t)
      <3> HIDE DEF R, a
      <3> QED
        BY <2>4, <2>5
    <2> QED
      BY <2>6 DEF byEnd
  <1> HIDE DEF a
  <1>4. b \in W /\ \A t \in W : ~(t[1] < b[1])
    <2> DEFINE S == {s[1] : s \in W}
    <2>1. S \in SUBSET (i..j) /\ S # {}
      BY <1>1, <1>3
    <2>2. PICK m \in S : \A x \in S : m <= x
      <3> HIDE DEF S
      <3> QED
        BY <2>1, Extremes
    <2>3. PICK s \in W : s[1] = m
      OBVIOUS
    <2>4. \A t \in W : ~byStart(t, s)
      <3>1. \A t \in W : s[1] <= t[1] /\ s[1] \in Int /\ t[1] \in Int
        BY <1>1, <2>2, <2>3
      <3> HIDE DEF W
      <3> QED
        BY <3>1 DEF byStart
    <2>5. b = CHOOSE x \in W : \A t \in W : ~byStart(t, x)
      BY DEF firstBy
    <2>6. b \in W /\ \A t \in W : ~byStart(t, b)
      <3> HIDE DEF W, b
      <3> QED
        BY <2>4, <2>5
    <2> QED
      BY <2>6 DEF byStart
  <1>5. lastSpan(l) = b
    BY DEF lastSpan, a
  <1> HIDE DEF b
  <1>6. ASSUME NEW t \in R \ {b}
        PROVE  later(b, t)
    <2>1. b \in R /\ b[2] = a[2]
      BY <1>4
    <2>2. ~(b[2] < t[2])
      BY <1>3, <2>1
    <2>3. t[2] = b[2] => ~(t[1] < b[1]) /\ b[1] # t[1]
      BY <1>2, <1>4, <2>1
    <2> HIDE DEF R
    <2> QED
      BY <1>1, <2>1, <2>2, <2>3 DEF later
  <1> QED
    BY <1>4, <1>5, <1>6

(* What is picked from a whole list, and the last of it. *)
LEMMA PickedRange ==
    ASSUME NEW T, NEW s \in Seq(T), NEW S, NEW l, picks(l, s, Len(s), S)
    PROVE  /\ l \in Seq(T) /\ Range(l) = Range(s) \cap S
           /\ l = <<>> <=> Range(s) \cap S = {}
  <1>1. /\ Len(s) \in Nat /\ Range(s) = {s[x] : x \in 1..Len(s)}
        /\ \A x \in 1..Len(s) : s[x] \in T
    BY ListElements
  <1>2. /\ l \in Seq(Range(s))
        /\ \A x \in 1..Len(l) : \E m \in 1..Len(s) : l[x] = s[m] /\ s[m] \in S
        /\ \A m \in 1..Len(s) : s[m] \in S => \E x \in 1..Len(l) : l[x] = s[m]
    BY DEF picks
  <1>3. l \in Seq(Range(s) \cap S)
    <2>1. \A x \in 1..Len(l) : l[x] \in Range(s) \cap S
      BY <1>1, <1>2
    <2> QED
      BY <1>2, <2>1, ListIn
  <1>4. ASSUME NEW e \in Range(s) \cap S
        PROVE  \E x \in 1..Len(l) : l[x] = e
    <2>1. PICK m \in 1..Len(s) : e = s[m]
      BY <1>1
    <2> QED
      BY <1>2, <2>1
  <1>5. holdsSet(l, Range(s) \cap S)
    BY <1>3, <1>4 DEF holdsSet
  <1>6. Range(s) \cap S \in SUBSET T
    BY <1>1
  <1> QED
    BY <1>3, <1>5, <1>6, ListOf, SeqMonotonic

\* The last element picked comes last in the list it is picked from.
LEMMA LastPicked ==
    ASSUME NEW s, NEW S, NEW l, NEW n, picks(l, s, n, S), l # <<>>
    PROVE  /\ Last(l) \in Range(l)
           /\ \A t \in Range(l) \ {Last(l)} :
                 \E m, p \in 1..n : m < p /\ t = s[m] /\ Last(l) = s[p]
  <1>1. /\ l \in Seq(Range(s))
        /\ \A x, y \in 1..Len(l) : x < y =>
              \E m, p \in 1..n : m < p /\ l[x] = s[m] /\ l[y] = s[p]
    BY DEF picks
  <1>2. /\ Len(l) \in Nat /\ Len(l) # 0 /\ Range(l) = {l[x] : x \in 1..Len(l)}
        /\ Last(l) = l[Len(l)]
    BY <1>1, ListElements DEF Last
  <1>3. ASSUME NEW t \in Range(l) \ {Last(l)}
        PROVE  \E m, p \in 1..n : m < p /\ t = s[m] /\ Last(l) = s[p]
    <2>1. PICK x \in 1..Len(l) : t = l[x]
      BY <1>2
    <2>2. Len(l) \in 1..Len(l) /\ x < Len(l)
      BY <1>2, <2>1
    <2> QED
      BY <1>1, <1>2, <2>1, <2>2
  <1> QED
    BY <1>2, <1>3

-----------------------------------------------------------------------------
(* The calls. *)

passes(span) == prechk(span) /\ postchk(span)

(* What the loops look for, and what they answer of it. *)
wanted == {s \in Range(found) : anchored => passes(s)}
chosen ==
    IF op = "matchContainsFirst" THEN firstSpan(mmr)
    ELSE IF op = "matchContainsLast" THEN lastSpan(mmr)
    ELSE Last(mmr)
direct ==
    IF op = "test" THEN componentTest(regex.re, sstr, spos, epos)
    ELSE IF op = "testContains" THEN componentTestContains(regex.re, sstr, spos, epos)
    ELSE IF op = "testFront" THEN componentTestFront(regex.re, sstr, spos, epos)
    ELSE componentTestBack(regex.re, sstr, spos, epos)

(* A conjunction is not searched from the back, see BackIsLongest. *)
listed == op \in BackOps => regex.re.tag = "Single"

CallOK ==
    /\ asked \in Asked /\ sstr \in Texts
    /\ spos \in Int /\ epos \in Int /\ spos <= epos + 1

(* The first n spans found have been looked at. *)
filtered(n) ==
    /\ opts = SubSeq(found, n + 1, Len(found))
    /\ IF op \in TestOps THEN \A m \in 1..n : ~passes(found[m])
       ELSE picks(mmr, found, n, wanted)

Loops ==
    /\ pc \in {"call", "filter", "select", "done"}
    /\ pc = "call" => mmr = <<>>
    /\ pc = "filter" => guard /\ anchored /\ \E n \in 0..Len(found) : filtered(n)
    /\ pc = "select" => guard /\ op \in MatchOps /\ picks(mmr, found, Len(found), wanted)
    /\ pc = "done" /\ answer # Invalid =>
          /\ guard
          /\ op \in TestOps /\ anchored => answer = Bool(wanted # {})
          /\ op \in TestOps /\ ~anchored => answer = Bool(direct)
          /\ op \in MatchOps => /\ picks(mmr, found, Len(found), wanted)
                                /\ answer = IF mmr = <<>> THEN None ELSE Match(chosen)

IInv == CallOK /\ (listed => Loops)

\* No step changes the call or what is asked of it.
LEMMA CallStays ==
    ASSUME UNCHANGED <<asked, sstr, spos, epos>>
    PROVE  /\ op' = op /\ regex' = regex /\ found' = found /\ wanted' = wanted
           /\ (guard' <=> guard) /\ (anchored' <=> anchored) /\ direct' = direct
           /\ (CallOK' <=> CallOK) /\ (listed' <=> listed)
           /\ \A s : passes(s)' <=> passes(s)
  <1>1. op' = op /\ regex' = regex
    BY DEF op, regex
  <1>2. found' = found
    BY <1>1 DEF found
  <1>3. (guard' <=> guard) /\ (anchored' <=> anchored) /\ (listed' <=> listed) /\ (CallOK' <=> CallOK)
    BY <1>1 DEF guard, anchored, listed, CallOK
  <1>4. direct' = direct
    BY <1>1 DEF direct
  <1>5. \A s : passes(s)' <=> passes(s)
    BY <1>1 DEF passes, prechk, postchk
  <1>6. wanted' = wanted
    BY <1>2, <1>3, <1>5 DEF wanted
  <1> QED
    BY <1>1, <1>2, <1>3, <1>4, <1>5, <1>6

\* A call is of what the parser lets through.
LEMMA CallParsed ==
    ASSUME CallOK
    PROVE  /\ op \in Ops /\ parsedComponent(regex.re)
           /\ \A cc \in {regex.pre, regex.post} \ {NoComponent} : parsedComponent(cc) /\ validAnchor(cc)
  BY AskedAssumption DEF CallOK, op, regex

LEMMA ContainsableIsMatchable ==
    ASSUME NEW cc, parsedComponent(cc), isContainsable(cc)
    PROVE  cc.tag = "Single" /\ isMatchable(cc)
  <1>1. cc.tag = "Single" /\ \A k \in checksOf(cc) : binding(k)
    BY DEF isContainsable
  <1>2. \E k \in checksOf(cc) : TRUE
    BY DEF parsedComponent
  <1> QED
    BY <1>1, <1>2 DEF isMatchable

LEMMA Guarding ==
    ASSUME CallOK, guard
    PROVE  /\ op \in FrontOps => regex.pre = NoComponent /\ isMatchable(regex.re)
           /\ op \in BackOps => regex.post = NoComponent /\ isMatchable(regex.re)
           /\ op \in ContainsOps => regex.re.tag = "Single" /\ isMatchable(regex.re)
           /\ op = "test" /\ anchored => regex.re.tag = "Single" /\ isMatchable(regex.re)
           /\ op \in FrontOps \/ op \in BackOps \/ op \in ContainsOps \/ op = "test"
  <1>1. op \in Ops /\ parsedComponent(regex.re)
    BY CallParsed
  <1>2. isContainsable(regex.re) => regex.re.tag = "Single" /\ isMatchable(regex.re)
    BY <1>1, ContainsableIsMatchable
  <1>3. op \in FrontOps => canStartsOperation(regex)
    BY DEF guard, FrontOps, ContainsOps
  <1>4. op \in BackOps => canEndOperation(regex)
    BY DEF guard, FrontOps, BackOps, ContainsOps
  <1>5. op \in ContainsOps => canUseInContains(regex)
    BY DEF guard, ContainsOps
  <1>6. op = "test" /\ anchored => isContainsable(regex.re)
    BY DEF guard, anchored, FrontOps, BackOps, canUseInTestOperation
  <1>7. op \in FrontOps \/ op \in BackOps \/ op \in ContainsOps \/ op = "test"
    BY <1>1 DEF Ops, TestOps, MatchOps, FrontOps, BackOps, ContainsOps
  <1> QED
    BY <1>2, <1>3, <1>4, <1>5, <1>6, <1>7
    DEF canStartsOperation, canEndOperation, canUseInContains

(* The spans of a list of ends, or of starts. *)
spansFrom(i, es) == [n \in DOMAIN es |-> <<i, es[n]>>]
spansTo(ss, j) == [n \in DOMAIN ss |-> <<ss[n], j>>]

\* The spans made of a list of ends.
LEMMA SpansOfEnds ==
    ASSUME NEW i \in Int, NEW j \in Int, NEW E \in SUBSET (i..j),
           NEW es, holdsSet(es, E), rising(es)
    PROVE  LET l == spansFrom(i, es)
           IN  /\ l \in Seq(spansIn(i, j))
               /\ Range(l) = {s \in spansIn(i, j) : s[1] = i /\ s[2] \in E}
               /\ \A x, y \in 1..Len(l) : x < y => l[x][2] < l[y][2]
  <1> DEFINE l == spansFrom(i, es)
  <1>1. es \in Seq(E) /\ Range(es) = E
    BY ListOf
  <1>2. /\ Len(es) \in Nat /\ DOMAIN es = 1..Len(es) /\ Range(es) = {es[x] : x \in 1..Len(es)}
        /\ \A x \in 1..Len(es) : es[x] \in E
    BY <1>1, ListElements
  <1>3. \A e \in E : <<i, e>> \in spansIn(i, j)
    BY DEF spansIn
  <1>4. l \in Seq(spansIn(i, j)) /\ Len(l) = Len(es) /\ \A x \in 1..Len(es) : l[x] = <<i, es[x]>>
    <2>1. l = [x \in 1..Len(es) |-> <<i, es[x]>>]
      BY <1>2 DEF spansFrom
    <2>2. \A x \in 1..Len(es) : <<i, es[x]>> \in spansIn(i, j)
      BY <1>2, <1>3
    <2> QED
      BY <1>2, <2>1, <2>2
  <1> HIDE DEF l
  <1>5. Range(l) = {<<i, es[x]>> : x \in 1..Len(es)}
    <2>1. Range(l) = {l[x] : x \in 1..Len(es)}
      BY <1>4, ListElements
    <2> QED
      BY <1>4, <2>1
  <1>6. {<<i, es[x]>> : x \in 1..Len(es)} = {<<i, e>> : e \in E}
    BY <1>1, <1>2
  <1>7. {<<i, e>> : e \in E} = {s \in spansIn(i, j) : s[1] = i /\ s[2] \in E}
    <2>1. \A s \in spansIn(i, j) : s = <<s[1], s[2]>>
      BY DEF spansIn
    <2> QED
      BY <1>3, <2>1
  <1>8. \A x, y \in 1..Len(l) : x < y => l[x][2] < l[y][2]
    BY <1>4 DEF rising
  <1> QED
    BY <1>4, <1>5, <1>6, <1>7, <1>8 DEF l

\* The spans made of a list of starts.
LEMMA SpansOfStarts ==
    ASSUME NEW i \in Int, NEW j \in Int, NEW S \in SUBSET (i..j),
           NEW ss, holdsSet(ss, S), falling(ss)
    PROVE  LET l == spansTo(ss, j)
           IN  /\ l \in Seq(spansIn(i, j))
               /\ Range(l) = {s \in spansIn(i, j) : s[2] = j /\ s[1] \in S}
               /\ \A x, y \in 1..Len(l) : x < y => l[x][1] > l[y][1]
  <1> DEFINE l == spansTo(ss, j)
  <1>1. ss \in Seq(S) /\ Range(ss) = S
    BY ListOf
  <1>2. /\ Len(ss) \in Nat /\ DOMAIN ss = 1..Len(ss) /\ Range(ss) = {ss[x] : x \in 1..Len(ss)}
        /\ \A x \in 1..Len(ss) : ss[x] \in S
    BY <1>1, ListElements
  <1>3. \A e \in S : <<e, j>> \in spansIn(i, j)
    BY DEF spansIn
  <1>4. l \in Seq(spansIn(i, j)) /\ Len(l) = Len(ss) /\ \A x \in 1..Len(ss) : l[x] = <<ss[x], j>>
    <2>1. l = [x \in 1..Len(ss) |-> <<ss[x], j>>]
      BY <1>2 DEF spansTo
    <2>2. \A x \in 1..Len(ss) : <<ss[x], j>> \in spansIn(i, j)
      BY <1>2, <1>3
    <2> QED
      BY <1>2, <2>1, <2>2
  <1> HIDE DEF l
  <1>5. Range(l) = {<<ss[x], j>> : x \in 1..Len(ss)}
    <2>1. Range(l) = {l[x] : x \in 1..Len(ss)}
      BY <1>4, ListElements
    <2> QED
      BY <1>4, <2>1
  <1>6. {<<ss[x], j>> : x \in 1..Len(ss)} = {<<e, j>> : e \in S}
    BY <1>1, <1>2
  <1>7. {<<e, j>> : e \in S} = {s \in spansIn(i, j) : s[2] = j /\ s[1] \in S}
    <2>1. \A s \in spansIn(i, j) : s = <<s[1], s[2]>>
      BY DEF spansIn
    <2> QED
      BY <1>3, <2>1
  <1>8. \A x, y \in 1..Len(l) : x < y => l[x][1] > l[y][1]
    BY <1>4 DEF falling
  <1> QED
    BY <1>4, <1>5, <1>6, <1>7, <1>8 DEF l

(* The spans of the middle component a call lists, and their order. *)
LEMMA FoundSpans ==
    ASSUME CallOK, listed, guard, op \in MatchOps \/ anchored
    PROVE  /\ found \in Seq(spansIn(spos, epos))
           /\ Range(found) = {s \in contained(regex.re, sstr, spos, epos) :
                                 /\ op \in FrontOps => s[1] = spos
                                 /\ op \in BackOps => s[2] = epos}
           /\ op \in FrontOps => \A x, y \in 1..Len(found) : x < y => found[x][2] < found[y][2]
           /\ op \in BackOps => \A x, y \in 1..Len(found) : x < y => found[x][1] > found[y][1]
  <1> DEFINE cc == regex.re
             C == contained(cc, sstr, spos, epos)
  <1>1. spos \in Int /\ epos \in Int /\ spos <= epos + 1 /\ parsedComponent(cc)
    BY CallParsed DEF CallOK
  <1>2. /\ op \in FrontOps => op \notin BackOps
        /\ op \in ContainsOps \/ op = "test" => op \notin FrontOps /\ op \notin BackOps
        /\ op = "test" => op \notin MatchOps
    BY DEF FrontOps, BackOps, ContainsOps, MatchOps
  <1>3. CASE op \in FrontOps
    <2> DEFINE es == componentMatchFront(cc, sstr, spos, epos)
               E == fronts(cc, sstr, spos, epos)
    <2>1. isMatchable(cc)
      BY <1>3, Guarding
    <2>2. holdsSet(es, E) /\ rising(es)
      BY <1>1, <2>1, FrontLists
    <2>3. E \in SUBSET (spos..epos)
      BY DEF fronts
    <2>4. found = spansFrom(spos, es)
      BY <1>3 DEF found, spansFrom
    <2>5. {s \in spansIn(spos, epos) : s[1] = spos /\ s[2] \in E} = {s \in C : s[1] = spos}
      <3>1. \A s \in spansIn(spos, epos) : s[2] \in spos..epos
        BY DEF spansIn
      <3> QED
        BY <3>1 DEF contained, fronts
    <2> HIDE DEF es, E, C
    <2>6. /\ found \in Seq(spansIn(spos, epos))
          /\ Range(found) = {s \in spansIn(spos, epos) : s[1] = spos /\ s[2] \in E}
          /\ \A x, y \in 1..Len(found) : x < y => found[x][2] < found[y][2]
      <3> DEFINE l == spansFrom(spos, es)
      <3>1. /\ l \in Seq(spansIn(spos, epos))
            /\ Range(l) = {s \in spansIn(spos, epos) : s[1] = spos /\ s[2] \in E}
            /\ \A x, y \in 1..Len(l) : x < y => l[x][2] < l[y][2]
        BY <1>1, <2>2, <2>3, SpansOfEnds
      <3> QED
        BY <2>4, <3>1
    <2> QED
      BY <1>2, <1>3, <2>5, <2>6 DEF C
  <1>4. CASE op \in BackOps
    <2> DEFINE ss == componentMatchBack(cc, sstr, spos, epos)
               S == backs(cc, sstr, spos, epos)
    <2>1. isMatchable(cc) /\ cc.tag = "Single"
      BY <1>4, Guarding DEF listed
    <2>2. holdsSet(ss, S) /\ falling(ss)
      BY <1>1, <2>1, BackLists
    <2>3. S \in SUBSET (spos..epos)
      BY DEF backs
    <2>4. found = spansTo(ss, epos)
      BY <1>2, <1>4 DEF found, spansTo
    <2>5. {s \in spansIn(spos, epos) : s[2] = epos /\ s[1] \in S} = {s \in C : s[2] = epos}
      <3>1. \A s \in spansIn(spos, epos) : s[1] \in spos..epos
        BY DEF spansIn
      <3> QED
        BY <3>1 DEF contained, backs
    <2> HIDE DEF ss, S, C
    <2>6. /\ found \in Seq(spansIn(spos, epos))
          /\ Range(found) = {s \in spansIn(spos, epos) : s[2] = epos /\ s[1] \in S}
          /\ \A x, y \in 1..Len(found) : x < y => found[x][1] > found[y][1]
      <3> DEFINE l == spansTo(ss, epos)
      <3>1. /\ l \in Seq(spansIn(spos, epos))
            /\ Range(l) = {s \in spansIn(spos, epos) : s[2] = epos /\ s[1] \in S}
            /\ \A x, y \in 1..Len(l) : x < y => l[x][1] > l[y][1]
        BY <1>1, <2>2, <2>3, SpansOfStarts
      <3> QED
        BY <2>4, <3>1
    <2> QED
      BY <1>2, <1>4, <2>5, <2>6 DEF C
  <1>5. CASE op \in ContainsOps \/ op = "test"
    <2>1. isMatchable(cc) /\ cc.tag = "Single"
      BY <1>2, <1>5, Guarding
    <2>2. found = componentMatchContains(cc, sstr, spos, epos)
      BY <1>2, <1>5 DEF found
    <2>3. found \in Seq(Int \X Int) /\ Range(found) = C
      BY <1>1, <2>1, <2>2, ContainsLists
    <2>4. \A x \in 1..Len(found) : found[x] \in spansIn(spos, epos)
      <3>1. C \in SUBSET spansIn(spos, epos)
        BY DEF contained
      <3>2. Range(found) = {found[x] : x \in 1..Len(found)}
        BY <2>3, ListElements
      <3> QED
        BY <2>3, <3>1, <3>2
    <2>5. found \in Seq(spansIn(spos, epos))
      BY <2>3, <2>4, ListIn
    <2> QED
      BY <1>2, <1>5, <2>3, <2>5
  <1> QED
    BY <1>3, <1>4, <1>5, Guarding

\* A list whose elements are all in S picks all of itself.
LEMMA PicksAll ==
    ASSUME NEW T, NEW s \in Seq(T), NEW S, Range(s) \in SUBSET S
    PROVE  picks(s, s, Len(s), S)
  <1>1. /\ Len(s) \in Nat /\ Range(s) = {s[x] : x \in 1..Len(s)}
    BY ListElements
  <1>2. s \in Seq(Range(s))
    BY <1>1, ListIn
  <1>3. \A x \in 1..Len(s) : s[x] \in S
    BY <1>1
  <1> QED
    BY <1>2, <1>3 DEF picks

\* The initial states.
LEMMA CallsStartRight ==
    ASSUME Init
    PROVE  IInv
  <1>1. CallOK
    <2>1. Len(sstr) \in Nat
      BY TextsAssumption, ListElements DEF Init
    <2> QED
      BY <2>1 DEF Init, CallOK
  <1>2. Loops
    BY DEF Init, Loops
  <1> QED
    BY <1>1, <1>2 DEF IInv

(* The head of what is left is the first span not looked at. *)
LEMMA HeadIsNext ==
    ASSUME NEW T, NEW s \in Seq(T), NEW n \in 0..Len(s), NEW rest, rest = SubSeq(s, n + 1, Len(s))
    PROVE  /\ rest = <<>> <=> n = Len(s)
           /\ rest # <<>> => /\ n < Len(s) /\ n + 1 \in 1..Len(s) /\ Head(rest) = s[n + 1]
                             /\ Tail(rest) = SubSeq(s, (n + 1) + 1, Len(s))
  <1>1. Len(s) \in Nat /\ n + 1 \in Int /\ Len(s) \in Int
    BY ListElements
  <1>2. ASSUME n = Len(s)
        PROVE  rest = <<>>
    BY <1>1, <1>2, SubSeqEmpty
  <1>3. ASSUME n # Len(s)
        PROVE  /\ rest # <<>> /\ n < Len(s) /\ n + 1 \in 1..Len(s) /\ Head(rest) = s[n + 1]
               /\ Tail(rest) = SubSeq(s, (n + 1) + 1, Len(s))
    <2>1. n < Len(s) /\ n + 1 \in 1..Len(s) /\ Len(s) \in n + 1 .. Len(s)
      BY <1>1, <1>3
    <2>2. /\ Head(rest) = s[n + 1] /\ Tail(rest) = SubSeq(s, (n + 1) + 1, Len(s))
      BY <2>1, HeadTailOfSubSeq
    <2>3. Len(rest) = Len(s) - n
      <3>1. \A x \in n + 1 .. Len(s) : s[x] \in T
        BY <1>1, ListElements
      <3> QED
        BY <1>1, <2>1, <3>1, SubSeqProperties
    <2>4. rest # <<>>
      BY <1>1, <2>1, <2>3
    <2> QED
      BY <2>1, <2>2, <2>4
  <1> QED
    BY <1>2, <1>3

(* A round of the loop over the spans found, and its end. *)
LEMMA RoundKeepsLoops ==
    ASSUME IInv, listed, pc = "filter", checkAnchors
    PROVE  Loops'
  <1>1. /\ op' = op /\ found' = found /\ wanted' = wanted /\ (guard' <=> guard)
        /\ (anchored' <=> anchored)
    BY CallStays DEF checkAnchors
  <1>2. guard /\ anchored /\ CallOK /\ op \in Ops
    BY CallParsed DEF IInv, Loops
  <1>3. PICK n \in 0..Len(found) : filtered(n)
    BY DEF IInv, Loops
  <1>4. found \in Seq(spansIn(spos, epos))
    BY <1>2, FoundSpans
  <1>5. Len(found) \in Nat /\ Range(found) = {found[x] : x \in 1..Len(found)}
    BY <1>4, ListElements
  <1>6. opts = SubSeq(found, n + 1, Len(found))
    BY <1>3 DEF filtered
  <1>7. /\ n < Len(found) /\ n + 1 \in 1..Len(found) /\ Head(opts) = found[n + 1]
        /\ Tail(opts) = SubSeq(found, (n + 1) + 1, Len(found))
    BY <1>4, <1>6, HeadIsNext DEF checkAnchors
  <1> DEFINE s == found[n + 1]
  <1>8. s \in Range(found) /\ (s \in wanted <=> passes(s))
    BY <1>2, <1>5, <1>7 DEF wanted
  <1>9. n + 1 \in 0..Len(found) /\ opts' = SubSeq(found, (n + 1) + 1, Len(found))
    BY <1>5, <1>7 DEF checkAnchors
  <1>10. CASE op \in TestOps
    <2>1. CASE passes(s)
      <3>1. pc' = "done" /\ answer' = Bool(TRUE)
        BY <1>7, <1>10, <2>1 DEF checkAnchors, Answer, passes
      <3>2. (wanted # {}) = TRUE
        BY <1>8, <2>1
      <3>3. op \notin MatchOps
        BY <1>10 DEF TestOps, MatchOps
      <3> QED
        BY <1>1, <1>2, <3>1, <3>2, <3>3 DEF Loops
    <2>2. CASE ~passes(s)
      <3>1. pc' = pc /\ answer' = answer /\ mmr' = mmr
        BY <1>7, <1>10, <2>2 DEF checkAnchors, passes
      <3>2. \A m \in 1 .. n+1 : ~passes(found[m])
        <4>1. \A m \in 1 .. n+1 : m \in 1..n \/ m = n + 1
          OBVIOUS
        <4> QED
          BY <1>3, <1>10, <2>2, <4>1 DEF filtered
      <3>3. \A m : passes(m)' <=> passes(m)
        BY CallStays DEF checkAnchors
      <3>4. filtered(n + 1)'
        BY <1>1, <1>9, <1>10, <3>2, <3>3 DEF filtered
      <3> QED
        BY <1>1, <1>2, <1>9, <3>1, <3>4 DEF Loops
    <2> QED
      BY <2>1, <2>2
  <1>11. CASE op \notin TestOps
    <2>1. pc' = pc /\ answer' = answer
      BY <1>11 DEF checkAnchors
    <2>2. mmr' = IF s \in wanted THEN Append(mmr, s) ELSE mmr
      BY <1>7, <1>8, <1>11 DEF checkAnchors, passes
    <2>3. picks(mmr, found, n, wanted)
      BY <1>3, <1>11 DEF filtered
    <2>4. picks(mmr', found, n + 1, wanted)
      <3>1. n \in Nat
        BY <1>5
      <3> QED
        BY <1>4, <1>7, <2>2, <2>3, <3>1, PicksNext
    <2>5. filtered(n + 1)'
      BY <1>1, <1>9, <1>11, <2>4 DEF filtered
    <2> QED
      BY <1>1, <1>2, <1>9, <2>1, <2>5 DEF Loops
  <1> QED
    BY <1>10, <1>11

\* The end of the loop over the spans.
LEMMA EndKeepsLoops ==
    ASSUME IInv, listed, filterDone
    PROVE  Loops'
  <1>1. /\ op' = op /\ found' = found /\ wanted' = wanted /\ (guard' <=> guard)
        /\ (anchored' <=> anchored)
    BY CallStays DEF filterDone
  <1>2. guard /\ anchored /\ CallOK /\ op \in Ops
    BY CallParsed DEF IInv, Loops, filterDone
  <1>3. PICK n \in 0..Len(found) : filtered(n)
    BY DEF IInv, Loops, filterDone
  <1>4. found \in Seq(spansIn(spos, epos))
    BY <1>2, FoundSpans
  <1>5. n = Len(found)
    <2>1. opts = SubSeq(found, n + 1, Len(found)) /\ opts = <<>>
      BY <1>3 DEF filtered, filterDone
    <2> QED
      BY <1>4, <2>1, HeadIsNext
  <1>6. CASE op \in TestOps
    <2>1. pc' = "done" /\ answer' = Bool(FALSE)
      BY <1>6 DEF filterDone, Answer
    <2>2. (wanted # {}) = FALSE
      <3>1. Range(found) = {found[x] : x \in 1..Len(found)}
        BY <1>4, ListElements
      <3>2. \A m \in 1..Len(found) : ~passes(found[m])
        BY <1>3, <1>5, <1>6 DEF filtered
      <3> QED
        BY <1>2, <3>1, <3>2 DEF wanted
    <2>3. op \notin MatchOps
      BY <1>6 DEF TestOps, MatchOps
    <2> QED
      BY <1>1, <1>2, <2>1, <2>2, <2>3 DEF Loops
  <1>7. CASE op \notin TestOps
    <2>1. pc' = "select" /\ mmr' = mmr
      BY <1>7 DEF filterDone
    <2>2. picks(mmr, found, Len(found), wanted)
      BY <1>3, <1>5, <1>7 DEF filtered
    <2>3. op \in MatchOps
      BY <1>2, <1>7 DEF Ops
    <2> QED
      BY <1>1, <1>2, <2>1, <2>2, <2>3 DEF Loops
  <1> QED
    BY <1>6, <1>7

\* The listing of the spans.
LEMMA CollectKeepsLoops ==
    ASSUME IInv, listed, collect
    PROVE  Loops'
  <1>1. /\ op' = op /\ found' = found /\ wanted' = wanted /\ (guard' <=> guard)
        /\ (anchored' <=> anchored)
    BY CallStays DEF collect
  <1>2. guard /\ (op \in MatchOps \/ anchored) /\ CallOK /\ mmr = <<>>
    BY DEF IInv, Loops, collect
  <1>3. found \in Seq(spansIn(spos, epos))
    BY <1>2, FoundSpans
  <1>4. CASE anchored
    <2>1. pc' = "filter" /\ opts' = found /\ mmr' = <<>>
      BY <1>2, <1>4 DEF collect
    <2>2. 0 \in 0..Len(found) /\ found = SubSeq(found, 0 + 1, Len(found))
      <3>1. Len(found) \in Nat
        BY <1>3, ListElements
      <3> QED
        BY <1>3, <3>1, SubSeqFull
    <2>3. picks(<<>>, found, 0, wanted)
      BY PicksNone
    <2>4. filtered(0)'
      BY <1>1, <2>1, <2>2, <2>3 DEF filtered
    <2> QED
      BY <1>1, <1>2, <1>4, <2>1, <2>2, <2>4 DEF Loops
  <1>5. CASE ~anchored
    <2>1. pc' = "select" /\ mmr' = found /\ op \in MatchOps
      BY <1>2, <1>5 DEF collect
    <2>2. picks(found, found, Len(found), wanted)
      BY <1>3, <1>5, PicksAll DEF wanted
    <2> QED
      BY <1>1, <1>2, <2>1, <2>2 DEF Loops
  <1> QED
    BY <1>4, <1>5

\* Every step.
LEMMA StepKeeps ==
    ASSUME IInv, [Next]_vars
    PROVE  IInv'
  <1>1. UNCHANGED <<asked, sstr, spos, epos>>
    BY DEF Next, refuse, testDirect, collect, checkAnchors, filterDone, select, vars
  <1>2. CallOK' /\ (listed' <=> listed)
    BY <1>1, CallStays DEF IInv
  <1>3. ASSUME listed
        PROVE  Loops'
    <2>1. /\ op' = op /\ found' = found /\ wanted' = wanted /\ direct' = direct
          /\ (guard' <=> guard) /\ (anchored' <=> anchored)
      BY <1>1, CallStays
    <2>2. Loops
      BY <1>3 DEF IInv
    <2>3. CASE refuse
      BY <2>3 DEF refuse, Answer, Loops
    <2>4. CASE testDirect
      <3>1. /\ pc' = "done" /\ answer' = Bool(direct) /\ guard /\ op \in TestOps /\ ~anchored
            /\ op \notin MatchOps
        BY <2>4 DEF testDirect, Answer, direct, TestOps, MatchOps
      <3> QED
        BY <2>1, <3>1 DEF Loops
    <2>5. CASE collect
      BY <1>3, <2>5, CollectKeepsLoops
    <2>6. CASE checkAnchors
      BY <1>3, <2>6, RoundKeepsLoops DEF checkAnchors
    <2>7. CASE filterDone
      BY <1>3, <2>7, EndKeepsLoops
    <2>8. CASE select
      <3>1. /\ pc' = "done" /\ mmr' = mmr
            /\ answer' = IF mmr = <<>> THEN None ELSE Match(chosen)
        BY <2>8 DEF select, Answer, chosen
      <3>2. guard /\ op \in MatchOps /\ picks(mmr, found, Len(found), wanted) /\ op \notin TestOps
        BY <2>2, <2>8 DEF select, Loops, TestOps, MatchOps
      <3>3. chosen' = chosen
        BY <2>1, <3>1 DEF chosen
      <3> QED
        BY <2>1, <3>1, <3>2, <3>3 DEF Loops
    <2>9. CASE UNCHANGED vars
      <3>1. pc' = pc /\ opts' = opts /\ mmr' = mmr /\ answer' = answer
        BY <2>9 DEF vars
      <3>2. chosen' = chosen
        BY <2>1, <3>1 DEF chosen
      <3>3. \A m : passes(m)' <=> passes(m)
        BY <1>1, CallStays
      <3>4. \A n \in 0..Len(found) : filtered(n) => filtered(n)'
        BY <2>1, <3>1, <3>3 DEF filtered
      <3> QED
        BY <2>1, <2>2, <3>1, <3>2, <3>4 DEF Loops
    <2> QED
      BY <2>3, <2>4, <2>5, <2>6, <2>7, <2>8, <2>9 DEF Next
  <1> QED
    BY <1>2, <1>3 DEF IInv

(* What a call has collected and looked at, and what it answers of that,   *)
(* in every state.                                                         *)
THEOREM Inductive == Spec => []IInv
  <1>1. Init => IInv
    BY CallsStartRight
  <1>2. IInv /\ [Next]_vars => IInv'
    BY StepKeeps
  <1> QED
    BY <1>1, <1>2, PTL DEF Spec

-----------------------------------------------------------------------------
(* What the answers mean. *)

LEMMA SameBool ==
    ASSUME NEW a \in BOOLEAN, NEW b \in BOOLEAN, a <=> b
    PROVE  Bool(a) = Bool(b)
  <1>1. a = b
    OBVIOUS
  <1> QED
    BY <1>1

LEMMA SpansAre == Spans = spansIn(spos, epos)
  BY DEF Spans, spansIn

(* The spans that pass are those whose surroundings satisfy the anchors.   *)
LEMMA WantedIsGuarded ==
    ASSUME CallOK, listed, guard, op \in MatchOps \/ anchored, op # "test",
           op \in FrontOps \/ regex.pre.tag \in {"none", "Single"}
    PROVE  wanted = {s \in Guarded : /\ op \in FrontOps => s[1] = spos
                                     /\ op \in BackOps => s[2] = epos}
  <1>1. /\ spos \in Int /\ epos \in Int
        /\ \A cc \in {regex.pre, regex.post} \ {NoComponent} : parsedComponent(cc) /\ validAnchor(cc)
    BY CallParsed DEF CallOK
  <1>2. \A s \in spansIn(spos, epos) :
           s[1] \in Int /\ s[2] \in Int /\ s[2] + 1 \in Int /\ s[1] - 1 \in Int /\ s[2] + 1 <= epos + 1
    BY <1>1 DEF spansIn
  <1>3. regex.pre # NoComponent => parsedComponent(regex.pre) /\ regex.pre.tag = "Single"
    <2>1. ASSUME regex.pre # NoComponent
          PROVE  parsedComponent(regex.pre) /\ regex.pre.tag = "Single"
      <3>1. parsedComponent(regex.pre)
        BY <1>1, <2>1
      <3>2. op \notin FrontOps
        BY <2>1, Guarding
      <3> QED
        BY <3>1, <3>2, ParsedChecks
    <2> QED
      BY <2>1
  <1>4. ASSUME NEW s \in spansIn(spos, epos)
        PROVE  /\ prechk(s) <=> Preceded(regex.pre, sstr, spos, s[1] - 1)
               /\ postchk(s) <=> Followed(regex.post, sstr, s[2] + 1, epos)
    <2>1. prechk(s) <=> Preceded(regex.pre, sstr, spos, s[1] - 1)
      <3>1. CASE regex.pre = NoComponent
        BY <3>1 DEF prechk, Preceded
      <3>2. CASE regex.pre # NoComponent
        <4>1. componentTestBack(regex.pre, sstr, spos, s[1] - 1)
                 <=> Preceded(regex.pre, sstr, spos, s[1] - 1)
          BY <1>1, <1>2, <1>3, <3>2, AnchorPrecedes
        <4> QED
          BY <3>2, <4>1 DEF prechk
      <3> QED
        BY <3>1, <3>2
    <2>2. postchk(s) <=> Followed(regex.post, sstr, s[2] + 1, epos)
      <3>1. CASE regex.post = NoComponent
        BY <3>1 DEF postchk, Followed
      <3>2. CASE regex.post # NoComponent
        <4>1. componentTestFront(regex.post, sstr, s[2] + 1, epos)
                 <=> Followed(regex.post, sstr, s[2] + 1, epos)
          BY <1>1, <1>2, <3>2, AnchorFollows
        <4> QED
          BY <3>2, <4>1 DEF postchk
      <3> QED
        BY <3>1, <3>2
    <2> QED
      BY <2>1, <2>2
  <1>5. ASSUME ~anchored, NEW s \in spansIn(spos, epos)
        PROVE  /\ Preceded(regex.pre, sstr, spos, s[1] - 1)
               /\ Followed(regex.post, sstr, s[2] + 1, epos)
    <2>1. regex.pre = NoComponent /\ regex.post = NoComponent
      BY <1>5, Guarding DEF anchored
    <2> QED
      BY <2>1 DEF Preceded, Followed
  <1>6. Range(found) = {s \in contained(regex.re, sstr, spos, epos) :
                           /\ op \in FrontOps => s[1] = spos
                           /\ op \in BackOps => s[2] = epos}
    BY FoundSpans
  <1>7. \A s \in spansIn(spos, epos) :
           (anchored => passes(s)) <=> /\ Preceded(regex.pre, sstr, spos, s[1] - 1)
                                       /\ Followed(regex.post, sstr, s[2] + 1, epos)
    BY <1>4, <1>5 DEF passes
  <1>8. \A s : s \in wanted <=>
           /\ s \in contained(regex.re, sstr, spos, epos)
           /\ op \in FrontOps => s[1] = spos
           /\ op \in BackOps => s[2] = epos
           /\ anchored => passes(s)
    BY <1>6 DEF wanted
  <1>9. \A s : s \in Guarded <=>
           /\ s \in contained(regex.re, sstr, spos, epos)
           /\ Preceded(regex.pre, sstr, spos, s[1] - 1)
           /\ Followed(regex.post, sstr, s[2] + 1, epos)
    BY SpansAre DEF Guarded, contained
  <1>10. contained(regex.re, sstr, spos, epos) \in SUBSET spansIn(spos, epos)
    BY DEF contained
  <1> QED
    BY <1>7, <1>8, <1>9, <1>10

(* The same of an unanchored call that asks the component itself. *)
LEMMA DirectIsGuarded ==
    ASSUME CallOK, guard, op \in TestOps, ~anchored, op # "test",
           op \in BackOps => regex.re.tag = "Single",
           regex.re.tag = "Single" => <<>> \notin regex.re.checks[1].lang
    PROVE  Bool(direct) = Bool({s \in Guarded : /\ op \in FrontOps => s[1] = spos
                                                /\ op \in BackOps => s[2] = epos} # {})
  <1> DEFINE C == contained(regex.re, sstr, spos, epos)
             W == {s \in Guarded : /\ op \in FrontOps => s[1] = spos
                                   /\ op \in BackOps => s[2] = epos}
  <1>1. /\ spos \in Int /\ epos \in Int /\ spos <= epos + 1 /\ parsedComponent(regex.re)
    BY CallParsed DEF CallOK
  <1>2. Guarded = C
    <2>1. regex.pre = NoComponent /\ regex.post = NoComponent
      BY Guarding DEF anchored
    <2>2. \A s : Preceded(regex.pre, sstr, spos, s[1] - 1) /\ Followed(regex.post, sstr, s[2] + 1, epos)
      BY <2>1 DEF Preceded, Followed
    <2> QED
      BY <2>2, SpansAre DEF Guarded, contained
  <1>3. \A s \in C : s \in spansIn(spos, epos) /\ Accepts(regex.re, sstr, s[1], s[2])
                     /\ s[1] \in spos..epos /\ s[2] \in spos..epos
    BY DEF contained, spansIn
  <1>4. CASE op = "testFront"
    <2>1. op \in FrontOps /\ op \notin BackOps /\ isMatchable(regex.re)
      BY <1>4, Guarding DEF FrontOps, BackOps
    <2>2. direct <=> fronts(regex.re, sstr, spos, epos) # {}
      BY <1>1, <1>4, <2>1, TestFrontFinds DEF direct
    <2>3. ASSUME NEW e \in fronts(regex.re, sstr, spos, epos)
          PROVE  <<spos, e>> \in W
      <3>1. <<spos, e>> \in C
        BY <1>1 DEF fronts, contained, spansIn
      <3> QED
        BY <1>2, <2>1, <3>1
    <2>4. ASSUME NEW s \in W
          PROVE  s[2] \in fronts(regex.re, sstr, spos, epos)
      BY <1>2, <1>3, <2>1 DEF fronts
    <2>5. direct <=> W # {}
      BY <2>2, <2>3, <2>4
    <2>6. direct \in BOOLEAN
      <3>1. componentTestFront(regex.re, sstr, spos, epos) \in BOOLEAN
        <4>1. CASE regex.re.tag = "Single"
          BY <4>1, Zenon DEF componentTestFront
        <4>2. CASE regex.re.tag # "Single"
          BY <4>2, Zenon DEF componentTestFront
        <4> QED
          BY <4>1, <4>2
      <3> QED
        BY <1>4, <3>1 DEF direct
    <2> HIDE DEF W
    <2> QED
      BY <2>5, <2>6, SameBool DEF W
  <1>5. CASE op = "testBack"
    <2>1. op \in BackOps /\ op \notin FrontOps /\ isMatchable(regex.re) /\ regex.re.tag = "Single"
      BY <1>5, Guarding DEF FrontOps, BackOps
    <2>2. direct <=> backs(regex.re, sstr, spos, epos) # {}
      BY <1>1, <1>5, <2>1, TestBackFinds DEF direct
    <2>3. ASSUME NEW e \in backs(regex.re, sstr, spos, epos)
          PROVE  <<e, epos>> \in W
      <3>1. <<e, epos>> \in C
        BY <1>1 DEF backs, contained, spansIn
      <3> QED
        BY <1>2, <2>1, <3>1
    <2>4. ASSUME NEW s \in W
          PROVE  s[1] \in backs(regex.re, sstr, spos, epos)
      BY <1>2, <1>3, <2>1 DEF backs
    <2>5. direct <=> W # {}
      BY <2>2, <2>3, <2>4
    <2>6. direct \in BOOLEAN
      <3>1. componentTestBack(regex.re, sstr, spos, epos) \in BOOLEAN
        <4>1. CASE regex.re.tag = "Single"
          BY <4>1, Zenon DEF componentTestBack
        <4>2. CASE regex.re.tag # "Single"
          BY <4>2, Zenon DEF componentTestBack
        <4> QED
          BY <4>1, <4>2
      <3> QED
        BY <1>5, <3>1 DEF direct
    <2> HIDE DEF W
    <2> QED
      BY <2>5, <2>6, SameBool DEF W
  <1>6. CASE op = "testContains"
    <2>1. op \notin BackOps /\ op \notin FrontOps /\ isMatchable(regex.re) /\ regex.re.tag = "Single"
      BY <1>6, Guarding DEF FrontOps, BackOps, ContainsOps
    <2>2. direct <=> C # {}
      BY <1>1, <1>6, <2>1, TestContainsFinds DEF direct
    <2>3. W = C
      BY <1>2, <2>1
    <2>4. direct \in BOOLEAN
      <3>1. componentTestContains(regex.re, sstr, spos, epos) \in BOOLEAN
        BY SMT DEF componentTestContains
      <3> QED
        BY <1>6, <3>1 DEF direct
    <2> HIDE DEF W, C
    <2> QED
      BY <2>2, <2>3, <2>4, SameBool DEF W
  <1> QED
    BY <1>4, <1>5, <1>6 DEF TestOps

(* A call of Asked that is searched from its end only where it may be.     *)
LEMMA CallConditions ==
    ASSUME CallOK
    PROVE  /\ singlesBackwards(Asked) =>
                 /\ listed
                 /\ op \in FrontOps \/ op = "test" \/ regex.pre.tag \in {"none", "Single"}
                 /\ op \in BackOps => regex.re.tag = "Single"
           /\ emptyUntested(Asked) /\ op \in TestOps /\ op # "test" /\ regex.re.tag = "Single" =>
                 <<>> \notin regex.re.checks[1].lang
  <1>1. asked \in Asked /\ op = asked.op /\ regex = asked.regex /\ op \in Ops
    BY CallParsed DEF CallOK, op, regex
  <1>2. op \in FrontOps \/ op = "test" \/ op \in BackOps \cup ContainsOps
    BY <1>1 DEF Ops, TestOps, MatchOps, FrontOps, BackOps, ContainsOps
  <1> QED
    BY <1>1, <1>2 DEF singlesBackwards, emptyUntested, listed

(* REExecutor::test answers for every interval what the language of the    *)
(* middle component, or of some way to split it, says.                     *)
THEOREM TestsSplitTheInterval == Spec => []TestSplitsTheInterval
  <1>1. ASSUME IInv, answered("test")
        PROVE  answer = Bool(
                  IF regex.pre = NoComponent /\ regex.post = NoComponent
                    THEN Accepts(regex.re, sstr, spos, epos)
                  ELSE \E s \in Spans :
                          /\ regex.pre = NoComponent \/ Accepts(regex.pre, sstr, spos, s[1] - 1)
                          /\ Accepts(regex.re, sstr, s[1], s[2])
                          /\ regex.post = NoComponent \/ Accepts(regex.post, sstr, s[2] + 1, epos))
    <2>1. /\ pc = "done" /\ op = "test" /\ answer # Invalid /\ CallOK
          /\ op \in TestOps /\ op \notin BackOps /\ op \notin FrontOps
      BY <1>1 DEF answered, IInv, TestOps, BackOps, FrontOps
    <2>2. listed
      BY <2>1 DEF listed
    <2>3. /\ guard
          /\ anchored => answer = Bool(wanted # {})
          /\ ~anchored => answer = Bool(direct)
      BY <1>1, <2>1, <2>2 DEF IInv, Loops
    <2>4. anchored <=> ~(regex.pre = NoComponent /\ regex.post = NoComponent)
      BY <2>1 DEF anchored
    <2>5. /\ spos \in Int /\ epos \in Int /\ spos <= epos + 1 /\ parsedComponent(regex.re)
          /\ regex.pre # NoComponent => parsedComponent(regex.pre)
          /\ regex.post # NoComponent => parsedComponent(regex.post)
      BY <2>1, CallParsed DEF CallOK
    <2>6. CASE ~anchored
      <3>1. direct <=> Accepts(regex.re, sstr, spos, epos)
        BY <2>1, <2>5, ComponentTestAccepts DEF direct
      <3>2. direct \in BOOLEAN /\ Accepts(regex.re, sstr, spos, epos) \in BOOLEAN
        <4>1. componentTest(regex.re, sstr, spos, epos) \in BOOLEAN
          BY Zenon DEF componentTest
        <4>2. Accepts(regex.re, sstr, spos, epos) \in BOOLEAN
          BY Zenon DEF Accepts
        <4> QED
          BY <2>1, <4>1, <4>2 DEF direct
      <3>3. Bool(direct) = Bool(Accepts(regex.re, sstr, spos, epos))
        BY <3>1, <3>2, SameBool
      <3> QED
        BY <2>3, <2>4, <2>6, <3>3
    <2>7. CASE anchored
      <3> DEFINE some == \E s \in Spans :
                          /\ regex.pre = NoComponent \/ Accepts(regex.pre, sstr, spos, s[1] - 1)
                          /\ Accepts(regex.re, sstr, s[1], s[2])
                          /\ regex.post = NoComponent \/ Accepts(regex.post, sstr, s[2] + 1, epos)
      <3>1. Range(found) = contained(regex.re, sstr, spos, epos)
        BY <2>1, <2>2, <2>3, <2>7, FoundSpans
      <3>2. ASSUME NEW s \in spansIn(spos, epos)
            PROVE  passes(s) <=>
                      /\ regex.pre = NoComponent \/ Accepts(regex.pre, sstr, spos, s[1] - 1)
                      /\ regex.post = NoComponent \/ Accepts(regex.post, sstr, s[2] + 1, epos)
        <4>1. /\ s[1] \in Int /\ s[2] \in Int /\ s[2] + 1 \in Int /\ s[1] - 1 \in Int
              /\ s[2] + 1 <= epos + 1 /\ spos <= (s[1] - 1) + 1
          BY <2>5 DEF spansIn
        <4>2. regex.pre # NoComponent =>
                 (componentTest(regex.pre, sstr, spos, s[1] - 1)
                    <=> Accepts(regex.pre, sstr, spos, s[1] - 1))
          BY <2>5, <4>1, ComponentTestAccepts
        <4>3. regex.post # NoComponent =>
                 (componentTest(regex.post, sstr, s[2] + 1, epos)
                    <=> Accepts(regex.post, sstr, s[2] + 1, epos))
          BY <2>5, <4>1, ComponentTestAccepts
        <4> QED
          BY <2>1, <4>2, <4>3 DEF passes, prechk, postchk
      <3>3. wanted = {s \in contained(regex.re, sstr, spos, epos) : passes(s)}
        BY <2>7, <3>1 DEF wanted
      <3>4. wanted # {} <=> some
        BY <3>2, <3>3, SpansAre DEF contained
      <3>5. some \in BOOLEAN /\ (wanted # {}) \in BOOLEAN
        OBVIOUS
      <3>6. Bool(wanted # {}) = Bool(some)
        <4> HIDE DEF some
        <4> QED
          BY <3>4, <3>5, SameBool
      <3> HIDE DEF some
      <3>7. answer = Bool(some)
        BY <2>3, <2>7, <3>6
      <3> QED
        BY <2>4, <2>7, <3>7 DEF some
    <2> QED
      BY <2>6, <2>7
  <1>2. IInv => TestSplitsTheInterval
    BY <1>1 DEF TestSplitsTheInterval
  <1> QED
    BY <1>2, Inductive, PTL

(* What a search answers once its spans are collected. *)
LEMMA SearchAnswers ==
    ASSUME IInv, listed, op \in FrontOps \/ regex.pre.tag \in {"none", "Single"},
           pc = "done", answer # Invalid, op # "test", op \in Ops
    PROVE  LET W == {s \in Guarded : /\ op \in FrontOps => s[1] = spos
                                     /\ op \in BackOps => s[2] = epos}
           IN  /\ guard
               /\ op \in TestOps /\ anchored => answer = Bool(W # {})
               /\ op \in TestOps /\ ~anchored => answer = Bool(direct)
               /\ op \in MatchOps => /\ Range(mmr) = W /\ W \in SUBSET spansIn(spos, epos)
                                     /\ picks(mmr, found, Len(found), wanted)
                                     /\ W = {} => answer = None
                                     /\ W # {} => mmr # <<>> /\ answer = Match(chosen)
  <1> DEFINE W == {s \in Guarded : /\ op \in FrontOps => s[1] = spos
                                   /\ op \in BackOps => s[2] = epos}
  <1>1. CallOK /\ Loops
    BY DEF IInv
  <1>2. /\ guard
        /\ op \in TestOps /\ anchored => answer = Bool(wanted # {})
        /\ op \in TestOps /\ ~anchored => answer = Bool(direct)
        /\ op \in MatchOps => /\ picks(mmr, found, Len(found), wanted)
                              /\ answer = IF mmr = <<>> THEN None ELSE Match(chosen)
    BY <1>1 DEF Loops
  <1>3. op \in MatchOps \/ anchored => wanted = W
    BY <1>1, <1>2, WantedIsGuarded
  <1>4. ASSUME op \in MatchOps
        PROVE  /\ Range(mmr) = W /\ W \in SUBSET spansIn(spos, epos)
               /\ W = {} => answer = None
               /\ W # {} => mmr # <<>> /\ answer = Match(chosen)
    <2>1. found \in Seq(spansIn(spos, epos))
      BY <1>1, <1>2, <1>4, FoundSpans
    <2>2. Range(mmr) = Range(found) \cap wanted /\ (mmr = <<>> <=> Range(found) \cap wanted = {})
      BY <1>2, <1>4, <2>1, PickedRange
    <2>3. Range(found) \cap wanted = wanted
      BY DEF wanted
    <2>4. W \in SUBSET spansIn(spos, epos)
      BY SpansAre DEF Guarded
    <2> HIDE DEF W
    <2> QED
      BY <1>2, <1>3, <1>4, <2>2, <2>3, <2>4
  <1> HIDE DEF W
  <1>5. /\ guard
        /\ op \in TestOps /\ anchored => answer = Bool(W # {})
        /\ op \in TestOps /\ ~anchored => answer = Bool(direct)
        /\ op \in MatchOps => /\ Range(mmr) = W /\ W \in SUBSET spansIn(spos, epos)
                              /\ picks(mmr, found, Len(found), wanted)
                              /\ W = {} => answer = None
                              /\ W # {} => mmr # <<>> /\ answer = Match(chosen)
    BY <1>2, <1>3, <1>4
  <1> QED
    BY <1>5 DEF W

(* testFront and matchFront answer of the guarded spans at the start of    *)
(* the interval whether there is one, and the longest.                     *)
THEOREM FrontsAreLongest ==
    ASSUME emptyUntested(Asked)
    PROVE  Spec => []FrontIsLongest
  <1> DEFINE S == {s \in Guarded : s[1] = spos}
  <1>1. ASSUME IInv, pc = "done", answer # Invalid, op \in FrontOps
        PROVE  /\ op = "testFront" => answer = Bool(S # {})
               /\ op = "matchFront" =>
                     answer = IF S = {} THEN None
                              ELSE Match(CHOOSE s \in S : \A t \in S \ {s} : s[2] > t[2])
    <2> DEFINE W == {s \in Guarded : /\ op \in FrontOps => s[1] = spos
                                     /\ op \in BackOps => s[2] = epos}
    <2>1. /\ CallOK /\ op \in Ops /\ op # "test" /\ op \notin BackOps /\ listed
      BY <1>1, CallParsed DEF IInv, FrontOps, BackOps, listed
    <2>2. W = S
      BY <1>1, <2>1
    <2>3. /\ guard
          /\ op \in TestOps /\ anchored => answer = Bool(W # {})
          /\ op \in TestOps /\ ~anchored => answer = Bool(direct)
          /\ op \in MatchOps => /\ Range(mmr) = W /\ W \in SUBSET spansIn(spos, epos)
                                /\ picks(mmr, found, Len(found), wanted)
                                /\ W = {} => answer = None
                                /\ W # {} => mmr # <<>> /\ answer = Match(chosen)
      BY <1>1, <2>1, SearchAnswers
    <2>4. ASSUME op = "testFront"
          PROVE  answer = Bool(S # {})
      <3>1. op \in TestOps
        BY <2>4 DEF TestOps
      <3>2. ~anchored => Bool(direct) = Bool(W # {})
        <4>1. regex.re.tag = "Single" => <<>> \notin regex.re.checks[1].lang
          BY <2>1, <3>1, CallConditions
        <4> QED
          BY <2>1, <2>3, <3>1, <4>1, DirectIsGuarded
      <3> HIDE DEF W, S
      <3> QED
        BY <2>2, <2>3, <3>1, <3>2
    <2>5. ASSUME op = "matchFront", S # {}
          PROVE  (CHOOSE s \in S : \A t \in S \ {s} : s[2] > t[2]) = Last(mmr)
      <3>1. op \in MatchOps
        BY <2>5 DEF MatchOps
      <3>2. /\ Range(mmr) = S /\ S \in SUBSET spansIn(spos, epos) /\ mmr # <<>>
            /\ picks(mmr, found, Len(found), wanted)
        <4> HIDE DEF W, S
        <4> QED
          BY <2>2, <2>3, <2>5, <3>1
      <3>3. /\ Last(mmr) \in S
            /\ \A t \in S \ {Last(mmr)} :
                  \E m, p \in 1..Len(found) : m < p /\ t = found[m] /\ Last(mmr) = found[p]
        <4> HIDE DEF S
        <4> QED
          BY <3>2, LastPicked
      <3>4. \A x, y \in 1..Len(found) : x < y => found[x][2] < found[y][2]
        BY <1>1, <2>1, <2>3, <3>1, FoundSpans
      <3>5. \A s \in S : s[2] \in Int
        BY <2>1, <3>2 DEF spansIn, CallOK
      <3> DEFINE last == Last(mmr)
      <3> HIDE DEF S, last
      <3>6. last \in S /\ \A t \in S \ {last} : t[2] < last[2]
        BY <3>3, <3>4 DEF last
      <3>7. \A t \in S \ {last} : last[2] > t[2]
        BY <3>5, <3>6
      <3>8. \A s \in S : (\A t \in S \ {s} : s[2] > t[2]) => s = last
        <4>1. ASSUME NEW s \in S, \A t \in S \ {s} : s[2] > t[2], s # last
              PROVE  FALSE
          <5>1. s[2] > last[2] /\ last[2] > s[2]
            BY <3>6, <3>7, <4>1
          <5> QED
            BY <3>5, <3>6, <5>1
        <4> QED
          BY <4>1
      <3> QED
        BY <3>6, <3>7, <3>8 DEF last
    <2>6. ASSUME op = "matchFront"
          PROVE  answer = IF S = {} THEN None
                          ELSE Match(CHOOSE s \in S : \A t \in S \ {s} : s[2] > t[2])
      <3>1. op \in MatchOps /\ chosen = Last(mmr)
        BY <2>6 DEF MatchOps, chosen
      <3> HIDE DEF W, S
      <3> QED
        BY <2>2, <2>3, <2>5, <2>6, <3>1
    <2> QED
      BY <2>4, <2>6
  <1>2. IInv => FrontIsLongest
    <2>1. op = "testFront" \/ op = "matchFront" => op \in FrontOps
      BY DEF FrontOps
    <2> QED
      BY <1>1, <2>1 DEF FrontIsLongest, answered, Found, Best
  <1> QED
    BY <1>2, Inductive, PTL

(* testBack and matchBack answer of the guarded spans at the end of the    *)
(* interval whether there is one, and the longest, of single expressions.  *)
THEOREM BacksAreLongest ==
    ASSUME singlesBackwards(Asked), emptyUntested(Asked)
    PROVE  Spec => []BackIsLongest
  <1> DEFINE S == {s \in Guarded : s[2] = epos}
  <1>1. ASSUME IInv, pc = "done", answer # Invalid, op \in BackOps
        PROVE  /\ op = "testBack" => answer = Bool(S # {})
               /\ op = "matchBack" =>
                     answer = IF S = {} THEN None
                              ELSE Match(CHOOSE s \in S : \A t \in S \ {s} : s[1] < t[1])
    <2> DEFINE W == {s \in Guarded : /\ op \in FrontOps => s[1] = spos
                                     /\ op \in BackOps => s[2] = epos}
    <2>1. /\ CallOK /\ op \in Ops /\ op # "test" /\ op \notin FrontOps
          /\ listed /\ regex.pre.tag \in {"none", "Single"} /\ regex.re.tag = "Single"
      BY <1>1, CallParsed, CallConditions DEF IInv, FrontOps, BackOps
    <2>2. W = S
      BY <1>1, <2>1
    <2>3. /\ guard
          /\ op \in TestOps /\ anchored => answer = Bool(W # {})
          /\ op \in TestOps /\ ~anchored => answer = Bool(direct)
          /\ op \in MatchOps => /\ Range(mmr) = W /\ W \in SUBSET spansIn(spos, epos)
                                /\ picks(mmr, found, Len(found), wanted)
                                /\ W = {} => answer = None
                                /\ W # {} => mmr # <<>> /\ answer = Match(chosen)
      BY <1>1, <2>1, SearchAnswers
    <2>4. ASSUME op = "testBack"
          PROVE  answer = Bool(S # {})
      <3>1. op \in TestOps
        BY <2>4 DEF TestOps
      <3>2. ~anchored => Bool(direct) = Bool(W # {})
        <4>1. regex.re.tag = "Single" => <<>> \notin regex.re.checks[1].lang
          BY <2>1, <3>1, CallConditions
        <4> QED
          BY <2>1, <2>3, <3>1, <4>1, DirectIsGuarded
      <3> HIDE DEF W, S
      <3> QED
        BY <2>2, <2>3, <3>1, <3>2
    <2>5. ASSUME op = "matchBack", S # {}
          PROVE  (CHOOSE s \in S : \A t \in S \ {s} : s[1] < t[1]) = Last(mmr)
      <3>1. op \in MatchOps
        BY <2>5 DEF MatchOps
      <3>2. /\ Range(mmr) = S /\ S \in SUBSET spansIn(spos, epos) /\ mmr # <<>>
            /\ picks(mmr, found, Len(found), wanted)
        <4> HIDE DEF W, S
        <4> QED
          BY <2>2, <2>3, <2>5, <3>1
      <3>3. /\ Last(mmr) \in S
            /\ \A t \in S \ {Last(mmr)} :
                  \E m, p \in 1..Len(found) : m < p /\ t = found[m] /\ Last(mmr) = found[p]
        <4> HIDE DEF S
        <4> QED
          BY <3>2, LastPicked
      <3>4. \A x, y \in 1..Len(found) : x < y => found[x][1] > found[y][1]
        BY <1>1, <2>1, <2>3, <3>1, FoundSpans
      <3>5. \A s \in S : s[1] \in Int
        BY <2>1, <3>2 DEF spansIn, CallOK
      <3> DEFINE last == Last(mmr)
      <3> HIDE DEF S, last
      <3>6. last \in S /\ \A t \in S \ {last} : t[1] > last[1]
        BY <3>3, <3>4 DEF last
      <3>7. \A t \in S \ {last} : last[1] < t[1]
        BY <3>5, <3>6
      <3>8. \A s \in S : (\A t \in S \ {s} : s[1] < t[1]) => s = last
        <4>1. ASSUME NEW s \in S, \A t \in S \ {s} : s[1] < t[1], s # last
              PROVE  FALSE
          <5>1. s[1] < last[1] /\ last[1] < s[1]
            BY <3>6, <3>7, <4>1
          <5> QED
            BY <3>5, <3>6, <5>1
        <4> QED
          BY <4>1
      <3> QED
        BY <3>6, <3>7, <3>8 DEF last
    <2>6. ASSUME op = "matchBack"
          PROVE  answer = IF S = {} THEN None
                          ELSE Match(CHOOSE s \in S : \A t \in S \ {s} : s[1] < t[1])
      <3>1. op \in MatchOps /\ chosen = Last(mmr)
        BY <2>6 DEF MatchOps, chosen
      <3> HIDE DEF W, S
      <3> QED
        BY <2>2, <2>3, <2>5, <2>6, <3>1
    <2> QED
      BY <2>4, <2>6
  <1>2. IInv => BackIsLongest
    <2>1. op = "testBack" \/ op = "matchBack" => op \in BackOps
      BY DEF BackOps
    <2> QED
      BY <1>1, <2>1 DEF BackIsLongest, answered, Found, Best
  <1> QED
    BY <1>2, Inductive, PTL

(* testContains, matchContainsFirst and matchContainsLast answer of all    *)
(* the guarded spans whether there is one, the one that starts first and   *)
(* the one that ends last, each the longest of those.                      *)
THEOREM ContainsAreFirstAndLast ==
    ASSUME singlesBackwards(Asked), emptyUntested(Asked)
    PROVE  Spec => []ContainsFirstAndLast
  <1> DEFINE S == Guarded
  <1>1. ASSUME IInv, pc = "done", answer # Invalid, op \in ContainsOps
        PROVE  /\ op = "testContains" => answer = Bool(S # {})
               /\ op = "matchContainsFirst" =>
                     answer = IF S = {} THEN None
                              ELSE Match(CHOOSE s \in S : \A t \in S \ {s} :
                                            s[1] < t[1] \/ (s[1] = t[1] /\ s[2] > t[2]))
               /\ op = "matchContainsLast" =>
                     answer = IF S = {} THEN None
                              ELSE Match(CHOOSE s \in S : \A t \in S \ {s} :
                                            s[2] > t[2] \/ (s[2] = t[2] /\ s[1] < t[1]))
    <2> DEFINE W == {s \in Guarded : /\ op \in FrontOps => s[1] = spos
                                     /\ op \in BackOps => s[2] = epos}
    <2>1. /\ CallOK /\ op \in Ops /\ op # "test" /\ op \notin FrontOps /\ op \notin BackOps
          /\ listed /\ regex.pre.tag \in {"none", "Single"}
      BY <1>1, CallParsed, CallConditions DEF IInv, FrontOps, BackOps, ContainsOps
    <2>2. W = S
      BY <2>1
    <2>3. /\ guard
          /\ op \in TestOps /\ anchored => answer = Bool(W # {})
          /\ op \in TestOps /\ ~anchored => answer = Bool(direct)
          /\ op \in MatchOps => /\ Range(mmr) = W /\ W \in SUBSET spansIn(spos, epos)
                                /\ picks(mmr, found, Len(found), wanted)
                                /\ W = {} => answer = None
                                /\ W # {} => mmr # <<>> /\ answer = Match(chosen)
      BY <1>1, <2>1, SearchAnswers
    <2>4. spos \in Int /\ epos \in Int /\ \A s \in spansIn(spos, epos) : s[1] \in Int /\ s[2] \in Int
      BY <2>1 DEF CallOK, spansIn
    <2>5. ASSUME op = "testContains"
          PROVE  answer = Bool(S # {})
      <3>1. op \in TestOps
        BY <2>5 DEF TestOps
      <3>2. ~anchored => Bool(direct) = Bool(W # {})
        <4>1. regex.re.tag = "Single" => <<>> \notin regex.re.checks[1].lang
          BY <2>1, <3>1, CallConditions
        <4> QED
          BY <2>1, <2>3, <3>1, <4>1, DirectIsGuarded
      <3> HIDE DEF W, S
      <3> QED
        BY <2>2, <2>3, <3>1, <3>2
    <2>6. ASSUME op = "matchContainsFirst", S # {}
          PROVE  answer = Match(CHOOSE s \in S : \A t \in S \ {s} :
                                   s[1] < t[1] \/ (s[1] = t[1] /\ s[2] > t[2]))
      <3> DEFINE first == firstSpan(mmr)
      <3>1. op \in MatchOps /\ chosen = first
        BY <2>6 DEF MatchOps, chosen
      <3> HIDE DEF W, S, first
      <3>2. Range(mmr) = S /\ S \in SUBSET spansIn(spos, epos) /\ answer = Match(first)
        BY <2>2, <2>3, <2>6, <3>1
      <3>3. first \in S /\ \A t \in S \ {first} : earlier(first, t)
        BY <2>4, <2>6, <3>2, FirstIsEarliest DEF first
      <3>4. \A s \in S : (\A t \in S \ {s} : earlier(s, t)) => s = first
        <4>1. ASSUME NEW s \in S, \A t \in S \ {s} : earlier(s, t), s # first
              PROVE  FALSE
          <5>1. earlier(s, first) /\ earlier(first, s)
            BY <3>3, <4>1
          <5>2. s[1] \in Int /\ s[2] \in Int /\ first[1] \in Int /\ first[2] \in Int
            BY <2>4, <3>2, <3>3
          <5> QED
            BY <5>1, <5>2 DEF earlier
        <4> QED
          BY <4>1
      <3>5. (CHOOSE s \in S : \A t \in S \ {s} : earlier(s, t)) = first
        BY <3>3, <3>4
      <3>6. (CHOOSE s \in S : \A t \in S \ {s} : s[1] < t[1] \/ (s[1] = t[1] /\ s[2] > t[2])) = first
        BY <3>5 DEF earlier
      <3> QED
        BY <3>2, <3>6
    <2>7. ASSUME op = "matchContainsLast", S # {}
          PROVE  answer = Match(CHOOSE s \in S : \A t \in S \ {s} :
                                   s[2] > t[2] \/ (s[2] = t[2] /\ s[1] < t[1]))
      <3> DEFINE last == lastSpan(mmr)
      <3>1. op \in MatchOps /\ chosen = last
        BY <2>7 DEF MatchOps, chosen
      <3> HIDE DEF W, S, last
      <3>2. Range(mmr) = S /\ S \in SUBSET spansIn(spos, epos) /\ answer = Match(last)
        BY <2>2, <2>3, <2>7, <3>1
      <3>3. last \in S /\ \A t \in S \ {last} : later(last, t)
        BY <2>4, <2>7, <3>2, LastIsLatest DEF last
      <3>4. \A s \in S : (\A t \in S \ {s} : later(s, t)) => s = last
        <4>1. ASSUME NEW s \in S, \A t \in S \ {s} : later(s, t), s # last
              PROVE  FALSE
          <5>1. later(s, last) /\ later(last, s)
            BY <3>3, <4>1
          <5>2. s[1] \in Int /\ s[2] \in Int /\ last[1] \in Int /\ last[2] \in Int
            BY <2>4, <3>2, <3>3
          <5> QED
            BY <5>1, <5>2 DEF later
        <4> QED
          BY <4>1
      <3>5. (CHOOSE s \in S : \A t \in S \ {s} : later(s, t)) = last
        BY <3>3, <3>4
      <3>6. (CHOOSE s \in S : \A t \in S \ {s} : s[2] > t[2] \/ (s[2] = t[2] /\ s[1] < t[1])) = last
        BY <3>5 DEF later
      <3> QED
        BY <3>2, <3>6
    <2>8. op \in MatchOps /\ S = {} => answer = None
      <3> HIDE DEF W, S
      <3> QED
        BY <2>2, <2>3
    <2>9. op = "matchContainsFirst" \/ op = "matchContainsLast" => op \in MatchOps
      BY DEF MatchOps
    <2> HIDE DEF W, S
    <2> QED
      BY <2>5, <2>6, <2>7, <2>8, <2>9
  <1>2. IInv => ContainsFirstAndLast
    <2>1. op = "testContains" \/ op = "matchContainsFirst" \/ op = "matchContainsLast" =>
             op \in ContainsOps
      BY DEF ContainsOps
    <2> QED
      BY <1>1, <2>1 DEF ContainsFirstAndLast, answered, Found, Best
  <1> QED
    BY <1>2, Inductive, PTL

=============================================================================
