-------------------------- MODULE NFAClosureProofs --------------------------
(***************************************************************************)
(* Proofs about NFAClosure, for every well-formed machine: epsilonReach,   *)
(* a recursive function, computes the least set closed under epsilon       *)
(* steps, and run, another one, takes the letters of a word in order.      *)
(*                                                                         *)
(* No induction is used.  That the function of epsilonReach exists, and is *)
(* the only one, rests on the tokens of a machine being finite: of the     *)
(* sets of tokens with no answer, or two, one would be largest, but its    *)
(* answer is that of a larger one.  In the same way there would be a first *)
(* letter of a word after which run has no answer.                         *)
(***************************************************************************)
EXTENDS NFAClosure, FiniteSetTheorems, SequenceTheorems, WellFoundedInduction, TLAPS

-----------------------------------------------------------------------------
(* The tokens of a machine are finite. *)

LEMMA SimpleTokensFinite ==
    ASSUME NEW mm, IsFiniteSet(States(mm))
    PROVE  IsFiniteSet(SimpleTokens(mm))
  <1> DEFINE f == [s \in States(mm) |-> Simple(s)]
  <1>1. f \in Surjection(States(mm), SimpleTokens(mm))
    BY DEF Surjection, SimpleTokens, Simple
  <1> QED
    BY <1>1, FS_Surjection

LEMMA SingleTokensFinite ==
    ASSUME NEW mm, IsFiniteSet(States(mm))
    PROVE  IsFiniteSet(SingleTokens(mm))
  <1> DEFINE A == States(mm) \X States(mm)
             D == A \X (1..UINT16_MAX)
             f == [d \in D |-> Single(d[1][1], d[1][2], d[2])]
  <1>1. IsFiniteSet(1..UINT16_MAX)
    BY FS_Interval, WidthAssumption
  <1>2. IsFiniteSet(A)
    BY FS_Product
  <1>3. IsFiniteSet(D)
    BY <1>1, <1>2, FS_Product
  <1>4. f \in [D -> SingleTokens(mm)]
    BY DEF SingleTokens, Single
  <1>5. ASSUME NEW t \in SingleTokens(mm) PROVE \E d \in D : f[d] = t
    <2>1. <<<<t.cstate, t.range>>, t.count>> \in D
      BY DEF SingleTokens
    <2>2. f[<<<<t.cstate, t.range>>, t.count>>] = t
      BY <2>1 DEF SingleTokens, Single
    <2> QED
      BY <2>1, <2>2
  <1>6. f \in Surjection(D, SingleTokens(mm))
    BY <1>4, <1>5 DEF Surjection
  <1> QED
    BY <1>3, <1>6, FS_Surjection

LEMMA FullTokensFinite ==
    ASSUME NEW mm, IsFiniteSet(States(mm))
    PROVE  IsFiniteSet(FullTokens(mm))
  <1> DEFINE A == States(mm) \X States(mm)
             B == A \X (1..UINT16_MAX)
             D == B \X States(mm)
             f == [d \in D |-> Full(d[1][1][1], d[1][1][2], d[1][2], d[2])]
  <1>1. IsFiniteSet(1..UINT16_MAX)
    BY FS_Interval, WidthAssumption
  <1>2. IsFiniteSet(A)
    BY FS_Product
  <1>3. IsFiniteSet(B)
    BY <1>1, <1>2, FS_Product
  <1>4. IsFiniteSet(D)
    BY <1>3, FS_Product
  <1>5. f \in [D -> FullTokens(mm)]
    BY DEF FullTokens, Full
  <1>6. ASSUME NEW t \in FullTokens(mm) PROVE \E d \in D : f[d] = t
    <2>1. <<<<<<t.cstate, t.range>>, t.count>>, t.inner>> \in D
      BY DEF FullTokens
    <2>2. f[<<<<<<t.cstate, t.range>>, t.count>>, t.inner>>] = t
      BY <2>1 DEF FullTokens, Full
    <2> QED
      BY <2>1, <2>2
  <1>7. f \in Surjection(D, FullTokens(mm))
    BY <1>5, <1>6 DEF Surjection
  <1> QED
    BY <1>4, <1>7, FS_Surjection

LEMMA TokensFinite ==
    ASSUME NEW mm, IsFiniteSet(States(mm))
    PROVE  IsFiniteSet(Tokens(mm))
  <1>1. IsFiniteSet(SimpleTokens(mm) \cup SingleTokens(mm))
    BY SimpleTokensFinite, SingleTokensFinite, FS_Union
  <1> QED
    BY <1>1, FullTokensFinite, FS_Union DEF Tokens

-----------------------------------------------------------------------------
(* An epsilon step of any token of a machine yields tokens of the machine. *)

LEMMA MoveTyped ==
    ASSUME NEW mm, NEW t \in Tokens(mm), NEW f \in States(mm)
    PROVE  toNextState(t, f) \in Tokens(mm)
  <1>1. CASE t \in SimpleTokens(mm)
    BY <1>1 DEF Tokens, SimpleTokens, toNextState
  <1>2. CASE t \in SingleTokens(mm)
    BY <1>2 DEF Tokens, SingleTokens, toNextState
  <1>3. CASE t \in FullTokens(mm)
    BY <1>3 DEF Tokens, FullTokens, toNextState
  <1> QED
    BY <1>1, <1>2, <1>3 DEF Tokens

LEMMA TokenFields ==
    ASSUME NEW mm, NEW t \in Tokens(mm)
    PROVE  /\ t.cstate \in States(mm)
           /\ t.kind # "simple" => t.range \in States(mm) /\ t.count \in 1..UINT16_MAX
  BY DEF Tokens, SimpleTokens, SingleTokens, FullTokens

LEMMA ProcessedTyped ==
    ASSUME NEW mm, WellFormed(mm), NEW t \in Tokens(mm)
    PROVE  epsilonProcessed(mm, t) \subseteq Tokens(mm)
  <1> DEFINE opt == mm.nfaopts[t.cstate]
  <1>1. t.cstate \in States(mm)
    BY TokenFields
  <1>2. CASE opt.tag \in {"AnyOf", "Star"}
    <2>1. \A f \in (IF opt.tag = "AnyOf" THEN opt.follows
                    ELSE {opt.matchfollow, opt.skipfollow}) : f \in States(mm)
      BY <1>1, <1>2 DEF WellFormed, AnyOfOptOK, StarOptOK
    <2>2. branch(mm, t) \subseteq Tokens(mm)
      BY <2>1, MoveTyped DEF branch
    <2> QED
      BY <1>2, <2>2 DEF epsilonProcessed
  <1>3. CASE opt.tag \notin {"AnyOf", "Star", "RangeK"}
    BY <1>3 DEF epsilonProcessed
  <1>4. CASE opt.tag = "RangeK"
    <2>1. opt.infollow \in States(mm) /\ opt.outfollow \in States(mm)
      BY <1>1, <1>4 DEF WellFormed, RangeKOptOK
    <2>2. skipRange(mm, t) \subseteq Tokens(mm)
      BY <2>1, MoveTyped DEF skipRange
    <2>3. CASE t.kind = "simple"
      BY <1>4, <2>2, <2>3 DEF epsilonProcessed
    <2>4. CASE t.kind # "simple" /\ t.range = t.cstate
      <3>1. saturateNFATokenIncrement(t.count) \in 1..UINT16_MAX
        BY <2>4, TokenFields, WidthAssumption DEF saturateNFATokenIncrement
      <3>2. Single(opt.infollow, t.range, saturateNFATokenIncrement(t.count)) \in Tokens(mm)
        BY <1>1, <2>1, <2>4, <3>1 DEF Single, Tokens, SingleTokens
      <3>3. Simple(opt.outfollow) \in Tokens(mm)
        BY <2>1 DEF Simple, Tokens, SimpleTokens
      <3>4. repeatRange(mm, t) \subseteq Tokens(mm)
        BY <3>2, <3>3 DEF repeatRange
      <3> QED
        BY <1>4, <2>4, <3>4 DEF epsilonProcessed
    <2>5. CASE t.kind # "simple" /\ t.range # t.cstate
      <3>1. Full(opt.infollow, t.range, t.count, t.cstate) \in Tokens(mm)
        BY <1>1, <2>1, <2>5, TokenFields DEF Full, Tokens, FullTokens
      <3>2. nestRange(mm, t) \subseteq Tokens(mm)
        BY <2>2, <3>1 DEF nestRange
      <3> QED
        BY <1>4, <2>5, <3>2 DEF epsilonProcessed
    <2> QED
      BY <2>3, <2>4, <2>5
  <1> QED
    BY <1>2, <1>3, <1>4

-----------------------------------------------------------------------------
(* The least set of tokens that holds X and is closed under epsilon steps, *)
(* and what epsilonReach computes.                                         *)

closedOver(mm, X) == {Y \in SUBSET Tokens(mm) : X \subseteq Y /\ grow(mm, Y) = Y}
least(mm, X) == {t \in Tokens(mm) : \A Y \in closedOver(mm, X) : t \in Y}

LEMMA GrowTyped ==
    ASSUME NEW mm, WellFormed(mm), NEW Y \in SUBSET Tokens(mm)
    PROVE  /\ grow(mm, Y) \in SUBSET Tokens(mm)
           /\ Y \subseteq grow(mm, Y)
  <1>1. \A t \in Y : epsilonOnly(mm, epsilonProcessed(mm, t)) \subseteq Tokens(mm)
    BY ProcessedTyped DEF epsilonOnly
  <1> QED
    BY <1>1 DEF grow

LEMMA GrowMonotone ==
    ASSUME NEW mm, NEW Y, NEW Z, Y \subseteq Z
    PROVE  grow(mm, Y) \subseteq grow(mm, Z)
  BY DEF grow

(* A closed set is its own answer, and a step towards it changes nothing. *)
LEMMA LeastOfClosed ==
    ASSUME NEW mm, NEW Y \in SUBSET Tokens(mm), grow(mm, Y) = Y
    PROVE  least(mm, Y) = Y
  BY DEF least, closedOver

LEMMA LeastOfGrown ==
    ASSUME NEW mm, WellFormed(mm), NEW Y \in SUBSET Tokens(mm)
    PROVE  least(mm, grow(mm, Y)) = least(mm, Y)
  <1>1. ASSUME NEW Z \in SUBSET Tokens(mm), grow(mm, Z) = Z
        PROVE  Y \subseteq Z <=> grow(mm, Y) \subseteq Z
    <2>1. Y \subseteq grow(mm, Y)
      BY GrowTyped
    <2>2. Y \subseteq Z => grow(mm, Y) \subseteq grow(mm, Z)
      BY GrowMonotone
    <2> QED
      BY <1>1, <2>1, <2>2
  <1>2. closedOver(mm, Y) = closedOver(mm, grow(mm, Y))
    BY <1>1 DEF closedOver
  <1> QED
    BY <1>2 DEF least

(* What the recursion of epsilonReach asks of a function. *)
isReach(mm, f) ==
    f = [Y \in SUBSET Tokens(mm) |-> IF grow(mm, Y) = Y THEN Y ELSE f[grow(mm, Y)]]

LEMMA LeastIsReach ==
    ASSUME NEW mm, WellFormed(mm)
    PROVE  isReach(mm, [Y \in SUBSET Tokens(mm) |-> least(mm, Y)])
  <1> DEFINE f == [Y \in SUBSET Tokens(mm) |-> least(mm, Y)]
             g == [Y \in SUBSET Tokens(mm) |-> IF grow(mm, Y) = Y THEN Y ELSE f[grow(mm, Y)]]
  <1>1. ASSUME NEW Y \in SUBSET Tokens(mm)
        PROVE  f[Y] = g[Y]
    <2>1. CASE grow(mm, Y) = Y
      BY <2>1, LeastOfClosed
    <2>2. CASE grow(mm, Y) # Y
      <3>1. grow(mm, Y) \in SUBSET Tokens(mm)
        BY GrowTyped
      <3>2. g[Y] = least(mm, grow(mm, Y))
        BY <2>2, <3>1
      <3> QED
        BY <3>2, LeastOfGrown
    <2> QED
      BY <2>1, <2>2
  <1>2. f = g
    BY <1>1
  <1> QED
    BY <1>2 DEF isReach

LEMMA ReachIsLeast ==
    ASSUME NEW mm, WellFormed(mm), NEW f, isReach(mm, f), NEW X \in SUBSET Tokens(mm)
    PROVE  f[X] = least(mm, X)
  <1> DEFINE S    == Tokens(mm)
             rest == {S \ Y : Y \in {Z \in SUBSET S : f[Z] # least(mm, Z)}}
  <1>1. SUFFICES ASSUME f[X] # least(mm, X)
                 PROVE  FALSE
    OBVIOUS
  <1>2. IsFiniteSet(S)
    BY TokensFinite DEF WellFormed
  <1>3. IsWellFoundedOn(StrictSubsetOrdering(S), SUBSET S)
    BY <1>2, FS_StrictSubsetOrderingWellFounded, FS_FiniteSubsetsOfFinite
  <1>4. rest \subseteq SUBSET S /\ rest # {}
    BY <1>1
  <1>5. PICK R \in rest : \A Q \in rest : <<Q, R>> \notin StrictSubsetOrdering(S)
    <2> HIDE DEF rest, S
    <2> QED
      BY <1>3, <1>4, WFMin
  <1>6. PICK Y \in SUBSET S : f[Y] # least(mm, Y) /\ R = S \ Y
    BY <1>5
  <1>7. f[Y] = IF grow(mm, Y) = Y THEN Y ELSE f[grow(mm, Y)]
    BY DEF isReach
  <1>8. grow(mm, Y) # Y
    BY <1>6, <1>7, LeastOfClosed
  <1>9. grow(mm, Y) \in SUBSET S /\ Y \subseteq grow(mm, Y)
    BY GrowTyped
  <1>10. <<S \ grow(mm, Y), R>> \in StrictSubsetOrdering(S)
    BY <1>6, <1>8, <1>9 DEF StrictSubsetOrdering
  <1>11. f[grow(mm, Y)] = least(mm, grow(mm, Y))
    BY <1>5, <1>9, <1>10
  <1> QED
    BY <1>6, <1>7, <1>8, <1>11, LeastOfGrown

LEMMA EpsilonReachIsLeast ==
    ASSUME NEW mm, WellFormed(mm), NEW X \in SUBSET Tokens(mm)
    PROVE  epsilonReach(mm, X) = least(mm, X)
  <1> DEFINE reach == CHOOSE f : isReach(mm, f)
  <1>1. isReach(mm, reach)
    BY LeastIsReach
  <1>2. epsilonReach(mm, X) = reach[X]
    BY DEF epsilonReach, isReach
  <1> HIDE DEF reach
  <1> QED
    BY <1>1, <1>2, ReachIsLeast

LEMMA LeastHoldsItsSeeds ==
    ASSUME NEW mm, NEW X \in SUBSET Tokens(mm)
    PROVE  X \subseteq least(mm, X)
  BY DEF least, closedOver

LEMMA LeastIsClosed ==
    ASSUME NEW mm, WellFormed(mm), NEW X, NEW t \in least(mm, X)
    PROVE  epsilonOnly(mm, epsilonProcessed(mm, t)) \subseteq least(mm, X)
  <1> SUFFICES ASSUME NEW u \in epsilonOnly(mm, epsilonProcessed(mm, t))
               PROVE  u \in least(mm, X)
    OBVIOUS
  <1>1. t \in Tokens(mm)
    BY DEF least
  <1>2. u \in Tokens(mm)
    BY <1>1, ProcessedTyped DEF epsilonOnly
  <1>3. ASSUME NEW Y \in closedOver(mm, X) PROVE u \in Y
    <2>1. t \in Y /\ grow(mm, Y) = Y
      BY DEF least, closedOver
    <2> QED
      BY <2>1 DEF grow
  <1> QED
    BY <1>2, <1>3 DEF least

-----------------------------------------------------------------------------
(* What run asks of a function, and the one that has it. *)

isAfter(mm, w, n, f) ==
    f = [i \in 0..n |-> IF i = 0 THEN initialState(mm) ELSE nextState(mm, w[i], f[i - 1])]

LEMMA LeastIndex ==
    ASSUME NEW S \in SUBSET Nat, S # {}
    PROVE  \E i \in S : \A j \in S : i <= j
  <1>1. PICK i \in S : \A j \in S : ~(<<j, i>> \in OpToRel(<, Nat))
    BY NatLessThanWellFounded, WFMin
  <1>2. \A j \in S : ~(j < i)
    BY <1>1, Zenon DEF OpToRel
  <1> QED
    BY <1>2

LEMMA AfterExists ==
    ASSUME NEW mm, NEW w, NEW n \in Nat
    PROVE  \E f : isAfter(mm, w, n, f)
  <1> DEFINE Bad == {k \in Nat : ~\E f : isAfter(mm, w, k, f)}
  <1>1. SUFFICES ASSUME Bad # {}
                 PROVE  FALSE
    OBVIOUS
  <1>2. PICK k \in Bad : \A j \in Bad : k <= j
    <2> HIDE DEF Bad
    <2>1. Bad \in SUBSET Nat
      BY DEF Bad
    <2> QED
      BY <1>1, <2>1, LeastIndex
  <1>3. k # 0
    <2>1. isAfter(mm, w, 0, [i \in 0..0 |-> initialState(mm)])
      BY DEF isAfter
    <2> QED
      BY <2>1
  <1>4. k - 1 \in Nat /\ k - 1 \notin Bad
    BY <1>2, <1>3
  <1>5. PICK f : isAfter(mm, w, k - 1, f)
    BY <1>4
  <1> DEFINE g == [i \in 0..k |-> IF i = k THEN nextState(mm, w[k], f[k - 1]) ELSE f[i]]
  <1>6. isAfter(mm, w, k, g)
    <2>1. ASSUME NEW i \in 0..k
          PROVE  g[i] = IF i = 0 THEN initialState(mm) ELSE nextState(mm, w[i], g[i - 1])
      <3>1. CASE i = k
        BY <1>3, <1>4, <3>1
      <3>2. CASE i # k
        <4>1. i \in 0 .. k - 1 /\ g[i] = f[i]
          BY <3>2, <1>4
        <4>2. f[i] = IF i = 0 THEN initialState(mm) ELSE nextState(mm, w[i], f[i - 1])
          BY <1>5, <4>1 DEF isAfter
        <4>3. i # 0 => i - 1 \in 0..k /\ i - 1 # k /\ g[i - 1] = f[i - 1]
          BY <4>1
        <4> QED
          BY <4>1, <4>2, <4>3
      <3> QED
        BY <3>1, <3>2
    <2>2. g = [i \in 0..k |-> IF i = 0 THEN initialState(mm) ELSE nextState(mm, w[i], g[i - 1])]
      BY <2>1
    <2> QED
      BY <2>2 DEF isAfter
  <1> QED
    BY <1>6

(* Two words that agree on their first k letters lead to the same tokens. *)
LEMMA AfterAgrees ==
    ASSUME NEW mm, NEW w, NEW n \in Nat, NEW f, isAfter(mm, w, n, f),
           NEW v, NEW p \in Nat, NEW g, isAfter(mm, v, p, g),
           NEW k \in Nat, k <= n, k <= p, \A i \in 1..k : w[i] = v[i]
    PROVE  f[k] = g[k]
  <1> DEFINE Bad == {i \in 0..k : f[i] # g[i]}
  <1>1. SUFFICES ASSUME Bad # {}
                 PROVE  FALSE
    OBVIOUS
  <1>2. PICK i \in Bad : \A j \in Bad : i <= j
    <2> HIDE DEF Bad
    <2>1. Bad \in SUBSET Nat
      BY DEF Bad
    <2> QED
      BY <1>1, <2>1, LeastIndex
  <1>3. /\ f[i] = IF i = 0 THEN initialState(mm) ELSE nextState(mm, w[i], f[i - 1])
        /\ g[i] = IF i = 0 THEN initialState(mm) ELSE nextState(mm, v[i], g[i - 1])
    BY <1>2 DEF isAfter
  <1>4. i \in 1..k /\ i - 1 \in 0..k
    BY <1>2, <1>3
  <1>5. f[i - 1] = g[i - 1]
    BY <1>2, <1>4
  <1> QED
    BY <1>2, <1>3, <1>4, <1>5

LEMMA RunIsAfter ==
    ASSUME NEW mm, NEW w, Len(w) \in Nat
    PROVE  \E f : isAfter(mm, w, Len(w), f) /\ run(mm, w) = f[Len(w)]
  <1> DEFINE after == CHOOSE f : isAfter(mm, w, Len(w), f)
  <1>1. isAfter(mm, w, Len(w), after)
    BY AfterExists
  <1>2. run(mm, w) = after[Len(w)]
    BY DEF run, isAfter
  <1> HIDE DEF after
  <1> QED
    BY <1>1, <1>2

(* No letter, and one letter more. *)
LEMMA RunEmpty ==
    ASSUME NEW mm, NEW w, Len(w) = 0
    PROVE  run(mm, w) = initialState(mm)
  BY RunIsAfter DEF isAfter

LEMMA RunStep ==
    ASSUME NEW mm, NEW v, Len(v) \in Nat, NEW w, Len(w) = Len(v) + 1,
           \A i \in 1..Len(v) : w[i] = v[i]
    PROVE  run(mm, w) = nextState(mm, w[Len(w)], run(mm, v))
  <1>1. PICK f : isAfter(mm, w, Len(w), f) /\ run(mm, w) = f[Len(w)]
    BY RunIsAfter
  <1>2. PICK g : isAfter(mm, v, Len(v), g) /\ run(mm, v) = g[Len(v)]
    BY RunIsAfter
  <1>3. f[Len(v)] = g[Len(v)]
    <2> DEFINE n == Len(w)
               p == Len(v)
    <2>1. n \in Nat /\ p \in Nat /\ p <= n /\ p <= p
      OBVIOUS
    <2>2. isAfter(mm, w, n, f) /\ isAfter(mm, v, p, g) /\ \A i \in 1..p : w[i] = v[i]
      BY <1>1, <1>2
    <2> HIDE DEF n, p
    <2>3. f[p] = g[p]
      BY <2>1, <2>2, AfterAgrees
    <2> QED
      BY <2>3 DEF p
  <1>4. f[Len(w)] = nextState(mm, w[Len(w)], f[Len(w) - 1])
    BY <1>1 DEF isAfter
  <1> QED
    BY <1>1, <1>2, <1>3, <1>4

(* From no tokens none follow. *)
LEMMA NoneFromNone ==
    ASSUME NEW mm, WellFormed(mm), NEW c
    PROVE  nextState(mm, c, {}) = {}
  <1>1. epsilonReach(mm, {}) = least(mm, {})
    BY EpsilonReachIsLeast
  <1>2. grow(mm, {}) = {}
    BY DEF grow
  <1>3. least(mm, {}) = {}
    BY <1>2, LeastOfClosed
  <1>4. advanceChar(mm, c, {}) = {} /\ epsilonOnly(mm, {}) = {} /\ concreteOnly(mm, {}) = {}
    BY DEF advanceChar, epsilonOnly, concreteOnly
  <1> QED
    BY <1>1, <1>3, <1>4 DEF nextState, epsilonClosure

=============================================================================
