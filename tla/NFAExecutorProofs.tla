-------------------------- MODULE NFAExecutorProofs --------------------------
(***************************************************************************)
(* Proofs about the loops of NFAExecutor over a CRegexIterator, in both    *)
(* directions, for every executor whose machines accept its language: the  *)
(* three tests and the two lists of matches answer what the language says. *)
(***************************************************************************)
EXTENDS NFAExecutor, NFAClosureProofs

-----------------------------------------------------------------------------
(* What is assumed: the executors over chars were compiled right.          *)
MachinesAreRight == \A e \in Executors : ~e.unicode => CompiledRight(e, Asked(e))

-----------------------------------------------------------------------------
(* The part of the interval read after k rounds, the word the machine has  *)
(* read by then, and the tokens it has to be left with.                    *)

backwards == op \in ReverseOps
size == epos - spos + 1
count == IF backwards THEN epos - curr ELSE curr - spos
letter(k) == IF backwards THEN sstr[epos + 2 - k] ELSE sstr[spos + k]
part(k) == IF backwards THEN word(epos - k + 1, epos) ELSE word(spos, spos + k - 1)
readAs(k) == IF backwards THEN Reverse(part(k)) ELSE part(k)
tokensAfter(k) == run(machine, readAs(k))

(* A call that is allowed, on the machine for it. *)
Called ==
    /\ m = machineFor(op)
    /\ ex \in Executors /\ ~ex.unicode
    /\ <<op, sstr, spos, epos>> \in Asked(ex)

(* An allowed call is about an interval of its string. *)
LEMMA CallFacts ==
    ASSUME MachinesAreRight, Called
    PROVE  /\ op \in Ops /\ sstr \in Seq(Chars) /\ spos \in Nat /\ epos \in Int
           /\ spos <= epos + 1 /\ epos < Len(sstr) /\ size \in Nat
           /\ WellFormed(machine)
  <1> DEFINE c == <<op, sstr, spos, epos>>
  <1>1. /\ c \in Ops \X Seq(Chars) \X Nat \X Int /\ inString(c)
        /\ WellFormed(ex.forward) /\ WellFormed(ex.reverse)
    BY DEF MachinesAreRight, CompiledRight, Called
  <1>2. c[1] = op /\ c[2] = sstr /\ c[3] = spos /\ c[4] = epos
    OBVIOUS
  <1> HIDE DEF c
  <1>3. WellFormed(machine)
    BY <1>1 DEF Called, machine, machineFor
  <1> QED
    BY <1>1, <1>2, <1>3 DEF inString, size

(* What is read, letter by letter, in either direction. *)
LEMMA PartsAreWords ==
    ASSUME MachinesAreRight, Called, NEW k \in 0..size
    PROVE  /\ Len(part(k)) = k
           /\ Len(readAs(k)) = k
           /\ \A i \in 1..k : readAs(k)[i] = letter(i)
  <1>1. /\ sstr \in Seq(Chars) /\ spos \in Nat /\ epos \in Int
        /\ spos <= epos + 1 /\ epos < Len(sstr) /\ size \in Nat
        /\ Len(sstr) \in Nat /\ \A i \in 1..Len(sstr) : sstr[i] \in Chars
    BY CallFacts
  <1>2. CASE backwards
    <2> DEFINE a == epos - k + 2
               b == epos + 1
    <2>1. part(k) = SubSeq(sstr, a, b)
      BY <1>1, <1>2 DEF part, word
    <2>2. a \in Int /\ b \in Int /\ \A i \in a..b : sstr[i] \in Chars
      BY <1>1 DEF size
    <2>3. /\ Len(SubSeq(sstr, a, b)) = IF a <= b THEN b - a + 1 ELSE 0
          /\ \A i \in 1 .. b - a + 1 : SubSeq(sstr, a, b)[i] = sstr[a + i - 1]
      <3> HIDE DEF a, b
      <3> QED
        BY <2>2, SubSeqProperties
    <2>4. Len(part(k)) = k
      BY <1>1, <2>1, <2>3
    <2>5. readAs(k) = [i \in 1..k |-> part(k)[k - i + 1]]
      BY <1>2, <2>4 DEF readAs, Reverse
    <2>6. ASSUME NEW i \in 1..k
          PROVE  readAs(k)[i] = letter(i)
      <3>1. k - i + 1 \in 1 .. b - a + 1
        BY <1>1
      <3>2. part(k)[k - i + 1] = sstr[a + (k - i + 1) - 1]
        BY <2>1, <2>3, <3>1
      <3>3. a + (k - i + 1) - 1 = epos + 2 - i
        BY <1>1
      <3> QED
        BY <1>2, <2>5, <3>2, <3>3 DEF letter
    <2>7. Len(readAs(k)) = k
      BY <2>5
    <2> QED
      BY <2>4, <2>6, <2>7
  <1>3. CASE ~backwards
    <2> DEFINE a == spos + 1
               b == spos + k
    <2>1. part(k) = SubSeq(sstr, a, b) /\ readAs(k) = part(k)
      <3>1. (spos + k - 1) + 1 = spos + k
        BY <1>1
      <3> QED
        BY <1>3, <3>1 DEF part, readAs, word
    <2>2. a \in Int /\ b \in Int /\ \A i \in a..b : sstr[i] \in Chars
      BY <1>1 DEF size
    <2>3. /\ Len(SubSeq(sstr, a, b)) = IF a <= b THEN b - a + 1 ELSE 0
          /\ \A i \in 1 .. b - a + 1 : SubSeq(sstr, a, b)[i] = sstr[a + i - 1]
      <3> HIDE DEF a, b
      <3> QED
        BY <2>2, SubSeqProperties
    <2>4. Len(part(k)) = k
      BY <1>1, <2>1, <2>3
    <2>5. ASSUME NEW i \in 1..k
          PROVE  readAs(k)[i] = letter(i)
      <3>1. i \in 1 .. b - a + 1 /\ a + i - 1 = spos + i
        BY <1>1
      <3> QED
        BY <1>3, <2>1, <2>3, <3>1 DEF letter
    <2> QED
      BY <2>1, <2>4, <2>5
  <1> QED
    BY <1>2, <1>3

(* The tokens follow from each other, and none follow from none. *)
LEMMA TokensFirst ==
    ASSUME MachinesAreRight, Called
    PROVE  tokensAfter(0) = initialState(machine)
  <1>1. 0 \in 0..size
    BY CallFacts
  <1>2. Len(readAs(0)) = 0
    BY <1>1, PartsAreWords
  <1> QED
    BY <1>2, RunEmpty DEF tokensAfter

LEMMA TokensNext ==
    ASSUME MachinesAreRight, Called, NEW k \in Nat, k < size
    PROVE  tokensAfter(k + 1) = nextState(machine, letter(k + 1), tokensAfter(k))
  <1>1. k \in 0..size /\ k + 1 \in 0..size
    BY CallFacts
  <1>2. /\ Len(readAs(k)) = k /\ \A i \in 1..k : readAs(k)[i] = letter(i)
        /\ Len(readAs(k + 1)) = k + 1
        /\ \A i \in 1 .. k + 1 : readAs(k + 1)[i] = letter(i)
    BY <1>1, PartsAreWords
  <1> DEFINE v == readAs(k)
             w == readAs(k + 1)
  <1>3. /\ Len(v) \in Nat /\ Len(w) = Len(v) + 1 /\ w[Len(w)] = letter(k + 1)
        /\ \A i \in 1..Len(v) : w[i] = v[i]
    BY <1>2
  <1> HIDE DEF v, w
  <1>4. run(machine, w) = nextState(machine, w[Len(w)], run(machine, v))
    BY <1>3, RunStep
  <1> QED
    BY <1>3, <1>4 DEF tokensAfter, v, w

LEMMA TokensStayNone ==
    ASSUME MachinesAreRight, Called, NEW k \in 0..size, tokensAfter(k) = {},
           NEW n \in k..size
    PROVE  tokensAfter(n) = {}
  <1> DEFINE Bad == {i \in k..size : tokensAfter(i) # {}}
  <1>1. SUFFICES ASSUME Bad # {}
                 PROVE  FALSE
    OBVIOUS
  <1>2. size \in Nat /\ WellFormed(machine)
    BY CallFacts
  <1>3. PICK i \in Bad : \A j \in Bad : i <= j
    <2>1. Bad \in SUBSET Nat
      BY <1>2
    <2> HIDE DEF Bad
    <2> QED
      BY <1>1, <2>1, LeastIndex
  <1>4. i \in k..size /\ i # k /\ tokensAfter(i) # {}
    BY <1>3
  <1>5. i - 1 \in Nat /\ i - 1 < size /\ (i - 1) + 1 = i /\ i - 1 \in k..size
    BY <1>2, <1>4
  <1>6. tokensAfter(i - 1) = {}
    BY <1>3, <1>5
  <1>7. tokensAfter(i) = nextState(machine, letter(i), tokensAfter(i - 1))
    BY <1>5, TokensNext
  <1> QED
    BY <1>2, <1>4, <1>6, <1>7, NoneFromNone

(* What the machine answers after k rounds. *)
hit(k) == inAccepted(machine, tokensAfter(k))

LEMMA HitIsMembership ==
    ASSUME MachinesAreRight, Called, NEW k \in 0..size
    PROVE  hit(k) <=> part(k) \in ex.lang
  <1> DEFINE c == <<op, sstr, spos, epos>>
             i == IF backwards THEN epos - k + 2 ELSE spos + 1
             j == IF backwards THEN epos + 1 ELSE spos + k
  <1>1. /\ sstr \in Seq(Chars) /\ spos \in Nat /\ epos \in Int
        /\ spos <= epos + 1 /\ size \in Nat
    BY CallFacts
  <1>2. part(k) = SubSeq(sstr, i, j)
    BY <1>1 DEF part, word
  <1>3. i \in spos + 1 .. epos + 2 /\ j \in spos .. epos + 1
    BY <1>1 DEF size
  <1>4. c \in Asked(ex) /\ c[2] = sstr /\ c[3] = spos /\ c[4] = epos
    BY DEF Called
  <1>5. part(k) \in askedWords(Asked(ex))
    <2> HIDE DEF c, i, j
    <2> QED
      BY <1>2, <1>3, <1>4 DEF askedWords
  <1>6. /\ part(k) \in ex.lang <=> accepts(ex.forward, part(k))
        /\ part(k) \in ex.lang <=> accepts(ex.reverse, Reverse(part(k)))
    BY <1>5 DEF MachinesAreRight, CompiledRight, Called
  <1> QED
    BY <1>6 DEF hit, tokensAfter, readAs, accepts, Called, machine, machineFor, backwards

(* Why the loops may stop when no token is left. *)
LEMMA NoneIsNoHit ==
    ASSUME MachinesAreRight, Called, NEW k \in 0..size, tokensAfter(k) = {},
           NEW n \in k..size
    PROVE  ~hit(n)
  BY TokensStayNone DEF hit, inAccepted

-----------------------------------------------------------------------------
(* The inductive invariant. *)

(* The position matchForward and matchReverse push in round k, and the     *)
(* order in which positions are met.                                       *)
pushed(k) == IF backwards THEN epos - k + 1 ELSE spos + k - 1
before(x, y) == IF backwards THEN x > y ELSE x < y
ListsHits(n) ==
    /\ matches \in Seq(Int)
    /\ \A i, j \in DOMAIN matches : i < j => before(matches[i], matches[j])
    /\ \A p \in Int : (\E i \in DOMAIN matches : matches[i] = p)
                      <=> (\E k \in 1..n : hit(k) /\ p = pushed(k))

Looping ==
    /\ curr \in Int /\ count \in 0..size
    /\ cstates = tokensAfter(count)
    /\ op \in matchTestOps => \A k \in 0..size : k < count => ~hit(k)
    /\ op \in matchOps => ListsHits(count)

Answered ==
    /\ op = "test" => result = hit(size)
    /\ op \in matchTestOps => result = \E k \in 0..size : hit(k)
    /\ op \in matchOps => ListsHits(size)

IInv ==
    /\ ex \in Executors
    /\ pc \in {"idle", "loop", "done"}
    /\ ~ex.unicode /\ pc # "idle" => Called
    /\ ~ex.unicode /\ pc = "loop" => Looping
    /\ ~ex.unicode /\ pc = "done" => Answered

(* The call, and with it the tokens due after each round, stay. *)
LEMMA SameCall ==
    ASSUME UNCHANGED <<ex, m, op, sstr, spos, epos>>
    PROVE  /\ Called' <=> Called
           /\ size' = size /\ backwards' = backwards /\ machine' = machine
           /\ \A k : tokensAfter(k)' = tokensAfter(k)
           /\ \A k : hit(k)' = hit(k)
           /\ \A k : pushed(k)' = pushed(k)
           /\ \A x, y : before(x, y)' = before(x, y)
  <1>1. backwards' = backwards /\ machine' = machine /\ size' = size /\ (Called' <=> Called)
    BY DEF backwards, machine, machineFor, size, Called
  <1>2. \A k : readAs(k)' = readAs(k)
    BY <1>1 DEF readAs, part, word
  <1>3. \A k : tokensAfter(k)' = tokensAfter(k)
    BY <1>1, <1>2 DEF tokensAfter
  <1>4. \A k : hit(k)' = hit(k)
    BY <1>1, <1>3 DEF hit
  <1>5. \A k : pushed(k)' = pushed(k)
    BY <1>1 DEF pushed
  <1>6. \A x, y : before(x, y)' = before(x, y)
    BY <1>1 DEF before
  <1> QED
    BY <1>1, <1>3, <1>4, <1>5, <1>6

LEMMA SameMatches ==
    ASSUME UNCHANGED <<ex, m, op, sstr, spos, epos, matches>>, NEW n, ListsHits(n)
    PROVE  ListsHits(n)'
  BY SameCall DEF ListsHits

(* Where the iterator is, and what it gives. *)
LEMMA Position ==
    ASSUME MachinesAreRight, Called, curr \in Int, count \in 0..size
    PROVE  /\ count \in Nat /\ size \in Nat
           /\ valid <=> count < size
           /\ count < size => get = letter(count + 1)
           /\ count < size => curr = pushed(count + 1)
           /\ backwards => dec = curr - 1 /\ epos - (curr - 1) = count + 1
           /\ ~backwards => inc = curr + 1 /\ (curr + 1) - spos = count + 1
  <1>1. /\ spos \in Nat /\ epos \in Int /\ spos <= epos + 1 /\ size \in Nat /\ ~ex.unicode
        /\ size = epos - spos + 1
    BY CallFacts DEF Called, size
  <1>2. count \in Nat /\ count <= size
    BY <1>1
  <1>3. CASE backwards
    <2>1. count = epos - curr
      BY <1>3 DEF count
    <2>2. curr + 1 = epos + 2 - (count + 1) /\ curr = epos - (count + 1) + 1
      BY <1>1, <2>1
    <2>3. valid <=> count < size
      BY <1>1, <1>2, <2>1 DEF valid
    <2> QED
      BY <1>1, <1>2, <1>3, <2>1, <2>2, <2>3 DEF get, letter, pushed, dec
  <1>4. CASE ~backwards
    <2>1. count = curr - spos
      BY <1>4 DEF count
    <2>2. curr + 1 = spos + (count + 1) /\ curr = spos + (count + 1) - 1
      BY <1>1, <2>1
    <2>3. valid <=> count < size
      BY <1>1, <1>2, <2>1 DEF valid
    <2> QED
      BY <1>1, <1>2, <1>4, <2>1, <2>2, <2>3 DEF get, letter, pushed, inc
  <1> QED
    BY <1>3, <1>4

(* One more round. *)
LEMMA Advances ==
    ASSUME MachinesAreRight, Called, curr \in Int, count \in 0..size,
           cstates = tokensAfter(count), valid, runStep, advance,
           UNCHANGED <<ex, m, op, sstr, spos, epos>>
    PROVE  /\ count \in Nat /\ count < size
           /\ curr' \in Int /\ count' = count + 1 /\ count' \in 0..size'
           /\ cstates' = tokensAfter(count + 1) /\ cstates' = tokensAfter(count)'
  <1>1. /\ size' = size /\ backwards' = backwards
        /\ \A k : tokensAfter(k)' = tokensAfter(k)
    BY SameCall
  <1>2. /\ count \in Nat /\ size \in Nat /\ count < size /\ get = letter(count + 1)
        /\ backwards => dec = curr - 1 /\ epos - (curr - 1) = count + 1
        /\ ~backwards => inc = curr + 1 /\ (curr + 1) - spos = count + 1
    BY Position
  <1>3. cstates' = tokensAfter(count + 1)
    BY <1>2, TokensNext DEF runStep
  <1>4. /\ curr' = IF backwards THEN curr - 1 ELSE curr + 1
        /\ count' = IF backwards THEN epos - curr' ELSE curr' - spos
    BY <1>1, <1>2 DEF advance, backwards, count
  <1>5. curr' \in Int /\ count' = count + 1
    BY <1>2, <1>4
  <1>6. tokensAfter(count)' = tokensAfter(count + 1)
    BY <1>1, <1>5
  <1> QED
    BY <1>1, <1>2, <1>3, <1>5, <1>6

(* What the loops of matchForward and matchReverse push in one round. *)
LEMMA ListGrows ==
    ASSUME MachinesAreRight, Called, NEW n \in Nat, n < size, ListsHits(n),
           UNCHANGED <<ex, m, op, sstr, spos, epos>>,
           matches' = IF hit(n + 1) THEN Append(matches, pushed(n + 1)) ELSE matches
    PROVE  ListsHits(n + 1)'
  <1>1. /\ \A k : hit(k)' = hit(k) /\ pushed(k)' = pushed(k)
        /\ \A x, y : before(x, y)' = before(x, y)
    BY SameCall
  <1>2. /\ matches \in Seq(Int) /\ Len(matches) \in Nat
        /\ DOMAIN matches = 1..Len(matches)
        /\ \A i \in 1..Len(matches) : matches[i] \in Int
        /\ \A i, j \in DOMAIN matches : i < j => before(matches[i], matches[j])
        /\ \A p \in Int : (\E i \in DOMAIN matches : matches[i] = p)
                          <=> (\E k \in 1..n : hit(k) /\ p = pushed(k))
    BY DEF ListsHits
  <1>3. /\ spos \in Nat /\ epos \in Int
        /\ \A k \in Int : pushed(k) \in Int
        /\ \A k \in 1..n : before(pushed(k), pushed(n + 1))
    <2>1. spos \in Nat /\ epos \in Int
      BY CallFacts
    <2> QED
      BY <2>1 DEF pushed, before
  <1>4. \A k \in 1 .. n + 1 : k \in 1..n \/ k = n + 1
    OBVIOUS
  <1>5. CASE ~hit(n + 1)
    <2>1. matches' = matches
      BY <1>5
    <2>2. ASSUME NEW p \in Int
          PROVE  (\E k \in 1..n : hit(k) /\ p = pushed(k))
                 <=> (\E k \in 1 .. n + 1 : hit(k) /\ p = pushed(k))
      <3>1. \A k \in 1..n : k \in 1 .. n + 1
        OBVIOUS
      <3> QED
        BY <1>4, <1>5, <3>1
    <2> QED
      BY <1>1, <1>2, <2>1, <2>2 DEF ListsHits
  <1>6. CASE hit(n + 1)
    <2> DEFINE q == pushed(n + 1)
               l == Len(matches)
    <2>1. /\ matches' \in Seq(Int) /\ Len(matches') = l + 1 /\ DOMAIN matches' = 1 .. l + 1
          /\ matches'[l + 1] = q /\ \A i \in 1..l : matches'[i] = matches[i]
      BY <1>2, <1>3, <1>6
    <2>2. /\ l \in Nat /\ \A i \in 1 .. l + 1 : i \in 1..l \/ i = l + 1
          /\ \A i \in 1..l : i \in 1 .. l + 1
          /\ \A i, j \in 1 .. l + 1 : i < j => i \in 1..l
      BY <1>2
    <2>3. ASSUME NEW i \in 1 .. l + 1, NEW j \in 1 .. l + 1, i < j
          PROVE  before(matches'[i], matches'[j])
      <3>1. i \in 1..l /\ matches'[i] = matches[i]
        BY <2>1, <2>2, <2>3
      <3>2. CASE j \in 1..l
        BY <1>2, <2>1, <2>3, <3>1, <3>2
      <3>3. CASE j = l + 1
        <4>1. PICK k \in 1..n : matches[i] = pushed(k)
          BY <1>2, <3>1
        <4> QED
          BY <1>3, <2>1, <3>1, <3>3, <4>1
      <3> QED
        BY <2>2, <3>2, <3>3
    <2>4. ASSUME NEW p \in Int
          PROVE  (\E i \in 1 .. l + 1 : matches'[i] = p)
                 <=> (\E k \in 1 .. n + 1 : hit(k) /\ p = pushed(k))
      <3>1. (\E i \in 1 .. l + 1 : matches'[i] = p)
            <=> (\E i \in 1..l : matches[i] = p) \/ q = p
        <4>1. l + 1 \in 1 .. l + 1
          BY <2>2
        <4> QED
          BY <2>1, <2>2, <4>1
      <3>2. (\E k \in 1 .. n + 1 : hit(k) /\ p = pushed(k))
            <=> (\E k \in 1..n : hit(k) /\ p = pushed(k)) \/ p = q
        <4>1. n + 1 \in 1 .. n + 1 /\ \A k \in 1..n : k \in 1 .. n + 1
          OBVIOUS
        <4> QED
          BY <1>4, <1>6, <4>1
      <3> QED
        BY <1>2, <3>1, <3>2
    <2> QED
      BY <1>1, <2>1, <2>3, <2>4 DEF ListsHits
  <1> QED
    BY <1>5, <1>6

-----------------------------------------------------------------------------
(* The steps of a call over chars, one by one. *)

(* Where the loops stop: at the end of the interval, or with no tokens. *)
LEMMA AtTheEnd ==
    ASSUME MachinesAreRight, Called, Looping
    PROVE  /\ accepted <=> hit(count)
           /\ ~valid => count = size
           /\ rejected => \A k \in 0..size : count <= k => ~hit(k)
  <1>1. accepted <=> hit(count)
    BY DEF Looping, accepted, hit
  <1>2. ~valid => count = size
    BY Position DEF Looping
  <1>3. ASSUME rejected, NEW k \in 0..size, count <= k
        PROVE  ~hit(k)
    <2>1. size \in Nat /\ count \in 0..size /\ tokensAfter(count) = {}
      BY <1>3, CallFacts DEF Looping, rejected, allRejected
    <2>2. k \in count..size
      BY <1>3, <2>1
    <2> QED
      BY <2>1, <2>2, NoneIsNoHit
  <1> QED
    BY <1>1, <1>2, <1>3

LEMMA TestStepKeeps ==
    ASSUME MachinesAreRight, Called, Looping, testStep
    PROVE  (pc' = "loop" /\ Looping') \/ (pc' = "done" /\ Answered')
  <1>1. UNCHANGED <<ex, m, op, sstr, spos, epos>> /\ op = "test"
    BY DEF testStep, Answer
  <1>2. /\ count \in Nat /\ count < size
        /\ curr' \in Int /\ count' = count + 1 /\ count' \in 0..size'
        /\ cstates' = tokensAfter(count + 1) /\ cstates' = tokensAfter(count)'
    BY <1>1, Advances DEF testStep, Looping
  <1>3. CASE allRejected(cstates')
    <2>1. size \in Nat /\ tokensAfter(count + 1) = {}
      BY <1>2, <1>3, CallFacts DEF allRejected
    <2>2. count + 1 \in 0..size /\ size \in count + 1 .. size
      BY <1>2, <2>1
    <2>3. hit(size) = FALSE
      BY <2>1, <2>2, NoneIsNoHit DEF hit, inAccepted
    <2>4. hit(size)' = hit(size)
      BY <1>1, SameCall
    <2>5. pc' = "done" /\ result' = FALSE
      BY <1>3 DEF testStep, Answer
    <2> QED
      BY <1>1, <2>3, <2>4, <2>5 DEF Answered, matchTestOps, matchOps
  <1>4. CASE ~allRejected(cstates')
    <2>1. pc' = "loop"
      BY <1>4 DEF testStep
    <2> QED
      BY <1>1, <1>2, <2>1 DEF Looping, matchTestOps, matchOps
  <1> QED
    BY <1>3, <1>4

LEMMA TestEndAnswers ==
    ASSUME MachinesAreRight, Called, Looping, testEnd
    PROVE  pc' = "done" /\ Answered'
  <1>1. UNCHANGED <<ex, m, op, sstr, spos, epos>> /\ op = "test"
        /\ pc' = "done" /\ result' = accepted /\ ~valid
    BY DEF testEnd, Answer
  <1>2. hit(size)' = hit(size)
    BY <1>1, SameCall
  <1>3. count = size /\ (accepted <=> hit(count))
    BY <1>1, AtTheEnd
  <1>4. result' = hit(size)'
    BY <1>1, <1>2, <1>3 DEF accepted, hit, inAccepted
  <1> QED
    BY <1>1, <1>4 DEF Answered, matchTestOps, matchOps

LEMMA MatchTestStepKeeps ==
    ASSUME MachinesAreRight, Called, Looping, matchTestStep
    PROVE  pc' = "loop" /\ Looping'
  <1>1. /\ UNCHANGED <<ex, m, op, sstr, spos, epos>> /\ op \in matchTestOps /\ pc' = "loop"
        /\ ~accepted
    BY DEF matchTestStep, matchTestGuard
  <1>2. /\ count \in Nat
        /\ curr' \in Int /\ count' = count + 1 /\ count' \in 0..size'
        /\ cstates' = tokensAfter(count)'
    BY <1>1, Advances DEF matchTestStep, matchTestGuard, Looping
  <1>3. ~hit(count) /\ \A k \in 0..size : k < count => ~hit(k)
    BY <1>1, AtTheEnd DEF Looping
  <1>4. size' = size /\ \A k : hit(k)' = hit(k)
    BY <1>1, SameCall
  <1>5. \A k \in 0..size : k < count + 1 => ~hit(k)
    <2>1. \A k \in 0..size : k < count + 1 => k < count \/ k = count
      BY <1>2
    <2> QED
      BY <1>3, <2>1
  <1> QED
    BY <1>1, <1>2, <1>4, <1>5 DEF Looping, matchTestOps, matchOps

LEMMA MatchTestEndAnswers ==
    ASSUME MachinesAreRight, Called, Looping, matchTestEnd
    PROVE  pc' = "done" /\ Answered'
  <1>1. /\ UNCHANGED <<ex, m, op, sstr, spos, epos>> /\ op \in matchTestOps /\ pc' = "done"
        /\ result' = accepted /\ (~valid \/ accepted \/ rejected)
    BY DEF matchTestEnd, matchTestGuard, Answer
  <1>2. size' = size /\ \A k : hit(k)' = hit(k)
    BY <1>1, SameCall
  <1>3. /\ accepted <=> hit(count)
        /\ ~valid => count = size
        /\ rejected => \A k \in 0..size : count <= k => ~hit(k)
    BY AtTheEnd
  <1>4. /\ count \in 0..size /\ size \in Nat
        /\ \A k \in 0..size : k < count => ~hit(k)
    BY <1>1, CallFacts DEF Looping
  <1>5. \A k \in 0..size : k < count \/ count <= k
    BY <1>4
  <1>6. count = size => \A k \in 0..size : k < count \/ k = count
    BY <1>4
  <1>7. accepted <=> \E k \in 0..size : hit(k)
    BY <1>1, <1>3, <1>4, <1>5, <1>6
  <1>8. result' = \E k \in 0..size : hit(k)
    <2>1. accepted \in BOOLEAN
      BY DEF accepted, inAccepted
    <2> QED
      BY <1>1, <1>7, <2>1, Zenon
  <1>9. (\E k \in 0..size : hit(k))' <=> \E k \in 0..size : hit(k)
    BY <1>2, Zenon
  <1> QED
    BY <1>1, <1>8, <1>9, Zenon DEF Answered, matchTestOps, matchOps

LEMMA MatchStepKeeps ==
    ASSUME MachinesAreRight, Called, Looping, matchStep
    PROVE  pc' = "loop" /\ Looping'
  <1>1. /\ UNCHANGED <<ex, m, op, sstr, spos, epos>> /\ op \in matchOps /\ pc' = "loop" /\ valid
        /\ matches' = IF inAccepted(machine, cstates') THEN Append(matches, curr) ELSE matches
    BY DEF matchStep, matchGuard
  <1>2. /\ count \in Nat /\ count < size
        /\ curr' \in Int /\ count' = count + 1 /\ count' \in 0..size'
        /\ cstates' = tokensAfter(count + 1) /\ cstates' = tokensAfter(count)'
    BY <1>1, Advances DEF matchStep, matchGuard, Looping
  <1>3. curr = pushed(count + 1)
    BY <1>2, Position DEF Looping
  <1>4. matches' = IF hit(count + 1) THEN Append(matches, pushed(count + 1)) ELSE matches
    BY <1>1, <1>2, <1>3 DEF hit
  <1>5. ListsHits(count)
    BY <1>1 DEF Looping
  <1>6. ASSUME NEW n, n = count
        PROVE  ListsHits(n + 1)'
    <2>1. n \in Nat /\ n < size /\ ListsHits(n)
          /\ matches' = IF hit(n + 1) THEN Append(matches, pushed(n + 1)) ELSE matches
      BY <1>2, <1>4, <1>5, <1>6
    <2> QED
      BY <1>1, <2>1, ListGrows
  <1>7. ListsHits(count)'
    <2>1. \A k : k = count + 1 => ListsHits(k)'
      BY <1>6
    <2> QED
      BY <1>2, <2>1
  <1> QED
    BY <1>1, <1>2, <1>7 DEF Looping, matchTestOps, matchOps

LEMMA MatchEndAnswers ==
    ASSUME MachinesAreRight, Called, Looping, matchEnd
    PROVE  pc' = "done" /\ Answered'
  <1>1. /\ UNCHANGED <<ex, m, op, sstr, spos, epos, matches>> /\ op \in matchOps /\ pc' = "done"
        /\ ~valid \/ rejected
    BY DEF matchEnd, matchGuard, Answer
  <1>2. /\ count \in 0..size /\ size \in Nat /\ ListsHits(count)
    BY <1>1, CallFacts DEF Looping
  <1>3. \A k \in 0..size : count < k => ~hit(k)
    BY <1>1, <1>2, AtTheEnd
  <1>4. ListsHits(size)
    <2>1. ASSUME NEW p \in Int
          PROVE  (\E k \in 1..count : hit(k) /\ p = pushed(k))
                 <=> (\E k \in 1..size : hit(k) /\ p = pushed(k))
      <3>1. \A k \in 1..size : k \in 0..size /\ (k \in 1..count \/ count < k)
        BY <1>2
      <3>2. \A k \in 1..count : k \in 1..size
        BY <1>2
      <3> QED
        BY <1>3, <3>1, <3>2
    <2> QED
      BY <1>2, <2>1 DEF ListsHits
  <1>5. size' = size
    BY <1>1, SameCall
  <1>6. ListsHits(size)'
    <2>1. \A n : ListsHits(n) => ListsHits(n)'
      BY <1>1, SameMatches
    <2> QED
      BY <1>4, <1>5, <2>1
  <1> QED
    BY <1>1, <1>6 DEF Answered, matchTestOps, matchOps

(* The first tokens, in the state a call leads to. *)
LEMMA FirstTokens ==
    MachinesAreRight /\ Called =>
        /\ spos \in Nat /\ epos \in Int /\ size \in Nat
        /\ tokensAfter(0) = initialState(machine)
  BY CallFacts, TokensFirst

LEMMA FirstTokensNext ==
    (MachinesAreRight /\ Called =>
        /\ spos \in Nat /\ epos \in Int /\ size \in Nat
        /\ tokensAfter(0) = initialState(machine))'
  BY FirstTokens, PTL

LEMMA CallStarts ==
    ASSUME MachinesAreRight, ~ex.unicode, ex \in Executors,
           NEW c \in Asked(ex), Call(c[1], c[2], c[3], c[4])
    PROVE  Called' /\ Looping'
  <1>1. ex' = ex /\ cstates' = initialState(machine)' /\ matches' = <<>>
        /\ op' = c[1] /\ sstr' = c[2] /\ spos' = c[3] /\ epos' = c[4]
        /\ m' = machineFor(c[1])
        /\ curr' = IF backwards' THEN epos' ELSE spos'
    BY DEF Call, runInitialStep, backwards
  <1>2. Called'
    <2>1. c = <<c[1], c[2], c[3], c[4]>>
      BY DEF MachinesAreRight, CompiledRight
    <2> QED
      BY <1>1, <2>1 DEF Called, machineFor
  <1>3. /\ spos' \in Nat /\ epos' \in Int /\ size' \in Nat
        /\ tokensAfter(0)' = initialState(machine)'
    <2>1. MachinesAreRight'
      BY DEF MachinesAreRight
    <2> QED
      BY <1>2, <2>1, FirstTokensNext
  <1>4. curr' \in Int /\ count' = 0
    BY <1>1, <1>3 DEF count
  <1>5. \A n : n = 0 => ListsHits(n)'
    BY <1>1 DEF ListsHits
  <1>6. ListsHits(count)'
    BY <1>4, <1>5
  <1>7. cstates' = tokensAfter(count)'
    <2>1. \A n : n = 0 => tokensAfter(n)' = initialState(machine)'
      BY <1>3
    <2> QED
      BY <1>1, <1>4, <2>1
  <1>8. \A k \in 0..size' : ~(k < count')
    BY <1>3, <1>4
  <1> QED
    BY <1>2, <1>3, <1>4, <1>6, <1>7, <1>8 DEF Looping

LEMMA IInvInit == Init => IInv
  BY DEF Init, IInv

(* Whatever the step, the executor stays, and pc takes one of its values. *)
LEMMA StepFacts ==
    ASSUME IInv, [Next]_vars
    PROVE  /\ ex' = ex /\ pc' \in {"idle", "loop", "done"}
           /\ \/ UNCHANGED vars
              \/ \E c \in Asked(ex) : Call(c[1], c[2], c[3], c[4])
              \/ pc = "loop" /\ UNCHANGED <<m, op, sstr, spos, epos>> /\ Loop
              \/ pc' = "idle"
  <1>1. CASE UNCHANGED vars
    BY <1>1 DEF vars, IInv
  <1>2. ASSUME \E c \in IF m = "none" THEN Asked(ex) ELSE Repeated(ex) :
                   Call(c[1], c[2], c[3], c[4])
        PROVE  /\ ex' = ex /\ pc' = "loop"
               /\ \E c \in Asked(ex) : Call(c[1], c[2], c[3], c[4])
    <2>1. Repeated(ex) \subseteq Asked(ex)
      BY RepeatedAssumption DEF IInv
    <2>2. PICK c \in Asked(ex) : Call(c[1], c[2], c[3], c[4])
      BY <1>2, <2>1
    <2> QED
      BY <2>2 DEF Call
  <1>3. CASE testStep
    BY <1>3 DEF testStep, Answer, Loop
  <1>4. CASE testEnd
    BY <1>4 DEF testEnd, Answer, Loop
  <1>5. CASE matchTestStep
    BY <1>5 DEF matchTestStep, Loop
  <1>6. CASE matchTestEnd
    BY <1>6 DEF matchTestEnd, Answer, Loop
  <1>7. CASE matchStep
    BY <1>7 DEF matchStep, Loop
  <1>8. CASE matchEnd
    BY <1>8 DEF matchEnd, Answer, Loop
  <1>9. CASE Take
    BY <1>9 DEF Take
  <1> QED
    BY <1>1, <1>2, <1>3, <1>4, <1>5, <1>6, <1>7, <1>8, <1>9 DEF Next, Loop

LEMMA LoopKeeps ==
    ASSUME MachinesAreRight, Called, Looping, Loop
    PROVE  (pc' = "loop" /\ Looping') \/ (pc' = "done" /\ Answered')
  <1>1. CASE testStep
    BY <1>1, TestStepKeeps
  <1>2. CASE testEnd
    BY <1>2, TestEndAnswers
  <1>3. CASE matchTestStep
    BY <1>3, MatchTestStepKeeps
  <1>4. CASE matchTestEnd
    BY <1>4, MatchTestEndAnswers
  <1>5. CASE matchStep
    BY <1>5, MatchStepKeeps
  <1>6. CASE matchEnd
    BY <1>6, MatchEndAnswers
  <1> QED
    BY <1>1, <1>2, <1>3, <1>4, <1>5, <1>6 DEF Loop

LEMMA StutterKeeps ==
    ASSUME UNCHANGED vars, IInv
    PROVE  IInv'
  <1>1. UNCHANGED <<ex, m, sstr, spos, epos, curr, cstates, op, matches, pc, result>>
    BY DEF vars
  <1>2. /\ Called' <=> Called
        /\ size' = size /\ backwards' = backwards
        /\ \A k : tokensAfter(k)' = tokensAfter(k)
        /\ \A k : hit(k)' = hit(k)
        /\ \A n : ListsHits(n) => ListsHits(n)'
    BY <1>1, SameCall, SameMatches
  <1>3. count' = count
    BY <1>1, <1>2 DEF count
  <1>4. Looping => Looping'
    BY <1>1, <1>2, <1>3 DEF Looping
  <1>5. Answered => Answered'
    BY <1>1, <1>2 DEF Answered
  <1> QED
    BY <1>1, <1>2, <1>4, <1>5 DEF IInv

LEMMA IInvNext ==
    ASSUME MachinesAreRight, IInv, [Next]_vars
    PROVE  IInv'
  <1>1. ex' = ex /\ pc' \in {"idle", "loop", "done"} /\ ex' \in Executors
    BY StepFacts DEF IInv
  <1>2. CASE UNCHANGED vars
    BY <1>2, StutterKeeps
  <1>3. CASE \E c \in Asked(ex) : Call(c[1], c[2], c[3], c[4])
    <2>1. PICK c \in Asked(ex) : Call(c[1], c[2], c[3], c[4])
      BY <1>3
    <2>2. pc' = "loop"
      BY <2>1 DEF Call
    <2>3. ~ex.unicode => Called' /\ Looping'
      BY <1>1, <2>1, CallStarts
    <2> QED
      BY <1>1, <2>2, <2>3 DEF IInv
  <1>4. CASE pc = "loop" /\ UNCHANGED <<m, op, sstr, spos, epos>> /\ Loop
    <2>1. CASE ex.unicode
      BY <1>1, <2>1 DEF IInv
    <2>2. CASE ~ex.unicode
      <3>1. Called /\ Looping
        BY <1>4, <2>2 DEF IInv
      <3>2. Called'
        BY <1>1, <1>4, <3>1, SameCall
      <3>3. (pc' = "loop" /\ Looping') \/ (pc' = "done" /\ Answered')
        BY <1>4, <3>1, LoopKeeps
      <3> QED
        BY <1>1, <3>2, <3>3 DEF IInv
    <2> QED
      BY <2>1, <2>2
  <1>5. CASE pc' = "idle"
    BY <1>1, <1>5 DEF IInv
  <1> QED
    BY <1>2, <1>3, <1>4, <1>5, StepFacts

(* The invariant holds in every state: inside a call over chars the        *)
(* machine has read the letters passed so far, and an answer is right.     *)
THEOREM Inductive ==
    ASSUME MachinesAreRight
    PROVE  Spec => []IInv
  BY IInvInit, IInvNext, PTL DEF Spec

-----------------------------------------------------------------------------
(* What is answered. *)

(* NFAExecutor::test over chars answers whether the interval is in the     *)
(* language, whichever way its loop ends.                                  *)
THEOREM TestsAreRight ==
    ASSUME MachinesAreRight
    PROVE  Spec => [](~ex.unicode => TestIsMembership)
  <1>1. ASSUME IInv, ~ex.unicode, pc = "done", op = "test"
        PROVE  result = inLang(spos, epos)
    <2>1. Called /\ result = hit(size) /\ ~backwards
      BY <1>1 DEF IInv, Answered, backwards, ReverseOps
    <2>2. size \in Nat /\ size \in 0..size /\ spos + size - 1 = epos
      BY <2>1, CallFacts DEF size
    <2>3. hit(size) <=> inLang(spos, epos)
      BY <2>1, <2>2, HitIsMembership DEF part, inLang
    <2> QED
      BY <2>1, <2>3 DEF hit, inAccepted, inLang
  <1>2. IInv => (~ex.unicode => TestIsMembership)
    BY <1>1 DEF TestIsMembership
  <1> QED
    BY <1>2, Inductive, PTL

(* matchTestForward and matchTestReverse over chars answer whether some    *)
(* prefix, respectively suffix, of the interval is in the language.        *)
THEOREM MatchTestsAreRight ==
    ASSUME MachinesAreRight
    PROVE  Spec => [](~ex.unicode => TestsFindAnEnd)
  <1>1. ASSUME IInv, ~ex.unicode, pc = "done", op = "matchTestForward"
        PROVE  result = \E j \in spos-1..epos : inLang(spos, j)
    <2>1. /\ Called /\ ~backwards
          /\ result = \E k \in 0..size : hit(k)
      BY <1>1 DEF IInv, Answered, backwards, ReverseOps, matchTestOps
    <2>2. size \in Nat /\ size = epos - spos + 1 /\ spos \in Nat /\ epos \in Int
      BY <2>1, CallFacts DEF size
    <2>3. \A k \in 0..size : hit(k) <=> inLang(spos, spos + k - 1)
      BY <2>1, HitIsMembership DEF part, inLang
    <2>4. /\ \A k \in 0..size : spos + k - 1 \in spos-1..epos
          /\ \A j \in spos-1..epos : j - spos + 1 \in 0..size /\ spos + (j - spos + 1) - 1 = j
      BY <2>2
    <2>5. (\E k \in 0..size : hit(k)) <=> (\E j \in spos-1..epos : inLang(spos, j))
      BY <2>3, <2>4
    <2> QED
      BY <2>1, <2>5, Zenon
  <1>2. ASSUME IInv, ~ex.unicode, pc = "done", op = "matchTestReverse"
        PROVE  result = \E i \in spos..epos+1 : inLang(i, epos)
    <2>1. /\ Called /\ backwards
          /\ result = \E k \in 0..size : hit(k)
      BY <1>2 DEF IInv, Answered, backwards, ReverseOps, matchTestOps
    <2>2. size \in Nat /\ size = epos - spos + 1 /\ spos \in Nat /\ epos \in Int
      BY <2>1, CallFacts DEF size
    <2>3. \A k \in 0..size : hit(k) <=> inLang(epos - k + 1, epos)
      BY <2>1, HitIsMembership DEF part, inLang
    <2>4. /\ \A k \in 0..size : epos - k + 1 \in spos..epos+1
          /\ \A i \in spos..epos+1 : epos - i + 1 \in 0..size /\ epos - (epos - i + 1) + 1 = i
      BY <2>2
    <2>5. (\E k \in 0..size : hit(k)) <=> (\E i \in spos..epos+1 : inLang(i, epos))
      BY <2>3, <2>4
    <2> QED
      BY <2>1, <2>5, Zenon
  <1>3. IInv => (~ex.unicode => TestsFindAnEnd)
    BY <1>1, <1>2 DEF TestsFindAnEnd
  <1> QED
    BY <1>3, Inductive, PTL

(* The positions pushed, as a set. *)
LEMMA ListsAreSets ==
    ASSUME NEW s \in Seq(Int), NEW S, S \subseteq Int,
           \A p \in Int : (\E i \in DOMAIN s : s[i] = p) <=> p \in S
    PROVE  lists(s, S)
  <1>1. Len(s) \in Nat /\ DOMAIN s = 1..Len(s) /\ \A i \in 1..Len(s) : s[i] \in Int
    OBVIOUS
  <1>2. s \in [1..Len(s) -> S]
    BY <1>1
  <1>3. s \in Seq(S)
    BY <1>1, <1>2
  <1>4. S \subseteq Range(s)
    BY DEF Range
  <1> QED
    BY <1>3, <1>4 DEF lists

(* matchForward and matchReverse over chars push the ends of all non-empty *)
(* prefixes, the beginnings of all non-empty suffixes, in the language,    *)
(* and no other position, nearest first.                                   *)
THEOREM MatchesAreRight ==
    ASSUME MachinesAreRight
    PROVE  Spec => [](~ex.unicode => MatchesListEveryEnd)
  <1>1. ASSUME IInv, ~ex.unicode, pc = "done", op = "matchForward"
        PROVE  /\ lists(matches, {j \in spos..epos : firstByte(j) /\ inLang(spos, lastByte(j))})
               /\ ascending(matches)
    <2> DEFINE S == {j \in spos..epos : inLang(spos, j)}
    <2>1. Called /\ ~backwards /\ ListsHits(size)
      BY <1>1 DEF IInv, Answered, backwards, ReverseOps, matchOps
    <2>2. size \in Nat /\ size = epos - spos + 1 /\ spos \in Nat /\ epos \in Int
      BY <2>1, CallFacts DEF size
    <2>3. \A k \in 1..size : hit(k) <=> inLang(spos, spos + k - 1)
      <3>1. \A k \in 1..size : k \in 0..size
        OBVIOUS
      <3> QED
        BY <2>1, <3>1, HitIsMembership DEF part, inLang
    <2>4. /\ \A k \in 1..size : spos + k - 1 \in spos..epos
          /\ \A j \in spos..epos : j - spos + 1 \in 1..size /\ spos + (j - spos + 1) - 1 = j
      BY <2>2
    <2>5. \A p \in Int : (\E k \in 1..size : hit(k) /\ p = pushed(k)) <=> p \in S
      BY <2>1, <2>3, <2>4 DEF pushed
    <2>6. S \subseteq Int
      OBVIOUS
    <2>7. lists(matches, S)
      <3> HIDE DEF S
      <3> QED
        BY <2>1, <2>5, <2>6, ListsAreSets DEF ListsHits
    <2>8. S = {j \in spos..epos : firstByte(j) /\ inLang(spos, lastByte(j))}
      BY <1>1 DEF firstByte, lastByte
    <2>9. ascending(matches)
      BY <2>1 DEF ListsHits, before, ascending
    <2> QED
      BY <2>7, <2>8, <2>9
  <1>2. ASSUME IInv, ~ex.unicode, pc = "done", op = "matchReverse"
        PROVE  /\ lists(matches, {i \in spos..epos : inLang(i, epos)})
               /\ descending(matches)
    <2> DEFINE S == {i \in spos..epos : inLang(i, epos)}
    <2>1. Called /\ backwards /\ ListsHits(size)
      BY <1>2 DEF IInv, Answered, backwards, ReverseOps, matchOps
    <2>2. size \in Nat /\ size = epos - spos + 1 /\ spos \in Nat /\ epos \in Int
      BY <2>1, CallFacts DEF size
    <2>3. \A k \in 1..size : hit(k) <=> inLang(epos - k + 1, epos)
      <3>1. \A k \in 1..size : k \in 0..size
        OBVIOUS
      <3> QED
        BY <2>1, <3>1, HitIsMembership DEF part, inLang
    <2>4. /\ \A k \in 1..size : epos - k + 1 \in spos..epos
          /\ \A i \in spos..epos : epos - i + 1 \in 1..size /\ epos - (epos - i + 1) + 1 = i
      BY <2>2
    <2>5. \A p \in Int : (\E k \in 1..size : hit(k) /\ p = pushed(k)) <=> p \in S
      BY <2>1, <2>3, <2>4 DEF pushed
    <2>6. S \subseteq Int
      OBVIOUS
    <2>7. lists(matches, S)
      <3> HIDE DEF S
      <3> QED
        BY <2>1, <2>5, <2>6, ListsAreSets DEF ListsHits
    <2>8. descending(matches)
      BY <2>1 DEF ListsHits, before, descending
    <2> QED
      BY <2>7, <2>8
  <1>3. IInv => (~ex.unicode => MatchesListEveryEnd)
    BY <1>1, <1>2 DEF MatchesListEveryEnd
  <1> QED
    BY <1>3, Inductive, PTL

=============================================================================
