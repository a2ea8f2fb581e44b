----------------------------- MODULE REExecutor -----------------------------
(***************************************************************************)
(* REExecutor and the components it asks (src/src/regex/brex_executor.h):  *)
(* what a compiled Regex answers for an interval spos..epos of a string,   *)
(* both ends included.  The executors of the single expressions are        *)
(* abstract here: a check has a language, and the five operations of       *)
(* NFAExecutor answer as the module of that name is shown to.              *)
(*                                                                         *)
(* A Regex is [pre, re, post]; each is NoComponent, SingleComponent(check) *)
(* or AllOfComponent(checks), and a check is [lang, isNegative,            *)
(* isFrontCheck, isBackCheck].                                             *)
(***************************************************************************)
EXTENDS Integers, Sequences, SequencesExt

CONSTANTS
    Asked,    \* the calls made: records op and regex
    Texts     \* the strings they are made on

NoComponent == [tag |-> "none"]
SingleComponent(check) == [tag |-> "Single", checks |-> <<check>>]
AllOfComponent(checks) == [tag |-> "AllOf", checks |-> checks]

Check(lang, isNegative, isFrontCheck, isBackCheck) ==
    [lang |-> lang, isNegative |-> isNegative,
     isFrontCheck |-> isFrontCheck, isBackCheck |-> isBackCheck]

TestOps == {"test", "testContains", "testFront", "testBack"}
MatchOps == {"matchContainsFirst", "matchContainsLast", "matchFront", "matchBack"}
Ops == TestOps \cup MatchOps
ContainsOps == {"testContains", "matchContainsFirst", "matchContainsLast"}
FrontOps == {"testFront", "matchFront"}
BackOps == {"testBack", "matchBack"}

-----------------------------------------------------------------------------
(* The structure of a Regex (src/src/regex/brex.h). *)

checksOf(cc) == {cc.checks[i] : i \in DOMAIN cc.checks}
binding(k) == ~k.isNegative /\ ~k.isFrontCheck /\ ~k.isBackCheck

isContainsable(cc) == cc.tag = "Single" /\ \A k \in checksOf(cc) : binding(k)
isMatchable(cc) == \E k \in checksOf(cc) : binding(k)

(* validPreAnchor, and validPostAnchor but for its single component, which *)
(* tests isBackCheck twice and leaves isFrontCheck to parsedComponent.     *)
validAnchor(cc) ==
    /\ cc.tag = "AllOf" => isMatchable(cc)
    /\ \A k \in checksOf(cc) : ~k.isFrontCheck /\ ~k.isBackCheck

canUseInTestOperation(r) ==
    (r.pre = NoComponent /\ r.post = NoComponent) \/ isContainsable(r.re)
canStartsOperation(r) == r.pre = NoComponent /\ isMatchable(r.re)
canEndOperation(r) == r.post = NoComponent /\ isMatchable(r.re)
canUseInContains(r) == isContainsable(r.re)

(* What the parser lets through: no entry is anchored at both ends, not    *)
(* every entry of a component is anchored, a conjunction has several.      *)
parsedComponent(cc) ==
    /\ cc.tag \in {"Single", "AllOf"} /\ cc.checks \in Seq(checksOf(cc))
    /\ cc.tag = "Single" => Len(cc.checks) = 1
    /\ cc.tag = "AllOf" => Len(cc.checks) >= 2
    /\ \A k \in checksOf(cc) : {k.isNegative, k.isFrontCheck, k.isBackCheck} \subseteq BOOLEAN
    /\ \A k \in checksOf(cc) : ~(k.isFrontCheck /\ k.isBackCheck)
    /\ \E k \in checksOf(cc) : ~(k.isFrontCheck \/ k.isBackCheck)

ASSUME AskedAssumption ==
    \A a \in Asked :
        /\ a.op \in Ops
        /\ parsedComponent(a.regex.re)
        /\ \A cc \in {a.regex.pre, a.regex.post} \ {NoComponent} :
              parsedComponent(cc) /\ validAnchor(cc)

(* Not assumed, but what the answers below hold under: what is searched    *)
(* from its end is a single expression, and what a test searches for does  *)
(* not accept the empty word, which a test sees and a match does not.      *)
singlesBackwards(calls) ==
    \A a \in calls :
        /\ a.op \in BackOps \cup ContainsOps => a.regex.pre.tag \in {"none", "Single"}
        /\ a.op \in BackOps => a.regex.re.tag = "Single"
emptyUntested(calls) ==
    \A a \in calls :
        a.op \in TestOps \ {"test"} /\ a.regex.re.tag = "Single" =>
            <<>> \notin a.regex.re.checks[1].lang

ASSUME TextsAssumption == \A s \in Texts : s \in Seq(Range(s))

-----------------------------------------------------------------------------
VARIABLES
    asked,               \* the call: op and regex
    sstr, spos, epos,    \* its string and interval
    pc,                  \* "call", "filter", "select" or "done"
    opts,                \* the spans found and not yet checked, in order
    mmr,                 \* the spans the anchors let through
    answer               \* the answer of the call

vars == <<asked, sstr, spos, epos, pc, opts, mmr, answer>>

op == asked.op
regex == asked.regex

Invalid == [kind |-> "InvalidRegexStructure"]
None == [kind |-> "none"]
Bool(b) == [kind |-> "bool", b |-> b]
Match(span) == [kind |-> "match", span |-> span]
Pending == [kind |-> "pending"]

(* Position p of the string, counted from 0, is element p + 1. *)
word(str, i, j) == SubSeq(str, i + 1, j + 1)
inLang(k, str, i, j) == word(str, i, j) \in k.lang

(* The elements of s that are in S, as a loop that pushes them finds them. *)
keep(s, S) ==
    LET kept[n \in 0..Len(s)] ==
          IF n = 0 THEN <<>>
          ELSE IF s[n] \in S THEN Append(kept[n - 1], s[n]) ELSE kept[n - 1]
    IN  kept[Len(s)]

(* NFAExecutor: a test sees the empty word, a match does not.  The reverse *)
(* match lists the starts from the last to the first.                      *)
positions(i, j) == [n \in 1..j-i+1 |-> i + n - 1]
matchTestForward(k, str, i, j) == \E e \in i-1..j : inLang(k, str, i, e)
matchTestReverse(k, str, i, j) == \E s \in i..j+1 : inLang(k, str, s, j)
matchForward(k, str, i, j) == keep(positions(i, j), {e \in i..j : inLang(k, str, i, e)})

(* Mutant: the starts are listed from the first to the last. *)
matchReverseAscending(k, str, i, j) == keep(positions(i, j), {s \in i..j : inLang(k, str, s, j)})

matchReverse(k, str, i, j) == keep(Reverse(positions(i, j)), {s \in i..j : inLang(k, str, s, j)})

(* Mutant: the negation is forgotten. *)
validateUnnegated(k, str, i, j) ==
    IF k.isFrontCheck THEN matchTestForward(k, str, i, j)
    ELSE IF k.isBackCheck THEN matchTestReverse(k, str, i, j)
    ELSE inLang(k, str, i, j)

(* SingleCheckREInfo::test and validateSingleOp. *)
validateSingleOp(k, str, i, j) ==
    k.isNegative # (IF k.isFrontCheck THEN matchTestForward(k, str, i, j)
                    ELSE IF k.isBackCheck THEN matchTestReverse(k, str, i, j)
                    ELSE inLang(k, str, i, j))

(* std::set_intersection: one round of the merge of two lists by <, and    *)
(* all of them.                                                            *)
mergeRound(A, B, at) ==
    IF at.i > Len(A) \/ at.j > Len(B) THEN at
    ELSE IF A[at.i] < B[at.j] THEN [at EXCEPT !.i = at.i + 1]
    ELSE IF B[at.j] < A[at.i] THEN [at EXCEPT !.j = at.j + 1]
    ELSE [i |-> at.i + 1, j |-> at.j + 1, shared |-> Append(at.shared, A[at.i])]

set_intersection(A, B) ==
    LET after[n \in 0..Len(A)+Len(B)] ==
          IF n = 0 THEN [i |-> 1, j |-> 1, shared |-> <<>>]
          ELSE mergeRound(A, B, after[n - 1])
    IN  after[Len(A) + Len(B)].shared

computeSharedMatches(ms) ==
    LET shared[n \in 1..Len(ms)] ==
          IF n = 1 THEN ms[1] ELSE set_intersection(shared[n - 1], ms[n])
    IN  IF ms = <<>> THEN <<>> ELSE shared[Len(ms)]

(* The part of a conjunction that does not bind is checked on the interval *)
(* from where the search began to the position found.                      *)
validateMatchSetOptions(cc, found, str, i) ==
    keep(found, {p \in Range(found) : \A k \in checksOf(cc) :
                                          binding(k) \/ validateSingleOp(k, str, i, p)})

bindingOf(cc) == keep(cc.checks, {k \in checksOf(cc) : binding(k)})

componentTest(cc, str, i, j) == \A k \in checksOf(cc) : validateSingleOp(k, str, i, j)

(* Mutant: the ends are not collected beyond the first expression. *)
componentMatchOfOne(cc, str, i, j) ==
    IF cc.tag = "Single" THEN matchForward(cc.checks[1], str, i, j)
    ELSE validateMatchSetOptions(cc, matchForward(bindingOf(cc)[1], str, i, j), str, i)

componentMatchFront(cc, str, i, j) ==
    IF cc.tag = "Single" THEN matchForward(cc.checks[1], str, i, j)
    ELSE LET ms == [n \in DOMAIN bindingOf(cc) |-> matchForward(bindingOf(cc)[n], str, i, j)]
         IN  validateMatchSetOptions(cc, computeSharedMatches(ms), str, i)

componentMatchBack(cc, str, i, j) ==
    IF cc.tag = "Single" THEN matchReverse(cc.checks[1], str, i, j)
    ELSE LET ms == [n \in DOMAIN bindingOf(cc) |-> matchReverse(bindingOf(cc)[n], str, i, j)]
         IN  validateMatchSetOptions(cc, computeSharedMatches(ms), str, i)

componentTestFront(cc, str, i, j) ==
    IF cc.tag = "Single"
      THEN cc.checks[1].isNegative # matchTestForward(cc.checks[1], str, i, j)
      ELSE componentMatchFront(cc, str, i, j) # <<>>

componentTestBack(cc, str, i, j) ==
    IF cc.tag = "Single"
      THEN cc.checks[1].isNegative # matchTestReverse(cc.checks[1], str, i, j)
      ELSE componentMatchBack(cc, str, i, j) # <<>>

(* A conjunction answers no: "CANNOT HAPPEN". *)
componentTestContains(cc, str, i, j) ==
    cc.tag = "Single" /\ \E ii \in i..j : matchTestForward(cc.checks[1], str, ii, j)

componentMatchContains(cc, str, i, j) ==
    LET from(ii) == LET es == matchForward(cc.checks[1], str, ii, j)
                    IN  [n \in DOMAIN es |-> <<ii, es[n]>>]
        matches[n \in 0..j-i+1] == IF n = 0 THEN <<>> ELSE matches[n - 1] \o from(i + n - 1)
    IN  IF cc.tag = "Single" THEN matches[j - i + 1] ELSE <<>>

-----------------------------------------------------------------------------
(* The eight operations. *)

guard ==
    IF op = "test" THEN canUseInTestOperation(regex)
    ELSE IF op \in ContainsOps THEN canUseInContains(regex)
    ELSE IF op \in FrontOps THEN canStartsOperation(regex)
    ELSE canEndOperation(regex)

(* The anchors an operation looks at. *)
anchored ==
    IF op \in FrontOps THEN regex.post # NoComponent
    ELSE IF op \in BackOps THEN regex.pre # NoComponent
    ELSE regex.pre # NoComponent \/ regex.post # NoComponent

Init ==
    /\ asked \in Asked
    /\ sstr \in Texts
    /\ \E i \in 0..Len(sstr) : spos = i /\ epos \in i-1..Len(sstr)-1
    /\ pc = "call" /\ opts = <<>> /\ mmr = <<>> /\ answer = Pending

Answer(a) == pc' = "done" /\ answer' = a

refuse ==
    /\ pc = "call" /\ ~guard
    /\ Answer(Invalid)
    /\ UNCHANGED <<asked, sstr, spos, epos, opts, mmr>>

(* A test of a Regex without anchors is a test of its component. *)
testDirect ==
    /\ pc = "call" /\ guard /\ op \in TestOps /\ ~anchored
    /\ Answer(Bool(
          IF op = "test" THEN componentTest(regex.re, sstr, spos, epos)
          ELSE IF op = "testContains" THEN componentTestContains(regex.re, sstr, spos, epos)
          ELSE IF op = "testFront" THEN componentTestFront(regex.re, sstr, spos, epos)
          ELSE componentTestBack(regex.re, sstr, spos, epos)))
    /\ UNCHANGED <<asked, sstr, spos, epos, opts, mmr>>

(* Every other call first lists the spans of the middle component. *)
found ==
    IF op \in FrontOps
      THEN LET es == componentMatchFront(regex.re, sstr, spos, epos)
           IN  [n \in DOMAIN es |-> <<spos, es[n]>>]
    ELSE IF op \in BackOps
      THEN LET ss == componentMatchBack(regex.re, sstr, spos, epos)
           IN  [n \in DOMAIN ss |-> <<ss[n], epos>>]
    ELSE componentMatchContains(regex.re, sstr, spos, epos)

collect ==
    /\ pc = "call" /\ guard /\ (op \in MatchOps \/ anchored)
    /\ IF anchored THEN pc' = "filter" /\ opts' = found /\ UNCHANGED mmr
       ELSE pc' = "select" /\ mmr' = found /\ UNCHANGED opts
    /\ UNCHANGED <<asked, sstr, spos, epos, answer>>

(* The lambda over a span: test wants the anchors to take up the rest of   *)
(* the interval, the searches want them next to the span.                  *)
prechk(span) ==
    \/ regex.pre = NoComponent
    \/ IF op = "test" THEN componentTest(regex.pre, sstr, spos, span[1] - 1)
       ELSE componentTestBack(regex.pre, sstr, spos, span[1] - 1)
postchk(span) ==
    \/ regex.post = NoComponent
    \/ IF op = "test" THEN componentTest(regex.post, sstr, span[2] + 1, epos)
       ELSE componentTestFront(regex.post, sstr, span[2] + 1, epos)

(* One round of any_of, which stops at the first success, or of copy_if.   *)
checkAnchors ==
    /\ pc = "filter" /\ opts # <<>>
    /\ opts' = Tail(opts)
    /\ LET ok == prechk(Head(opts)) /\ postchk(Head(opts))
       IN  IF op \in TestOps
             THEN /\ IF ok THEN Answer(Bool(TRUE)) ELSE UNCHANGED <<pc, answer>>
                  /\ UNCHANGED mmr
             ELSE /\ mmr' = IF ok THEN Append(mmr, Head(opts)) ELSE mmr
                  /\ UNCHANGED <<pc, answer>>
    /\ UNCHANGED <<asked, sstr, spos, epos>>

filterDone ==
    /\ pc = "filter" /\ opts = <<>>
    /\ IF op \in TestOps THEN Answer(Bool(FALSE))
       ELSE pc' = "select" /\ UNCHANGED answer
    /\ UNCHANGED <<asked, sstr, spos, epos, opts, mmr>>

(* First: sort by start, keep the spans with the least one, sort those by  *)
(* end, take the last.  Last: the same from the other side.  Front and     *)
(* back take the last of the list as it is.                                *)
byStart(a, b) == a[1] < b[1]
byEnd(a, b) == a[2] < b[2]

(* What is first, and last, once std::sort has been through. *)
firstBy(S, lt(_, _)) == CHOOSE a \in S : \A b \in S : ~lt(b, a)
lastBy(S, lt(_, _)) == CHOOSE a \in S : \A b \in S : ~lt(a, b)

firstSpan(spans) ==
    LET midx == firstBy(Range(spans), byStart)[1]
    IN  lastBy({s \in Range(spans) : s[1] = midx}, byEnd)

(* Mutant: of the spans that end last the last is taken. *)
lastShortest(spans) ==
    LET midx == lastBy(Range(spans), byEnd)[2]
    IN  lastBy({s \in Range(spans) : s[2] = midx}, byStart)

lastSpan(spans) ==
    LET midx == lastBy(Range(spans), byEnd)[2]
    IN  firstBy({s \in Range(spans) : s[2] = midx}, byStart)

select ==
    /\ pc = "select"
    /\ Answer(IF mmr = <<>> THEN None
              ELSE Match(IF op = "matchContainsFirst" THEN firstSpan(mmr)
                         ELSE IF op = "matchContainsLast" THEN lastSpan(mmr)
                         ELSE Last(mmr)))
    /\ UNCHANGED <<asked, sstr, spos, epos, opts, mmr>>

Next == refuse \/ testDirect \/ collect \/ checkAnchors \/ filterDone \/ select

Spec == Init /\ [][Next]_vars

-----------------------------------------------------------------------------
(* Properties.  The reference below speaks of substrings and languages     *)
(* only: no lists, no merge, no order of search.                           *)

Spans == {s \in (spos..epos) \X (spos..epos) : s[1] <= s[2]}

(* README.md:31-35: an entry is about the whole substring, its beginning   *)
(* or its end, and a conjunction wants all of them.                        *)
holds(k, str, i, j) ==
    k.isNegative # (\E a \in i..j+1 : \E b \in a-1..j :
                        /\ word(str, a, b) \in k.lang
                        /\ a = i \/ k.isBackCheck
                        /\ b = j \/ k.isFrontCheck)
Accepts(cc, str, i, j) == \A k \in checksOf(cc) : holds(k, str, i, j)

(* The text i..j after, or before, a span satisfies the anchor: a single   *)
(* expression speaks of some prefix (suffix) or, negated, of all of them;  *)
(* a conjunction needs one non-empty prefix that all its parts hold of.    *)
Followed(cc, str, i, j) ==
    \/ cc = NoComponent
    \/ /\ cc.tag = "Single"
       /\ cc.checks[1].isNegative # \E b \in i-1..j : inLang(cc.checks[1], str, i, b)
    \/ cc.tag = "AllOf" /\ \E b \in i..j : Accepts(cc, str, i, b)
Preceded(cc, str, i, j) ==
    \/ cc = NoComponent
    \/ /\ cc.tag = "Single"
       /\ cc.checks[1].isNegative # \E a \in i..j+1 : inLang(cc.checks[1], str, a, j)
    \/ cc.tag = "AllOf" /\ \E a \in i..j : Accepts(cc, str, a, j)

(* The non-empty spans of the interval that a search may answer with. *)
Guarded ==
    {s \in Spans : /\ Accepts(regex.re, sstr, s[1], s[2])
                   /\ Preceded(regex.pre, sstr, spos, s[1] - 1)
                   /\ Followed(regex.post, sstr, s[2] + 1, epos)}

answered(o) == pc = "done" /\ op = o /\ answer # Invalid
Found(S) == answer = Bool(S # {})
Best(S, better(_, _)) ==
    answer = IF S = {} THEN None
             ELSE Match(CHOOSE s \in S : \A t \in S \ {s} : better(s, t))

(* README.md:149: test answers whether the whole interval is in the        *)
(* language; with anchors, whether it splits into a part for each.         *)
TestSplitsTheInterval ==
    answered("test") =>
        answer = Bool(
            IF regex.pre = NoComponent /\ regex.post = NoComponent
              THEN Accepts(regex.re, sstr, spos, epos)
            ELSE \E s \in Spans :
                    /\ regex.pre = NoComponent \/ Accepts(regex.pre, sstr, spos, s[1] - 1)
                    /\ Accepts(regex.re, sstr, s[1], s[2])
                    /\ regex.post = NoComponent \/ Accepts(regex.post, sstr, s[2] + 1, epos))

(* README.md:157: matchFront answers the longest span at the start of the  *)
(* interval that its guard allows, and testFront whether there is one.     *)
FrontIsLongest ==
    LET S == {s \in Guarded : s[1] = spos}
    IN  /\ answered("testFront") => Found(S)
        /\ answered("matchFront") => Best(S, LAMBDA s, t : s[2] > t[2])

(* The same at the end of the interval (brex_executor.h:33, 42). *)
BackIsLongest ==
    LET S == {s \in Guarded : s[2] = epos}
    IN  /\ answered("testBack") => Found(S)
        /\ answered("matchBack") => Best(S, LAMBDA s, t : s[1] < t[1])

(* README.md:164: of all guarded spans, matchContainsFirst answers the one *)
(* that starts first and is the longest of those, matchContainsLast the    *)
(* one that ends last and is the longest of those.                         *)
ContainsFirstAndLast ==
    /\ answered("testContains") => Found(Guarded)
    /\ answered("matchContainsFirst") =>
          Best(Guarded, LAMBDA s, t : s[1] < t[1] \/ (s[1] = t[1] /\ s[2] > t[2]))
    /\ answered("matchContainsLast") =>
          Best(Guarded, LAMBDA s, t : s[2] > t[2] \/ (s[2] = t[2] /\ s[1] < t[1]))

=============================================================================
