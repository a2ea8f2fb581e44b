---------------------------- MODULE NFAExecutor ----------------------------
(***************************************************************************)
(* NFAExecutor over a CRegexIterator or a UnicodeRegexIterator             *)
(* (src/src/regex/nfa_executor.h and src/src/common.h): the five loops     *)
(* that feed a string to the forward or the reverse machine.  A step of    *)
(* the machine is one step here, as NFAMachine is shown to allow.          *)
(* Positions count chars or bytes from 0, as in the code, and the interval *)
(* spos..epos includes both ends.                                          *)
(***************************************************************************)
EXTENDS NFAClosure, UTF8, SequencesExt

CONSTANTS
    Executors,   \* records forward, reverse, unicode (TIter is
                 \* UnicodeRegexIterator, the strings are UTF-8) and, as a
                 \* ghost, lang: the words of the expression the machines
                 \* were compiled from, written as the strings are
    Asked(_),    \* the <<operation, string, spos, epos>> asked of one
    Repeated(_)  \* the bound on what is asked after a first call: those of
                 \* Asked that one is asked again, whatever it was asked before

ASSUME RepeatedAssumption == \A e \in Executors : Repeated(e) \subseteq Asked(e)

ForwardOps == {"test", "matchTestForward", "matchForward"}
ReverseOps == {"matchTestReverse", "matchReverse"}
Ops == ForwardOps \cup ReverseOps

VARIABLES
    \* The executor, whose fields survive from one call to the next:
    ex,        \* forward and reverse
    m,         \* m: "none" (nullptr), "forward" or "reverse"
    sstr, spos, epos, curr,    \* iter
    cstates,   \* the machine's tokens
    \* A call:
    op,        \* the operation
    matches,   \* the positions pushed so far
    pc,        \* "idle", "loop" or "done"
    result     \* the Boolean answer of the three tests

vars == <<ex, m, sstr, spos, epos, curr, cstates, op, matches, pc, result>>

machineFor(o) == IF o \in ReverseOps THEN "reverse" ELSE "forward"
machine == ex[m]
accepted == inAccepted(machine, cstates)
rejected == allRejected(cstates)

(* The iterators: whether they are on a position of the interval, the      *)
(* character they are on, and the position they move to.                   *)
valid == spos <= curr /\ curr <= epos
get == IF ex.unicode THEN decode(sstr, curr, epos) ELSE sstr[curr + 1]
inc == IF ex.unicode THEN curr + charCodeByteCount(sstr, curr) ELSE curr + 1
dec == IF ex.unicode THEN curr - charCodeByteCountReverse(sstr, curr) ELSE curr - 1

Init ==
    /\ ex \in Executors /\ m = "none"
    /\ sstr = <<>> /\ spos = 0 /\ epos = -1 /\ curr = 0 /\ cstates = {}
    /\ op = "test" /\ matches = <<>> /\ pc = "idle" /\ result = FALSE

(* Mutant: the tokens of the call before are not cleared. *)
runInitialStepOnTop == cstates' = cstates \cup initialState(machine')

(* The initial step clears what tokens there are before it adds the first. *)
runInitialStep == cstates' = initialState(machine')

(* Entry of an operation: pick the machine, place the iterator, run the    *)
(* initial step.                                                           *)
Call(o, s, i, j) ==
    /\ m' = machineFor(o)
    /\ sstr' = s /\ spos' = i /\ epos' = j
    /\ curr' = IF o \in ReverseOps THEN j ELSE i
    /\ UNCHANGED ex
    /\ runInitialStep
    /\ op' = o /\ matches' = <<>> /\ pc' = "loop"
    /\ UNCHANGED result

runStep == cstates' = nextState(machine, get, cstates)
advance == curr' = IF op \in ReverseOps THEN dec ELSE inc

Answer(b) ==
    /\ pc' = "done" /\ result' = b
    /\ UNCHANGED <<ex, m, sstr, spos, epos, op, matches>>

(* test: the whole interval has to be consumed; an empty state ends early. *)
testStep ==
    /\ pc = "loop" /\ op = "test" /\ valid
    /\ runStep /\ advance
    /\ IF allRejected(cstates') THEN Answer(FALSE)
       ELSE UNCHANGED <<ex, m, sstr, spos, epos, op, matches, pc, result>>

(* Mutant: anything still alive passes. *)
testEndAlive ==
    /\ pc = "loop" /\ op = "test" /\ ~valid
    /\ Answer(~rejected)
    /\ UNCHANGED <<curr, cstates>>

testEnd ==
    /\ pc = "loop" /\ op = "test" /\ ~valid
    /\ Answer(accepted)
    /\ UNCHANGED <<curr, cstates>>

(* matchTestForward and matchTestReverse: stop at the first acceptance. *)
matchTestOps == {"matchTestForward", "matchTestReverse"}
matchTestGuard == valid /\ ~(accepted \/ rejected)

matchTestStep ==
    /\ pc = "loop" /\ op \in matchTestOps /\ matchTestGuard
    /\ runStep /\ advance
    /\ UNCHANGED <<ex, m, sstr, spos, epos, op, matches, pc, result>>

matchTestEnd ==
    /\ pc = "loop" /\ op \in matchTestOps /\ ~matchTestGuard
    /\ Answer(accepted)
    /\ UNCHANGED <<curr, cstates>>

(* matchForward and matchReverse: every position at which the machine      *)
(* accepts after consuming it.                                             *)
matchOps == {"matchForward", "matchReverse"}
matchFirstOnly == valid /\ ~(accepted \/ rejected)    \* mutant: stops too early
matchGuard == valid /\ ~rejected

matchStep ==
    /\ pc = "loop" /\ op \in matchOps /\ matchGuard
    /\ runStep /\ advance
    /\ matches' = IF inAccepted(machine, cstates') THEN Append(matches, curr) ELSE matches
    /\ UNCHANGED <<ex, m, sstr, spos, epos, op, pc, result>>

matchEnd ==
    /\ pc = "loop" /\ op \in matchOps /\ ~matchGuard
    /\ Answer(FALSE)
    /\ UNCHANGED <<curr, cstates>>

(* The caller takes the answer.  The executor keeps its machine, its       *)
(* iterator and its tokens, and can be called again.                       *)
Take ==
    /\ pc = "done"
    /\ op' = "test" /\ matches' = <<>> /\ pc' = "idle" /\ result' = FALSE
    /\ UNCHANGED <<ex, m, sstr, spos, epos, curr, cstates>>

Loop == testStep \/ testEnd \/ matchTestStep \/ matchTestEnd \/ matchStep \/ matchEnd

Next ==
    \/ /\ pc = "idle"
       /\ \E c \in IF m = "none" THEN Asked(ex) ELSE Repeated(ex) :
             Call(c[1], c[2], c[3], c[4])
    \/ Loop
    \/ Take

(* The code inside a call runs on; whether one is made is up to the caller. *)
Spec == Init /\ [][Next]_vars /\ WF_vars(Loop)

-----------------------------------------------------------------------------
(* What the loops over chars rely on, which RegexCompilation checks of the *)
(* compiler: on the words they can come to read in the intervals asked     *)
(* about, all of which lie in their strings, the forward machine accepts   *)
(* the language and the reverse machine its reversal.                      *)
inString(c) == c[3] <= c[4] + 1 /\ c[4] < Len(c[2])
askedWords(calls) ==
    UNION {{SubSeq(c[2], i, j) : i \in c[3]+1..c[4]+2, j \in c[3]..c[4]+1} : c \in calls}

CompiledRight(e, calls) ==
    /\ WellFormed(e.forward) /\ WellFormed(e.reverse)
    /\ calls \subseteq Ops \X Seq(Chars) \X Nat \X Int
    /\ \A c \in calls : inString(c)
    /\ \A w \in askedWords(calls) :
          /\ w \in e.lang <=> accepts(e.forward, w)
          /\ w \in e.lang <=> accepts(e.reverse, Reverse(w))

-----------------------------------------------------------------------------
(* Properties *)

word(i, j) == SubSeq(sstr, i + 1, j + 1)
inLang(i, j) == word(i, j) \in ex.lang

(* README.md:149: test answers whether the interval is in the language of  *)
(* the expression, the early way out on an empty state included.           *)
TestIsMembership ==
    pc = "done" /\ op = "test" => result = inLang(spos, epos)

(* matchTestForward answers whether some prefix of the interval, the empty *)
(* one included, is in the language, matchTestReverse whether some suffix  *)
(* is: the reverse machine accepts the reversal of the forward one.        *)
TestsFindAnEnd ==
    /\ pc = "done" /\ op = "matchTestForward" =>
          result = \E j \in spos-1..epos : inLang(spos, j)
    /\ pc = "done" /\ op = "matchTestReverse" =>
          result = \E i \in spos..epos+1 : inLang(i, epos)

(* matchForward lists the ends of all non-empty prefixes in the language   *)
(* in ascending order, which set_intersection and the choice of the        *)
(* longest match rely on, matchReverse the first positions of the          *)
(* suffixes, longest last.  An end is given by the position of the first   *)
(* byte of its last character.                                             *)
firstByte(j) == ex.unicode => ~isContinuationByte(byte(sstr, j))
lastByte(j) == IF ex.unicode THEN j + charCodeByteCount(sstr, j) - 1 ELSE j

lists(s, S) == s \in Seq(S) /\ S \subseteq Range(s)
ascending(s) == \A x, y \in DOMAIN s : x < y => s[x] < s[y]
descending(s) == \A x, y \in DOMAIN s : x < y => s[x] > s[y]

MatchesListEveryEnd ==
    /\ pc = "done" /\ op = "matchForward" =>
          /\ lists(matches, {j \in spos..epos : firstByte(j) /\ inLang(spos, lastByte(j))})
          /\ ascending(matches)
    /\ pc = "done" /\ op = "matchReverse" =>
          /\ lists(matches, {i \in spos..epos : inLang(i, epos)})
          /\ descending(matches)

(* Every call returns: the iterator leaves the interval, or the machine    *)
(* stops it before.                                                        *)
EveryCallReturns == pc = "loop" ~> pc = "done"

=============================================================================
