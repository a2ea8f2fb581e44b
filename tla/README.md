# A verification project for BREX

BREX is a C++ library of regular expressions: it parses an expression, resolves the
names in it, compiles it into a pair of nondeterministic automata (one that reads
forwards, one that reads backwards) and runs them to answer eight questions about an
interval of a string.  This directory holds TLA+ modules translated from that code, the
TLC configurations that check them on small instances, and proofs checked by TLAPS.

Paths below are relative to the repository (`src/regex/...`); in `PROJECT.json` the
repository is `src/`, so the same file is `src/src/regex/...`.

## The system

There are no threads, nothing is persisted and nothing is sent.  What makes this code
hard is not scheduling but bookkeeping: work lists whose passes feed each other, counters
with a fixed width, positions that include both ends of an interval, twin copies of an
algorithm for the two directions, and conditions one component silently relies on another
to establish.

| Component | Code | State it keeps | Operations | Talks to |
|---|---|---|---|---|
| NFA machine | `nfa_machine.h`, `nfa_machine.cpp` | none between calls; per call a work set, a fixpoint set and the next state | `intitializeMachine`, `stepMachine`, `inAccepted`, `allRejected` | called by the executor |
| NFA executor | `nfa_executor.h` | the two machines, the one in use, an iterator, the tokens | `test`, `matchTestForward`, `matchTestReverse`, `matchForward`, `matchReverse` | calls the machine and the iterator |
| Iterators | `common.h`, `common.cpp` | interval and position, in chars or in bytes of UTF-8 | `valid`, `inc`, `dec`, `get` | used by the executor |
| Components | `brex_executor.h` (`SingleCheckREInfo`, `MultiCheckREInfo`) | executors and flags | test, search and match of a component | call the executors |
| Operations | `brex_executor.h` (`REExecutor`), guards in `brex.h` | three components | the eight operations of the API | call the components |
| Compiler | `brex_compiler.h`, `brex_compiler.cpp` | errors, the vector of states, the stack of names being resolved | `resolve`, `gatherNamedRegexKeys`, `compile...`, `reverseCompile...`, three entry points | makes machines and executors |
| Parser | `brex_parser.h` | position, errors, the calls in progress | `parseRegex` and its parts | makes the syntax of `brex.h` |
| Escapes | `common.cpp`, literals and ranges in `brex_parser.h` | `errno`, which is the process's | `unescape...`, `escape...`, `parserValidate...`, `parse...Literal`, `parseRegexChar` | called by parser and printers |
| System of names | `brex_system.h` | entries, name space mappings, dependencies, names loaded, errors | `processSystem`, lookups | calls parser and compiler |
| Printers | `brex.h`, `common.cpp` | none | BSQON, BSQ, SMT and C++ forms | read back by the parser |
| Command line tool | `brex_cmd.cpp` | options and words read, variables looked up | `processCmdLine`, `main` | parser, compiler, executor, environment |
| Debugger host | `brex_dbg_host.cpp` | none | a fixed sequence of calls | calls everything above |
| Paths | `path/*.h` | none | data types and a glob parser | nothing uses them yet |

What makes each part correct:

- *NFA machine*: a call returns; its answer is the least set of tokens closed under
  epsilon steps, whatever the order in which the work set is drained; counters stay in
  bounds and leave the token with the repeat they count; the unimplemented pass over
  tokens with two counters is never reached.
- *NFA executor*: each of the five loops answers what the language of the expression says
  about the interval, with no off-by-one and no effect of an earlier call.
- *Operations*: a test, a search and a match of the same Regex agree with each other and
  with the substrings the language allows; the match returned is the first and longest.
- *Compiler*: the machines accept the language of the expression and its reversal, with
  names replaced; exactly the expressions with undefined, cyclic or nested-repeat
  expansions are refused; nothing half-built is returned.
- *System of names*: entries are compiled after what they depend on, a cycle is reported,
  a name means the same thing when dependencies are computed and when they are resolved.
- *Iterators*: a walk over an interval of whole characters visits each of them once, and
  ends.
- *Parser*: it returns, reads only what is there, drops nothing it read, and builds the
  expression that is written; what it accepts has the form the compiler and the operations
  rely on.
- *Printers and escapes*: what is printed parses back to the same expression; strings,
  literals and ranges give a text the same meaning; what cannot be read is reported.
- *Command line tool*: it reads the input it was asked to and compiles with the environment
  it checked.

## Modules

| Module | Models | State and actions |
|---|---|---|
| `NFA` | data of the machine: opts, tokens, one token's step on a character or epsilon | operators only; `enclosing` is a ghost that records the repeat a state was emitted under |
| `NFAMachine` | one call of the machine, token by token | `workset`, `fixpoint`, `nstates` as in the code; `Begin` is the filling of the work set and the copy constructor of the fixpoint set, `advanceEpsilon(pass)` one round of a while loop, `passDone` and `fullPass` the ends of the passes |
| `NFAClosure` | reference: least closed set, words accepted | recursive functions |
| `NFASteps` | abstract specification: a call returns the least closed set in one go | `CallInit`, `CallStep`, `Return` |
| `NFAMachineProofs` | theorems about `NFAMachine`, that it implements `NFASteps` among them | - |
| `NFAClosureProofs` | lemmas about the least closed set and the words that are run | - |
| `RegexSyntax` | nodes of `brex.h`, the rewriting of repeats by the parser | operators |
| `RegexLanguage` | reference: the language of an expression | operators |
| `RegexComponents` | components and entries of a Regex | operators |
| `RegexCompiler` | `RegexResolver` and the two compilers, each in its own operators as in the code | operators; the vector of states is threaded through them, placeholders included |
| `RegexCompilation` | `compile{Unicode,C,Path}RegexToExecutor` | one action per component compiled, errors collected as in `RegexCompiler::errors` |
| `UTF8` | bytes, encodings, what the iterator moves by and reads | operators; a walk backwards over nothing but continuation bytes, which ends in an exception (`common.cpp:156`), is outside their domain |
| `NFAExecutor` | the five loops over a `CRegexIterator` or, in an executor with `unicode`, a `UnicodeRegexIterator` | `Call` is the entry of a loop, `...Step` a round, `...End` the exit; `Take` hands over the answer and leaves machine, iterator and tokens as they are, so that a later call, one of `Repeated`, finds what the one before left |
| `NFAExecutorProofs` | theorems about the loops over chars | - |
| `REExecutor` | components and the eight operations | `refuse` is the guard that answers `InvalidRegexStructure`; `collect`, `checkAnchors`, `filterDone`, `select` are the stages of an operation with anchors; what a component is asked takes the string and the interval, as in the code |
| `REExecutorProofs` | theorems about `REExecutor` | - |
| `BuildOrder` | abstract specification: the vertices of a graph are built one at a time, each after those it refers to, until all are built or it gives up | `Link`, `Build`, `Finish`, `GiveUp` |
| `ReSystem` | `ReNSRemapper`, `computeDependencies`, `processSystem` and the recursion of `processRERecursive` | `stack` holds the calls in progress (its entries are the `pending` list), `callee` and `result` the call being made and the answer being given; parser and compiler are constant operators |
| `ReSystemProofs` | theorems about `ReSystem` | - |
| `ReSystemTexts` | `ReSystem` with the resolver of `RegexCompiler` for its compiler | reference: a text spelled out |
| `RegexParser` | `RegexParser`, character by character | `entrypoint` is which of the three parsers is called, `stack` holds the calls in progress, `ret` the value returned to the one on top; one action per function, or per part of one between two calls |
| `RegexParserProofs` | theorems about `RegexParser` | - |
| `RegexPrinter` | the BSQON and the standard form | operators |
| `RegexParsing` | parser and printers together: a session parses texts, and the printed form of what was accepted | `Parse` hands over the next step of the parser, `Reprint` adds a printed text |
| `Escapes` | reading and writing of strings, literals and ranges | operators; a text is a sequence of units, raw bytes or whole escapes; the encoders of strings (`hexEscapeBytes`) and of literals (`extractRegexCharToBytes`) are two, as in the code |
| `EscapedTexts` | a text read by any of the functions, written and read again, `errno` in between; of the unit lists with the same bytes, the one the code reads (`isParsed`) | `Read`, `EscapeString`, `EscapeCodes`, `StandardCodes`, `ParseLongBound` |
| `EscapedTextsProofs` | theorems about `UTF8` and `EscapedTexts` | - |
| `CommandLine` | `processCmdLine` and `main` of the tool | one action per kind of argument, then one per stage of `main` |
| `CommandLineProofs` | theorems about `CommandLine` | - |
| `MC...` | instances for TLC | - |

How they compose.  `NFAMachine` is shown to implement `NFASteps` (the run `machine`,
property `ImplementsSteps`; the theorem `CallsAnswerAtOnce` but for the fairness), so
`NFAExecutor` takes a machine call as one step and uses the operators of `NFAClosure`.
`NFAExecutor` is shown to answer what the language says, so `REExecutor` takes a check to be
a language.  `RegexCompilation` shows that the machines handed to the executor are of the
shape `NFAMachine` assumes (`EmitsWellFormed` is the assumption `MachinesAssumption`) and
accept the language `NFAExecutor` compares with.

`ReSystem` is shown to implement `BuildOrder` (run `system`, property `Implements`; the
theorem `BuildsInOrder` but for the fairness), with the dependencies linked as the graph
and the executors as the vertices built; the mapping forgets the recursion, the errors and
the names loaded.  `ReSystemTexts` gives it the
resolver that `RegexCompilation` is made of, so that the same run compares an executor with
its text spelled out.  `RegexParsing` feeds the output of the printers to the parser.
`NFAExecutor` and `Escapes` share `UTF8`.

Abstractions.  A character is a letter of a small alphabet and a range the set of letters
in it.  The two tests of a repeat bound use `UINT16_MAX` and `INT16_MAX` as constants,
of which only `0 < INT16_MAX < UINT16_MAX` is assumed.  A pass of the machine takes the
least token of an ordered set in C++ and any token here.  An alternative's follow states
are a set here and a vector there: they are inserted into sets.  A resolver's errors are a
set.  In `REExecutor` a character is one position wide.

In `ReSystem` an entry is its index, a name its name space and its last part, an executor
the Regex it was compiled from with the names replaced, and a text what the parser made of
it; the order in which a set of dependencies is walked is left open.  In `RegexParser` a
text is a sequence of characters, an error is only whether there was one, and, once there
is one, of the elements read so far only whether there are any, since nothing else is ever
asked of them; literals hold plain characters, because escapes have modules of their own,
and names have no `::`.  `UINT16_MAX` is 20 there, so that a number of two digits can be
too large.  In `Escapes` an escape is one unit, from `%` to `;`, with its value, the number
of its digits and whether they are all digits.  In `CommandLine` what the parser, the
compiler and the executor answer is any answer, and the environment is any function.

Operators whose comment begins with "Mutant" are wrong on purpose: each is the body of the
definition below it with a plausible bug, and is used by no specification.  `PROJECT.json`
pairs each with the property that must catch it.

## Runs

| Run | Instance | Shows |
|---|---|---|
| `machine` | 18 machines compiled from 9 expressions in both directions, two letters, widths 5 and 3 | type invariant, the accept state reached without a counter, counters bounded, no token with two, loop invariant of the work list, closed answers, and the refinement to `NFASteps` with its fairness: every call returns |
| `executor` | every call on a new object, and then every operation on all and on parts of one text on the object as that call left it: over chars 8 expressions, every interval of every text of 4 letters; over UTF-8 5 expressions, every interval of whole characters of every text of up to 3 of them (of one, two and four bytes), the forward loops | `test`, the two match tests and the two match lists agree with the language, and every call returns |
| `compilation` | 334 requests: every operator over several bodies, names that are fine, undefined, cyclic, or hide a repeat, three components, wrong kinds, contexts without names or environment | language and reversed language up to 4 letters, well-formed machines, exactly the bad expressions refused, all or nothing |
| `operations` | all eight operations on about 100 Regexes with anchors, negations, front and back checks and conjunctions, every interval of every text of 4 letters | tests, searches and matches agree with the substrings allowed; first, last, longest |
| `system` | about 8,800 systems of three or four entries in two name spaces: texts that name each other in every way, in sequences, choices and repeats, cycles, two entries of one name, parse errors, environment variables, entries that cannot be loaded, four sets of renamings | the pending calls are a path, names are loaded after they are compiled, a failure leaves an error unless an entry was not loadable, cycles and missing names reported are real, executors mean their texts where name spaces agree, the refinement to `BuildOrder`, and `processSystem` returns |
| `parser` | every text of up to 3 of 17 fragments, texts around every form of bounds and around names of variables (well formed, or with a line break or another character in them), every text one fragment away from four templates with anchors, for Unicode and in part for char and path expressions; blanks and comments put in at every place, every expression of up to three operators written out | parsing returns; the expression written is built; what is accepted is well formed, keeps every letter read, and prints to a text that parses back |
| `escapes` | every byte, 17 numbers at the bounds of the encodings, the first number past the last code point, cut-off characters, 781 layouts of up to 4 blanks, line breaks and backslashes and the other white space after a line break, pairs of the characters that interact, the semicolon among them; chars and Unicode | written texts read back, refusals are reported, strings are whole characters, a literal means its string, a range means its literal, and only aligned lines lose their blanks |
| `command_line` | command lines of up to 4 arguments (six options, an expression, a literal, one quote), two variables that are unset, printable, not printable or of several bytes | the tool reads the right input, compiles with the environment it checked |
| `alt_range` | `("a"\|"b"){2}` | *violated*: finding 1 |
| `back_shared` | `"a"+ & "aa"` from the end of the text | *violated*: finding 2 |
| `unicode_back` | `"a".*` from the end of texts of two characters over UTF-8 | *violated*: finding 3 |
| `silent_load` | the systems of `system` | *violated*: finding 4 |

Bounds and why they are enough.  The machine's behaviour depends on its structure and on the
order of a count and four constants, so two letters, repeats up to 4 and a saturation point
of 5 reach every branch of the epsilon step, saturation of an unbounded repeat included.
`UINT16_MAX` is 7 in the runs on texts of four letters, so that no counter saturates in them
and the language is the reference.  Four letters leave room for a prefix, a two-letter match
and a suffix, and for empty ones of each; the longest bound of a repeat there is 3.
`Repeated` holds the calls made on an object that has answered before: each operation, on a
whole text and on parts of it.

The passing runs keep to instances where the disagreements listed below do not bite, and
each property that has to says in its definition or its comment what it leaves out.
`executor`: the bodies of counted repeats begin and end with a character (finding 1),
repeats have a maximum (5), over UTF-8 only forward loops on whole characters (3, 9), and
`MatchesListEveryEnd` says where the code puts an end (8).  `operations`: conjunctions are
not searched backwards (2, 6) and what is tested for, other than by `test`, does not accept
the empty word (7); the ASSUME of `MCREExecutor` says so.
`system`: `FailureIsReported` excepts entries that cannot be loaded (4), `ErrorsAreTrue`
and `AlikeTextsAreMeant` ask for name spaces that agree (10, 11).  `parser`:
`WantedIsKept` is about texts without a component too many (12), `UnnamedParsesBack` about
forms without the wrong name (17); no text leaves a range open after a hyphen (14), breaks
a line in a literal (16) or is shorter than its delimiters (15), no range begins with a
hyphen or a caret once sorted (18), and texts with too few components end a session as
`undefined` (13).  `escapes`: `WrittenReadsBack` lets an error left in `errno` refuse a text
(19), or a number be past the last code point (25), and reads the longer forms as well (20),
`AlignmentHasBackslash` is not about texts that end in a line break and white space (21).
`command_line`: `StdinWhenAskedFirst` is about options before words (22).  So a property
whose exception is the very hazard does not catch it, and the hazards of findings 12, 19 and
25 have no property.

Three entries are the smallest system with a cycle through another entry, a diamond and a
bystander; a fourth gives both name spaces an entry of each name.  Three fragments reach
every pair of neighbours with something before or after; the templates reach the anchored
forms, which take seven.  Characters of one, two and four bytes give walks of three
lengths, and the last byte of the widest is the code of another.  A command line of four
arguments has room for both words and two options, before, between and after them.

`compilation`, `operations`, `system`, `parser`, `escapes`, `command_line` and the runs of
their modules model a program that stops, so their configurations do not check for
deadlock.

Fairness.  The code is sequential: a call that has begun keeps running.  So there is weak
fairness of the code of a call, and none of the caller: `Step` of a machine's call
(`FairSpec` of `NFAMachine`), `Loop` of an executor's, `Parse` of a session,
`Next` of `ReSystem`, which is one call.  The fairness of
`NFASteps` (a call returns) is what is shown, not assumed.

## Findings

Places where the code does something else than its documents, comments, messages or tests
say, met while modelling.  The first four are the subject of a run that must be violated:

1. `alt_range`.  *Counted repeats of alternatives match nothing.*  On entering a repeat the
   token for the first round is inserted into the next state as it is
   (`nfa_machine.cpp:163`), not handed to `processSingleStateEpsilonTransition`.  If the
   body begins with an alternative, an optional or a loop, the token sits in an epsilon
   state that no character moves.
2. `back_shared`.  *Matches from the end of a conjunction are lost.*
   `computeSharedMatches` (`brex_executor.h:226`) needs ascending lists; `matchReverse`
   lists starts in descending order.
3. `unicode_back`.  *Walking backwards over UTF-8 stops moving.*
   `charCodeByteCountReverse` (`common.cpp:156`) counts continuation bytes only: 0 on a
   first byte.
4. `silent_load`.  *A dependency that cannot be loaded is a silent failure.*
   `loadIntoNameMap` (`brex_system.h:237`) refuses anchors, checks and conjunctions without
   an error, and `processSystem` stops there.

The others bound the passing runs, as said above, and have no run of their own:

5. *A repeat without a maximum has one.*  The parser writes `UINT16_MAX`
   (`brex_parser.h:608`); the machine and the comment at `brex.h:403` say `INT16_MAX`.
   `"a"{2,}` refuses more than 65535 letters, and `"a"{2,32767}` has no maximum.
6. *Checks of a conjunction look at the wrong text from the end.*
   `validateMatchSetOptions` pairs the start of the interval with the position found
   (`brex_executor.h:354`); from the end, that position is the start of the match, and
   `"a"*"b" & "ab"$` answers the `"b"` of `aab`.
7. *Tests and matches disagree about the empty match.*  `testFront` of `"b"?` before an
   `a` accepts, `matchFront` (`nfa_executor.h:98`) reports no match.
8. *Match lists end inside a character.*  Over UTF-8 `matchForward` (`nfa_executor.h:102`)
   pushes the first byte of the last character of the match.
9. *Searches begin inside a character.*  `testContains` (`brex_executor.h:124`) starts at
   every byte, and a continuation byte reads as a character of its own: the micro sign is
   found in the last byte of U+1F335.
10. *Names are renamed twice.*  `brex_system.h:222` remaps what line 111 has remapped, so a
    dependency in a name space mapped to one that is itself mapped is not found.
11. *Names are read where they are used.*  The resolver has the name space of the entry
    being compiled (`brex_system.h:298`), for the texts of its dependencies too.
12. *A component is dropped.*  Without anchors `parseRegex` takes `rv[0]` and leaves the
    rest (`brex_parser.h:896`): `/<"a">"b"/` is accepted as `/"a"/`.
13. *A missing component is read.*  After reporting it, `rv[1]` is read (`brex_parser.h:893`).
14. *An open range reads past the text*, as in `/[a-/` (`brex_parser.h:418`).
15. *The shortest char expressions have length -1*, as `/c` (`brex_parser.h:818`).
16. *A raw line break in a literal hangs the parser.*  `parseUnicodeLiteral` returns without
    moving on (`brex_parser.h:279`), and its caller tries again.
17. *The BSQON form of a name is not a name.*  `{N}` is printed (`brex.h:260`), `${N}` parsed.
18. *Ranges change when printed.*  Bounds are sorted, so `[a-^]` prints as `[^-a]`
    (`brex.h:104`).
19. *A long repeat bound disables hexadecimal escapes.*  `errno` is asked and never reset
    (`common.cpp:328`).
20. *U+07FF and U+FFFF are encoded one byte too long* (`common.cpp:367`).
21. *Blanks after the last line break vanish.*  The scan for an aligned line takes the end
    of the text for a backslash (`common.cpp:471`).
22. *`-s` after the input file is ignored* (`brex_cmd.cpp:78`).
23. *Variables are taken byte by byte* into a Unicode literal (`brex_cmd.cpp:208`).
24. *One quote is a quoted literal* (`brex_cmd.cpp:145`).
25. *Numbers past the last code point are read but not read back.*  The check of raw UTF-8
    (`common.cpp:914`) asks only that characters are whole, so the four bytes `F4 90 80 80`
    are a literal; they are printed as `%x110000;`, which `common.cpp:360` refuses.

## Proofs

Every theorem below is proved for all values of the constants its module's assumptions
allow, and the properties it states are those the runs check.  The inductive invariants
were checked by TLC on the instances of the runs before they were proved.

| Module | Theorems |
|---|---|
| `NFAMachineProofs` | `TypeCorrect` (`TypeOK`), `FullStatesUnreachable` (`NeverAborts`), `AcceptNeedsNoCounter` (`AcceptIsSimple`), `CountsAreBounded` (`CountInBounds`), `WorklistIsSound` (`WorklistSound`), `CallsReturnClosedStates` (the action property `ReturnsClosed`), `CallsAnswerAtOnce`: `NFAMachine` implements `NFASteps`, but for the fairness |
| `NFAExecutorProofs` | `TestsAreRight` (`TestIsMembership`), `MatchTestsAreRight` (`TestsFindAnEnd`), `MatchesAreRight` (`MatchesListEveryEnd`), each for the executors over chars |
| `RegexParserProofs` | `CursorInside`, `AcceptedRegexesAreWellBuilt` (`AcceptedIsWellBuilt`) |
| `REExecutorProofs` | `TestsSplitTheInterval` (`TestSplitsTheInterval`), `FrontsAreLongest` (`FrontIsLongest`), `BacksAreLongest` (`BackIsLongest`), `ContainsAreFirstAndLast` (`ContainsFirstAndLast`) |
| `ReSystemProofs` | `SystemIsTyped` (`TypeOK`), `RecursionIsAPath` (`PendingIsAPath`), `RecursionIsBounded`, `NamesComeFromExecutors` (`NamesAreBuilt`), `CompilerHasTheNames` (`DependenciesAreNamed`), `FailureIsExplained` (`FailureIsReported`), `OnlyUnloadableIsSilent`, `ErrorsSayTheTruth` (`ErrorsAreTrue`), `BuildsInOrder`: `ReSystem` implements `BuildOrder`, but for the fairness |
| `CommandLineProofs` | `StdinOnlyWhenAsked` (`StdinWhenAskedFirst`), `EnvironmentIsComplete` (`CompiledWithItsEnvironment`) |
| `EscapedTextsProofs` | `RefusalsAreReported` (`RefusedIsReported`), `ReadStringsAreWellFormed` (`StringsAreWellFormed`), `ReadersGiveOneMeaning` (`ReadersAgree`), `AlignmentNeedsABackslash` (`AlignmentHasBackslash`), `WhatIsWrittenIsReadBack` (`WrittenReadsBack`); of `UTF8`, `GetReadsWhatIsWritten`, `DecStopsAtTheFirstByte`, `TwoCodePointsAreOverlong` |

*The machine.*  None of the invariants is inductive alone.  `NeverAborts` needs to know
that no token ever has a counter of one repeat while it sits in another, so the inductive
invariant `IInv` says where every token of every set is: a simple token is outside all
repeats, a single token is inside, or back at, the repeat it counts (`GoodTokens`), and there
are no full tokens.  That this survives an epsilon step is where the assumption on the
machines is used: a state's successors are under the same repeat or are that repeat
(`WellFormed`, shown for the compiler's output by the run `compilation`).  `CountInBounds`
needs that too, since a count is compared with the bounds of the repeat the token
stands at.  `WorklistSound` needs only the monotony of the three sets.  `ReturnsClosed`
follows from `WorklistSound` in the step that ends a call, where the work set is empty.
Each action has a lemma for each conjunct it can disturb; the operators of `NFA` have
lemmas of their own.

*The machine as one step.*  `WorklistSound` says that nothing is lost; that a call answers
the *least* closed set needs the other half, `NothingExtra`: the fixpoint set stays within
the least closed set of the tokens the call began with, and the state under construction
holds nothing but what follows from the fixpoint set.  The reference `epsilonReach` is a
recursive function over sets of tokens.  That it is the least closed set is proved without
an induction: the tokens of a machine are finite (`TokensFinite`), so of the sets with a
wrong answer one is largest, but its answer is that of a larger one.  These facts, and that
`run` reads a word letter by letter, are the lemmas of `NFAClosureProofs`.

*The loops of the executor.*  What an answer means is a statement about words, and what a
loop has in hand is tokens.  The invariant joins them: after `count` rounds the tokens are
those the machine is left with by the part of the interval read so far, which a walk
backwards reads from its last letter on (`tokensAfter`, `readAs`), and what has been decided
by then is right for the parts read before (`Looping`).  Going on to the next letter is
`Advances`, in both directions.  The ways out before the end of the interval are right
because from no tokens none ever follow (`TokensStayNone`), so no longer part can be
accepted.  The theorems are about every string and interval and assume of the machines
only `MachinesAreRight`: they accept the language, and its reversal, on the words in the
intervals asked about.  That is what `CompilesTheLanguage` checks of the compiler, and
what TLC evaluates for the expressions of the run `executor` (`CompiledAssumption`).  It
fails for the expressions of findings 1 and 5, and the loops answer wrongly there.

*The parser.*  What is accepted is decided at the end by a handful of tests, but what it is
made of was put together before, call by call.  So the invariant is about the stack
(`CallsGood`): which call can have made which (`called`), what each has collected so far
(`goodFrame`), and that what has just been returned is what the call below waits for
(`fits`).  All of it holds only while no error has been reported, because recovery goes on
with whatever it has (a `nullptr` among a sequence's parts, a repeat of the bounds just
refused), and that is enough: with an error nothing is returned.  "Well built" says
something of every depth of an expression; `good` says it of all depths at once, and is
inherited by a node from its parts since the nodes a level down are those of the parts
(`NodesOfParts`, by a least level where they are not).  `CursorStaysInside` is not only a
theorem of its own: a cursor inside the text is what makes the functions that scan ahead
well defined.  The scans over blanks, comments and ranges are recursive functions that can
hop to a later position only, so they are defined from the end backwards
(`DefinedFromLater`) and stay inside (`ScansInside`, `RangeElementsInside`).  In the states
with errors the cursor still stays inside: recovery stops at the end of the text.  A text
that `RegexParsing` prints and hands in again is one more text to `RegexParser`, so the
theorems speak of those too.

*The operations.*  The code answers by lists: the ends one expression has, merged with those
of the others, filtered by the checks, paired with the starts, filtered by the anchors, and
one picked.  The properties know of no list.  So the proof goes from lists to sets and back.
What a loop pushes is a list that picks some elements of another in its order (`KeepPicks`),
and of a list two facts are kept, the set it holds and whether it rises or falls.
`std::set_intersection` is followed round by round: what has been passed in one list is less
than what is to come in the other, and what both have passed is shared (`merged`).  Both
lists have to rise for that (`IntersectionHolds`, then `SharedHolds` for any number of them),
which is where a search from the end with a conjunction falls out.  Then each search of a
component holds what its languages say (`FrontLists`, `BackLists`, `ContainsLists`) and
each test agrees with its list (`TestFrontFinds`, `TestBackFinds`, `TestContainsFinds`).

The loop over the spans has the invariant `Loops` of `IInv`: after `n` rounds `mmr` picks, of
the first `n` spans found, those that pass the anchors, `opts` is the rest, and a test still
running has met none; an answer is that of the spans that pass (`chosen`).  `CallOK` is what
the caller brings and no step changes.  The theorems then only relate `chosen` to substrings:
the spans that pass are the guarded ones (`WantedIsGuarded`), the last of a list that rises
is its greatest, and the two sorts pick the earliest and the latest (`FirstIsEarliest`,
`LastIsLatest`).

`TestsSplitTheInterval` holds of all calls.  The others have a hypothesis on the calls,
which `MCREExecutor` evaluates for those of the run: `emptyUntested`, since a test sees the
empty word and a match does not (finding 7), and, but for `FrontsAreLongest`,
`singlesBackwards`, since a conjunction is searched wrongly from the end (findings 2
and 6).  Neither can be dropped: the properties fail there.

*The system of names.*  `PendingIsAPath` needs to know that a call in progress is of the
dependency its caller is at (`CallsAreDependencies`), that an answer `ok` is about a compiled
entry (`AnswersAreBuilt`), and where the outer loop is (`LoopIsAt`); `FailureIsReported` needs
that a failure on its way up has a cause (`FailuresHaveCauses`).  All of them speak of
`depmap` and of the parsed texts, so the phases before the walk have an invariant of their
own (`PrepareInv`): each loop has filled what it has passed, and nothing is missing unless
there is an error.  `ErrorsAreTrue` rests on a second one (`TruthInv`): while nothing is renamed
twice the links are what the texts mention, what is compiled is closed under links and on
no cycle.  A cycle reported is real because the calls in progress from the entry met again
on form one; an entry compiled is on none because all it links to was compiled before it, and is
on none.  `BuildsInOrder` has one step per action: compiling an entry is
`Build`, the end of the second loop `Link`, the ends of `processSystem` `Finish` and
`GiveUp`, and all else leaves the graph as it is.

*The command line.*  The invariant says what has been read of the arguments before the
one looked at: `isstdin` is set if and only if `-s` is among them, and, with the options
first, excludes a second word, since a word after `-s` is refused.  The environment is
followed through the loop that looks variables up (`LookedUp`): it is left only when every
name asked for has a value.

*UTF-8.*  A number that four bytes hold is written in any of the ways of `writes`, which are
those of both encoders (`TwoCodePointsAreOverlong`; `BytesOfHex` has the strings' copy), and
anywhere in a string (`writtenAt`): the bytes of it are digits in base 64 that `decode` puts
together.  What the theorems say of the two code points and of walking backwards is findings
20 and 3, for every string.

*Escapes and strings.*  The state is small (`TextsInv`: what was read last is what the text
still reads as, whatever has happened to `errno` before), so these theorems are statements
about every text.  The difficulty is that a text is put together unit by unit and walked
character by character, and that nothing of it can be proved by induction.  Two devices stand
in for it.  A concatenation is followed through its partial sums (`FlattenedPositions`): the
piece of unit `i` stands at a place that is known, with the first or the last unit for which
a claim fails taken to a contradiction.  The validator's walk is the set of places from which it
gets to the end of a string (`whole`), the largest set that leads on within itself: a string is
whole if 0 is in it.  With them:

- `StringsAreWellFormed`: the validator walks the raw bytes of the text, with a single byte
  for each escape, and the string has one to four bytes there.  From the end backwards, a place
  the first walk gets through from stands for one the second gets through from
  (`StringIsWhole`), and what alignment leaves out are single bytes.
- `ReadersAgree`: the literal's reader takes the characters at the first bytes, the string's
  all bytes, so the code points of the string are those of the literal, unit by unit; a range
  has one unit, or the bytes of one character.
- `AlignmentHasBackslash`: without a backslash the scan ends where the text does, so it counts
  only where white space is all that follows; `keptUnits` is then all of the text.
- `WrittenReadsBack`: a second invariant, `WrittenInv`, says that a text written is what one
  of the writers makes of something a reader can have answered.  A unit written for a code is
  read as that code (`NamesAreReadBack`): both directions search a table in its order, and no
  table gives one name to two codes (`OneCodeForAName`), though it does give two names to one.
  Then that every unit is allowed where it stands, and the concatenation as before.

Two of these properties were too strong as they stood and were corrected when their proof
failed: blanks that end a text are any white space, not only spaces and tabs (finding 21), and
numbers past the last code point are accepted as raw bytes (finding 25).  The run `escapes`
has had both cases since.

Assumptions: `WidthAssumption` and `MachinesAssumption` (two widths in order; machines as
the compiler emits them, with finitely many states), `RepeatedAssumption` (later calls are
calls an executor may be asked for), `SystemsAssumption` and `CommandLinesAssumption`
(systems and command lines are lists, an option is its name), `AskedAssumption` and
`TextsAssumption` (calls are of what the parser lets through, strings are sequences),
`SessionsAssumption` (texts are sequences of the characters of the model) and the
`TextsAssumption` of `EscapedTexts` (texts are sequences of units, cut up as the code does),
all evaluated by TLC in the runs `machine`, `executor`, `system`, `command_line`,
`operations`, `parser` and `escapes`.  Parser and compiler of `ReSystem` are any operators,
and so are the environment and what main is answered in `CommandLine`.

Only model-checked: that a call of the machine, of the executor, of the parser and of
`processSystem` returns, and with it the fairness of the two abstract specifications
(liveness is outside the prover's reach); `AlikeTextsAreMeant` and everything about the
recursive operators of `RegexLanguage`, `RegexCompiler` and `RegexPrinter`, which the prover
cannot load: `RegexCompilation`, the other properties of `RegexParsing` and `ReSystemTexts`;
and the loops of `NFAExecutor` over UTF-8, whose reverse walk is wrong (finding 3).

Notes for whoever changes a proof.  Operators on `(x :> v) @@ f` and the empty string are
beyond the SMT encoding, so a map with one more is `put` and the option of a word `"none"`.
`UNION A \cup UNION B` is not read alike by SANY and by the prover: write the parentheses.
Numbers as large as code points are left to SMT alone, in inequalities and not in intervals.

## Plan

Done: the machine, its proofs and its refinement, the executor over both iterators, the
compiler, components and operations and their proofs, the system of names and its proofs,
the parser with its proofs and the printers it is read back from, escapes and encodings and
their proofs, the command line tool and its proofs.

Next: the loops of `NFAExecutor` over UTF-8, forwards, with `GetReadsWhatIsWritten`.

Not modelled, and not planned: the SMT and C++ forms of expressions and characters (their
readers are other programs, so nothing here says what they should mean), the debugger host
(a fixed sequence of the calls above), the path types and the glob parser (nothing uses or
tests them, and the parser is unfinished), the messages of errors, and the performance of
the simulation.
