------------------------- MODULE RegexCompilation -------------------------
(***************************************************************************)
(* RegexCompiler::compile{Unicode,C,Path}RegexToExecutor                   *)
(* (src/src/regex/brex_compiler.h): a parsed Regex becomes an executor,    *)
(* component by component, or a list of errors.                            *)
(*                                                                         *)
(* The errors of a resolution are a set here, a vector in the code.        *)
(***************************************************************************)
EXTENDS RegexCompiler, RegexLanguage, RegexComponents, NFAClosure, Integers

CONSTANT
    Requests     \* records regex, api and scope (the named and env expressions
                 \* in force), what callers ask to be compiled

(* The three public functions, and the tags each expects. *)
Apis == {"Unicode", "C", "Path"}
expectedCtag(api) == IF api = "Unicode" THEN "Unicode" ELSE "Char"
expectedRtag(api) == IF api = "Path" THEN "Path" ELSE "Std"

kindErrors(api, re) ==
    IF re.ctag # expectedCtag(api) THEN {<<"ctag">>}
    ELSE IF re.rtag # expectedRtag(api) THEN {<<"rtag">>} ELSE {}

(* compileSingleTopLevelEntry: the check, or the errors of the resolver. *)
compileSingleTopLevelEntry(sc, entry) ==
    LET r == resolve(sc, entry.opt)
    IN  IF r.errors # {} THEN [ok |-> FALSE, errors |-> r.errors]
        ELSE [ok |-> TRUE, errors |-> {},
              check |-> [forward |-> forwardMachine(r.opt),
                         reverse |-> reverseMachine(r.opt),
                         isNegative |-> entry.isNegated,
                         isFrontCheck |-> entry.isFrontCheck,
                         isBackCheck |-> entry.isBackCheck]]

(* compileComponent: a conjunction stops at its first entry that fails. *)
compileEntries(sc, entries) ==
    LET step(acc, e) ==
          IF ~acc.ok THEN acc
          ELSE LET one == compileSingleTopLevelEntry(sc, e)
               IN  IF one.ok THEN [acc EXCEPT !.checks = Append(@, one.check)]
                   ELSE [ok |-> FALSE, errors |-> one.errors, checks |-> <<>>]
    IN  FoldLeft(step, [ok |-> TRUE, errors |-> {}, checks |-> <<>>], entries)

compileComponent(sc, cc) ==
    compileEntries(sc, IF cc.tag = "Single" THEN <<cc.entry>> ELSE cc.musts)

-----------------------------------------------------------------------------
VARIABLES
    request,                 \* the call
    pc,                      \* "kind", "pre", "post", "re", "finish", "done"
    optPre, optPost, cre,    \* checks of the components, <<>> for nullptr
    errors,                  \* RegexCompiler::errors, then errinfo
    executor                 \* FALSE for nullptr, TRUE once one is returned

vars == <<request, pc, optPre, optPost, cre, errors, executor>>

regex == request.regex
scope == request.scope

Init ==
    /\ request \in Requests
    /\ pc = "kind"
    /\ optPre = <<>> /\ optPost = <<>> /\ cre = <<>>
    /\ errors = {} /\ executor = FALSE

checkKind ==
    /\ pc = "kind"
    /\ errors' = kindErrors(request.api, regex)
    /\ pc' = IF errors' = {} THEN "pre" ELSE "done"
    /\ UNCHANGED <<request, optPre, optPost, cre, executor>>

compilePre ==
    /\ pc = "pre" /\ pc' = "post"
    /\ IF regex.preanchor = NoComponent THEN UNCHANGED <<optPre, errors>>
       ELSE LET c == compileComponent(scope, regex.preanchor)
            IN  optPre' = c.checks /\ errors' = errors \cup c.errors
    /\ UNCHANGED <<request, optPost, cre, executor>>

compilePost ==
    /\ pc = "post" /\ pc' = "re"
    /\ IF regex.postanchor = NoComponent THEN UNCHANGED <<optPost, errors>>
       ELSE LET c == compileComponent(scope, regex.postanchor)
            IN  optPost' = c.checks /\ errors' = errors \cup c.errors
    /\ UNCHANGED <<request, optPre, cre, executor>>

compileRe ==
    /\ pc = "re" /\ pc' = "finish"
    /\ LET c == compileComponent(scope, regex.re)
       IN  cre' = c.checks /\ errors' = errors \cup c.errors
    /\ UNCHANGED <<request, optPre, optPost, executor>>

(* Mutant: only the middle component is looked at. *)
finishOnRe ==
    /\ pc = "finish" /\ pc' = "done"
    /\ executor' = (cre # <<>>)
    /\ UNCHANGED <<request, optPre, optPost, cre, errors>>

(* An executor is returned only when no component reported an error. *)
finish ==
    /\ pc = "finish" /\ pc' = "done"
    /\ executor' = (errors = {})
    /\ UNCHANGED <<request, optPre, optPost, cre, errors>>

Next == checkKind \/ compilePre \/ compilePost \/ compileRe \/ finish

Spec == Init /\ [][Next]_vars

-----------------------------------------------------------------------------
(* Properties *)

CONSTANT WordLen    \* the words compared are of at most this length

parts == {<<regex.preanchor, optPre>>, <<regex.postanchor, optPost>>, <<regex.re, cre>>}
builtChecks ==
    UNION {{p[2][i] : i \in DOMAIN p[2]} : p \in parts}

(* One of several components failing leaves no executor behind, and one    *)
(* that is returned has a check for every entry of every component: the    *)
(* nullptr of a component never reaches REExecutor.                        *)
AllOrNothing ==
    pc = "done" =>
        /\ executor = (errors = {})
        /\ executor => \A p \in parts : Len(p[2]) = Len(entriesOf(p[1]))

(* Every machine the compiler emits has the shape the machine relies on    *)
(* (the assumption of NFAMachine), whatever names were expanded: repeats   *)
(* do not nest and counters cannot escape.                                 *)
EmitsWellFormed ==
    \A c \in builtChecks : WellFormed(c.forward) /\ WellFormed(c.reverse)

(* The forward machine of an entry accepts the language of the expression  *)
(* with its names replaced, the reverse machine the reversed words.        *)
expand(opt) == resolve(scope, opt).opt
CompilesTheLanguage ==
    pc = "done" /\ executor =>
        \A p \in parts : \A i \in DOMAIN p[2] :
            LET L == Language(expand(entriesOf(p[1])[i].opt), WordLen)
            IN  \A w \in Words(WordLen) :
                    /\ accepts(p[2][i].forward, w) = (w \in L)
                    /\ accepts(p[2][i].reverse, Reverse(w)) = (w \in L)

(* gatherNamedRegexKeys, from which ReSystem orders its entries, sees      *)
(* every name that resolve looks up, and resolve refuses exactly the       *)
(* expressions that reach an undefined name or a cycle of names, or whose  *)
(* expansion puts one counted repeat inside another.                       *)
defined(key) ==
    IF key.kind = "env" THEN scope.envEnabled /\ key.name \in DOMAIN scope.env
    ELSE scope.namesEnabled /\ scope.realname[key.name] \in DOMAIN scope.named

namesOf(key) ==
    IF key.kind = "const" /\ defined(key)
      THEN gatherNamedRegexKeys(scope.named[scope.realname[key.name]]) ELSE {}

RECURSIVE reachable(_)
reachable(K) ==
    LET more == K \cup UNION {namesOf(key) : key \in K}
    IN  IF more = K THEN K ELSE reachable(more)

RECURSIVE rangeDepth(_)
rangeDepth(opt) ==
    LET deepest(S) == Max({0} \cup S)
    IN  CASE opt.tag = "NamedRegex" -> rangeDepth(scope.named[scope.realname[opt.rname]])
          [] opt.tag = "RangeRepeat" -> 1 + rangeDepth(opt.repeat)
          [] opt.tag \in {"StarRepeat", "PlusRepeat"} -> rangeDepth(opt.repeat)
          [] opt.tag = "Optional" -> rangeDepth(opt.opt)
          [] opt.tag = "AnyOf" -> deepest({rangeDepth(opt.opts[i]) : i \in DOMAIN opt.opts})
          [] opt.tag = "Sequence" ->
               deepest({rangeDepth(opt.regexs[i]) : i \in DOMAIN opt.regexs})
          [] OTHER -> 0

compilable(opt) ==
    LET K == reachable(gatherNamedRegexKeys(opt))
    IN  /\ \A key \in K : defined(key) /\ key \notin reachable(namesOf(key))
        /\ rangeDepth(opt) <= 1

RefusesExactlyTheBad ==
    pc = "done" /\ kindErrors(request.api, regex) = {} =>
        executor = \A p \in parts : \A i \in DOMAIN entriesOf(p[1]) :
                        compilable(entriesOf(p[1])[i].opt)

=============================================================================
