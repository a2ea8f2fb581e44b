--------------------------- MODULE RegexCompiler ---------------------------
(***************************************************************************)
(* RegexResolver and RegexCompiler (src/src/regex/brex_compiler.{h,cpp}):  *)
(* names are replaced by the expressions they stand for, then the result   *)
(* is compiled into a forward and a reverse automaton.                     *)
(***************************************************************************)
EXTENDS RegexSyntax

-----------------------------------------------------------------------------
(* RegexResolver.  The answer is the resolved expression and the set of    *)
(* the errors met; scope is what the resolver carries:                     *)
(*   named    namedRegexes, a function from full names to expressions      *)
(*   env      envRegexes, a function from keys to literals; {} domain and  *)
(*            envEnabled FALSE where env names are not supported           *)
(*   realname nameResolverFn applied with its state; namesEnabled is FALSE *)
(*            where it is nullptr                                          *)
(*   pending  pending_resolves                                             *)
(*   inRange  inRangeRepeat                                                *)

resolved(opt, errors) == [opt |-> opt, errors |-> errors]

RECURSIVE resolve(_, _)

resolveNamedRegexOpt(scope, opt) ==
    LET real == scope.realname[opt.rname]
    IN  IF ~scope.namesEnabled THEN resolved(opt, {<<"names not supported", opt.rname>>})
        ELSE IF \E i \in DOMAIN scope.pending : scope.pending[i] = real
          THEN resolved(opt, {<<"recursive", opt.rname>>})
        ELSE IF real \notin DOMAIN scope.named
          THEN resolved(opt, {<<"undefined", opt.rname>>})
        ELSE resolve([scope EXCEPT !.pending = Append(@, real)], scope.named[real])

resolveEnvRegexOpt(scope, opt) ==
    IF ~scope.envEnabled THEN resolved(opt, {<<"env not supported", opt.ename>>})
    ELSE IF opt.ename \notin DOMAIN scope.env
           THEN resolved(opt, {<<"env undefined", opt.ename>>})
    ELSE resolved(scope.env[opt.ename], {})

(* A resolved alternative that is itself an AnyOf is spliced in. *)
resolveAnyOfOpt(scope, opt) ==
    LET rs == [i \in DOMAIN opt.opts |-> resolve(scope, opt.opts[i])]
        splice(acc, r) == acc \o (IF r.opt.tag = "AnyOf" THEN r.opt.opts ELSE <<r.opt>>)
    IN  resolved(AnyOfOpt(FoldLeft(splice, <<>>, rs)),
                 UNION {rs[i].errors : i \in DOMAIN rs})

(* Mutant: a repeat may be nested. *)
resolveRangeUnchecked(scope, opt) ==
    LET r == resolve([scope EXCEPT !.inRange = TRUE], opt.repeat)
    IN  resolved(RangeRepeatOpt(opt.low, opt.high, r.opt), r.errors)

(* A repeat inside a repeat is an error; the flag survives the expansion   *)
(* of a name.                                                              *)
resolveRangeRepeatOpt(scope, opt) ==
    LET r == resolve([scope EXCEPT !.inRange = TRUE], opt.repeat)
    IN  resolved(RangeRepeatOpt(opt.low, opt.high, r.opt),
                 r.errors \cup (IF scope.inRange THEN {<<"nested range">>} ELSE {}))

resolveSequenceOpt(scope, opt) ==
    LET rs == [i \in DOMAIN opt.regexs |-> resolve(scope, opt.regexs[i])]
    IN  resolved(SequenceOpt([i \in DOMAIN rs |-> rs[i].opt]),
                 UNION {rs[i].errors : i \in DOMAIN rs})

resolve(scope, opt) ==
    CASE opt.tag = "NamedRegex" -> resolveNamedRegexOpt(scope, opt)
      [] opt.tag = "EnvRegex" -> resolveEnvRegexOpt(scope, opt)
      [] opt.tag = "AnyOf" -> resolveAnyOfOpt(scope, opt)
      [] opt.tag = "RangeRepeat" -> resolveRangeRepeatOpt(scope, opt)
      [] opt.tag = "Sequence" -> resolveSequenceOpt(scope, opt)
      [] opt.tag \in {"StarRepeat", "PlusRepeat"} ->
           LET r == resolve(scope, opt.repeat)
           IN  resolved([opt EXCEPT !.repeat = r.opt], r.errors)
      [] opt.tag = "Optional" ->
           LET r == resolve(scope, opt.opt) IN resolved(OptionalOpt(r.opt), r.errors)
      [] OTHER -> resolved(opt, {})

(* The names an expression mentions (gatherNamedRegexKeys), constant and  *)
(* environment ones together.                                              *)
constName(n) == [kind |-> "const", name |-> n]
envName(n) == [kind |-> "env", name |-> n]

RECURSIVE gatherNamedRegexKeys(_)

(* Mutant: names of the environment are forgotten. *)
gatherConstsOnly(opt) ==
    CASE opt.tag = "NamedRegex" -> {constName(opt.rname)}
      [] opt.tag \in {"StarRepeat", "PlusRepeat", "RangeRepeat"} ->
           gatherNamedRegexKeys(opt.repeat)
      [] opt.tag = "Optional" -> gatherNamedRegexKeys(opt.opt)
      [] opt.tag = "AnyOf" ->
           UNION {gatherNamedRegexKeys(opt.opts[i]) : i \in DOMAIN opt.opts}
      [] opt.tag = "Sequence" ->
           UNION {gatherNamedRegexKeys(opt.regexs[i]) : i \in DOMAIN opt.regexs}
      [] OTHER -> {}

gatherNamedRegexKeys(opt) ==
    CASE opt.tag = "NamedRegex" -> {constName(opt.rname)}
      [] opt.tag = "EnvRegex" -> {envName(opt.ename)}
      [] opt.tag \in {"StarRepeat", "PlusRepeat", "RangeRepeat"} ->
           gatherNamedRegexKeys(opt.repeat)
      [] opt.tag = "Optional" -> gatherNamedRegexKeys(opt.opt)
      [] opt.tag = "AnyOf" ->
           UNION {gatherNamedRegexKeys(opt.opts[i]) : i \in DOMAIN opt.opts}
      [] opt.tag = "Sequence" ->
           UNION {gatherNamedRegexKeys(opt.regexs[i]) : i \in DOMAIN opt.regexs}
      [] OTHER -> {}

-----------------------------------------------------------------------------
(* RegexCompiler.  The vector of states becomes a sequence whose element   *)
(* i + 1 is StateID i, each with the repeat it was emitted under; a result *)
(* is the StateID to enter the compiled expression at, and the vector.     *)

compiled(start, code) == [start |-> start, code |-> code]
emit(code, enc, opt) == compiled(Len(code), Append(code, [opt |-> opt, enc |-> enc]))
fill(code, id, opt) == [code EXCEPT ![id + 1].opt = opt]

(* The forward machine: the compile functions chain a literal and a        *)
(* sequence from the last element to the first.                            *)
RECURSIVE compileOpt(_, _, _, _)

compileLiteralOpt(enc, follows, code, opt) ==
    FoldRight(LAMBDA c, acc : emit(acc.code, enc, NFAOptCharCode(c, acc.start)),
              opt.codes, compiled(follows, code))

compileSequenceOpt(enc, follows, code, opt) ==
    FoldRight(LAMBDA r, acc : compileOpt(enc, acc.start, acc.code, r),
              opt.regexs, compiled(follows, code))

compileCharRangeOpt(enc, follows, code, opt) ==
    emit(code, enc, NFAOptRange(opt.compliment, opt.ranges, follows))

compileCharClassDotOpt(enc, follows, code) == emit(code, enc, NFAOptDot(follows))

(* Star and Plus put a placeholder down, compile the body to come back to  *)
(* it, and fill it in; Star is entered at the loop, Plus at the body.      *)
compileLoop(enc, follows, code, opt) ==
    LET this == emit(code, enc, NFAOptAccept)
        body == compileOpt(enc, this.start, this.code, opt.repeat)
    IN  [loop |-> this.start, body |-> body.start,
         code |-> fill(body.code, this.start, NFAOptStar(body.start, follows))]

compileStarRepeatOpt(enc, follows, code, opt) ==
    LET r == compileLoop(enc, follows, code, opt) IN compiled(r.loop, r.code)

compilePlusRepeatOpt(enc, follows, code, opt) ==
    LET r == compileLoop(enc, follows, code, opt) IN compiled(r.body, r.code)

(* The body of a counted repeat is what its own state encloses. *)
compileRangeRepeatOpt(enc, follows, code, opt) ==
    LET this == emit(code, enc, NFAOptAccept)
        body == compileOpt({this.start}, this.start, this.code, opt.repeat)
    IN  compiled(this.start,
                 fill(body.code, this.start,
                      NFAOptRangeK(opt.low, opt.high, body.start, follows)))

compileOptionalOpt(enc, follows, code, opt) ==
    LET body == compileOpt(enc, follows, code, opt.opt)
    IN  emit(body.code, enc, NFAOptAnyOf({body.start, follows}))

compileAnyOfOpt(enc, follows, code, opt) ==
    LET add(acc, r) == LET one == compileOpt(enc, follows, acc.code, r)
                       IN  [follows |-> acc.follows \cup {one.start}, code |-> one.code]
        all == FoldLeft(add, [follows |-> {}, code |-> code], opt.opts)
    IN  emit(all.code, enc, NFAOptAnyOf(all.follows))

compileOpt(enc, follows, code, opt) ==
    CASE opt.tag = "Literal" -> compileLiteralOpt(enc, follows, code, opt)
      [] opt.tag = "CharRange" -> compileCharRangeOpt(enc, follows, code, opt)
      [] opt.tag = "CharClassDot" -> compileCharClassDotOpt(enc, follows, code)
      [] opt.tag = "StarRepeat" -> compileStarRepeatOpt(enc, follows, code, opt)
      [] opt.tag = "PlusRepeat" -> compilePlusRepeatOpt(enc, follows, code, opt)
      [] opt.tag = "RangeRepeat" -> compileRangeRepeatOpt(enc, follows, code, opt)
      [] opt.tag = "Optional" -> compileOptionalOpt(enc, follows, code, opt)
      [] opt.tag = "AnyOf" -> compileAnyOfOpt(enc, follows, code, opt)
      [] opt.tag = "Sequence" -> compileSequenceOpt(enc, follows, code, opt)

(* The reverse machine: the reverseCompile functions, a second copy of the *)
(* code, chain a literal and a sequence from the first element to the last.*)
RECURSIVE reverseCompileOpt(_, _, _, _)

reverseCompileLiteralOpt(enc, follows, code, opt) ==
    FoldLeft(LAMBDA acc, c : emit(acc.code, enc, NFAOptCharCode(c, acc.start)),
             compiled(follows, code), opt.codes)

(* Mutant: in the order of the forward copy. *)
reverseCompileSequenceForwards(enc, follows, code, opt) ==
    FoldRight(LAMBDA r, acc : reverseCompileOpt(enc, acc.start, acc.code, r),
              opt.regexs, compiled(follows, code))

reverseCompileSequenceOpt(enc, follows, code, opt) ==
    FoldLeft(LAMBDA acc, r : reverseCompileOpt(enc, acc.start, acc.code, r),
             compiled(follows, code), opt.regexs)

reverseCompileCharRangeOpt(enc, follows, code, opt) ==
    emit(code, enc, NFAOptRange(opt.compliment, opt.ranges, follows))

reverseCompileCharClassDotOpt(enc, follows, code) == emit(code, enc, NFAOptDot(follows))

reverseCompileLoop(enc, follows, code, opt) ==
    LET this == emit(code, enc, NFAOptAccept)
        body == reverseCompileOpt(enc, this.start, this.code, opt.repeat)
    IN  [loop |-> this.start, body |-> body.start,
         code |-> fill(body.code, this.start, NFAOptStar(body.start, follows))]

reverseCompileStarRepeatOpt(enc, follows, code, opt) ==
    LET r == reverseCompileLoop(enc, follows, code, opt) IN compiled(r.loop, r.code)

(* Mutant: Plus is entered as Star is. *)
reverseCompilePlusAsStar(enc, follows, code, opt) ==
    LET r == reverseCompileLoop(enc, follows, code, opt) IN compiled(r.loop, r.code)

reverseCompilePlusRepeatOpt(enc, follows, code, opt) ==
    LET r == reverseCompileLoop(enc, follows, code, opt) IN compiled(r.body, r.code)

reverseCompileRangeRepeatOpt(enc, follows, code, opt) ==
    LET this == emit(code, enc, NFAOptAccept)
        body == reverseCompileOpt({this.start}, this.start, this.code, opt.repeat)
    IN  compiled(this.start,
                 fill(body.code, this.start,
                      NFAOptRangeK(opt.low, opt.high, body.start, follows)))

reverseCompileOptionalOpt(enc, follows, code, opt) ==
    LET body == reverseCompileOpt(enc, follows, code, opt.opt)
    IN  emit(body.code, enc, NFAOptAnyOf({body.start, follows}))

reverseCompileAnyOfOpt(enc, follows, code, opt) ==
    LET add(acc, r) == LET one == reverseCompileOpt(enc, follows, acc.code, r)
                       IN  [follows |-> acc.follows \cup {one.start}, code |-> one.code]
        all == FoldLeft(add, [follows |-> {}, code |-> code], opt.opts)
    IN  emit(all.code, enc, NFAOptAnyOf(all.follows))

reverseCompileOpt(enc, follows, code, opt) ==
    CASE opt.tag = "Literal" -> reverseCompileLiteralOpt(enc, follows, code, opt)
      [] opt.tag = "CharRange" -> reverseCompileCharRangeOpt(enc, follows, code, opt)
      [] opt.tag = "CharClassDot" -> reverseCompileCharClassDotOpt(enc, follows, code)
      [] opt.tag = "StarRepeat" -> reverseCompileStarRepeatOpt(enc, follows, code, opt)
      [] opt.tag = "PlusRepeat" -> reverseCompilePlusRepeatOpt(enc, follows, code, opt)
      [] opt.tag = "RangeRepeat" -> reverseCompileRangeRepeatOpt(enc, follows, code, opt)
      [] opt.tag = "Optional" -> reverseCompileOptionalOpt(enc, follows, code, opt)
      [] opt.tag = "AnyOf" -> reverseCompileAnyOfOpt(enc, follows, code, opt)
      [] opt.tag = "Sequence" -> reverseCompileSequenceOpt(enc, follows, code, opt)

(* compileSingleTopLevelEntry: Accept is state 0 and follows everything. *)
accepting == <<[opt |-> NFAOptAccept, enc |-> {}]>>
machineOf(c) ==
    LET ids == 0 .. Len(c.code) - 1
    IN  [nfaopts |-> [s \in ids |-> c.code[s + 1].opt],
         startstate |-> c.start, acceptstate |-> 0,
         enclosing |-> [s \in ids |-> c.code[s + 1].enc]]

forwardMachine(r) == machineOf(compileOpt({}, 0, accepting, r))
reverseMachine(r) == machineOf(reverseCompileOpt({}, 0, accepting, r))

=============================================================================
