--------------------------- MODULE ReSystemTexts ---------------------------
(***************************************************************************)
(* ReSystem put together with the resolver of RegexCompiler: a text is     *)
(* what RegexParser makes of it, a Regex or NoRegex, and an executor is    *)
(* kept as the Regex it was compiled from, names replaced.                 *)
(***************************************************************************)
EXTENDS ReSystem, RegexCompiler

componentsOf(re) == <<re.preanchor, re.postanchor, re.re>>
optsOf(re) ==
    UNION {{entriesOf(c)[i].opt : i \in DOMAIN entriesOf(c)} :
              c \in {re.preanchor, re.postanchor, re.re}}

parseText(text) == text

(* gatherNamedRegexKeys over the components of a Regex *)
keysOf(re) == UNION {gatherNamedRegexKeys(opt) : opt \in optsOf(re)}
constNamesOf(re) == {k.name : k \in {x \in keysOf(re) : x.kind = "const"}}
envRequiredBy(re) == \E k \in keysOf(re) : k.kind = "env"

(* compile{Unicode,C}RegexToExecutor as processRERecursive calls it: no    *)
(* environment, names through resolveREName.                               *)
scopeOf(names, real) ==
    [named |-> names, realname |-> real, env |-> <<>>, envEnabled |-> FALSE,
     namesEnabled |-> TRUE, pending |-> <<>>, inRange |-> FALSE]

errorsOfCompile(re, names, real) ==
    IF re.rtag # "Std" THEN {<<"rtag">>}
    ELSE UNION {resolve(scopeOf(names, real), opt).errors : opt \in optsOf(re)}

resolveComponent(sc, cc) ==
    [i \in DOMAIN entriesOf(cc) |->
        [entriesOf(cc)[i] EXCEPT !.opt = resolve(sc, entriesOf(cc)[i].opt).opt]]

executorFrom(re, names, real) ==
    [c \in 1..3 |-> resolveComponent(scopeOf(names, real), componentsOf(re)[c])]

-----------------------------------------------------------------------------
(* Properties *)

(* An expression spelled out: a name stands for the text of the entry it   *)
(* names in the namespace it is written in, read in the namespace of that  *)
(* entry.  depth bounds the nesting, for texts that go in circles.         *)
RECURSIVE spell(_, _, _)
spell(ns, opt, depth) ==
    CASE opt.tag = "NamedRegex" ->
           LET n == remapName(ns, opt.rname)
           IN  IF depth = 0 \/ entriesNamed(n) = {} THEN opt
               ELSE spell(n.ns, parsed[findEntry(n)].re.entry.opt, depth - 1)
      [] opt.tag \in {"StarRepeat", "PlusRepeat", "RangeRepeat"} ->
           [opt EXCEPT !.repeat = spell(ns, opt.repeat, depth)]
      [] opt.tag = "Optional" -> OptionalOpt(spell(ns, opt.opt, depth))
      [] opt.tag = "AnyOf" ->
           AnyOfOpt([i \in DOMAIN opt.opts |-> spell(ns, opt.opts[i], depth)])
      [] opt.tag = "Sequence" ->
           SequenceOpt([i \in DOMAIN opt.regexs |-> spell(ns, opt.regexs[i], depth)])
      [] OTHER -> opt

spelled(e, opt) ==
    resolve(scopeOf(<<>>, resolveREName(entries[e].ns)),
            spell(entries[e].ns, opt, Len(entries)))

(* The executor of an entry is what its text spells out. *)
ExecutorMeansItsText ==
    \A e \in built : \A c \in 1..3 :
        LET written == entriesOf(componentsOf(parsed[e])[c])
        IN  \A i \in DOMAIN written :
                executors[e][c][i] = [written[i] EXCEPT !.opt = spelled(e, written[i].opt).opt]

(* The namespaces an entry is reached from read its text as its own does,  *)
(* no name is renamed twice, and full names differ.                        *)
reaches(i) ==
    {j \in Indexes : \A S \in SUBSET Indexes :
        mentions(i) \subseteq S /\ (\A x \in S : mentions(x) \subseteq S) => j \in S}

ReadAlike ==
    /\ Plain
    /\ \A i \in DOMAIN parsed : \A j \in reaches(i) \cap DOMAIN parsed :
          \A n \in ConstNames(parsed[j]) :
             remapName(entries[i].ns, n) = remapName(entries[j].ns, n)

(* Where the namespaces agree an executor is its text spelled out: what    *)
(* namedRegexes gathered earlier, for other entries, makes no difference.  *)
(* And the compiler refuses an entry only for a repeat in a repeat, never  *)
(* for a name: those were all found when the entries were linked.          *)
AlikeTextsAreMeant ==
    ReadAlike =>
        /\ ExecutorMeansItsText
        /\ \A k \in DOMAIN errors : errors[k].kind = "compile" =>
              LET e == errors[k].entry
              IN  <<"nested range">> \in
                      UNION {spelled(e, opt).errors : opt \in optsOf(parsed[e])}

=============================================================================
