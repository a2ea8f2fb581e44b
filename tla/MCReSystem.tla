---------------------------- MODULE MCReSystem ----------------------------
(***************************************************************************)
(* Systems of three entries, Main::A, Main::B and a third that is Other::A *)
(* or a second Main::A, with texts that name each other in every way, and  *)
(* namespaces that rename nothing, each other, or a name twice.            *)
(***************************************************************************)
EXTENDS ReSystemTexts

MCChars == {"a", "b"}
MCNoRegex == [tag |-> "NoRegex"]

name(ns, base) == [ns |-> ns, base |-> base]
MCNames == {name(ns, base) : ns \in {"", "Main", "Other", "MM"}, base \in {"A", "B", "C"}}
ref(ns, base) == NamedRegexOpt(name(ns, base))
lit(c) == LiteralOpt(<<c>>)

plainEntry(opt) == TopEntry(FALSE, FALSE, FALSE, opt)
text(pre, re) == [rtag |-> "Std", ctag |-> "Unicode", preanchor |-> pre,
                  postanchor |-> NoComponent, re |-> re]
simple(opt) == text(NoComponent, SingleComponent(plainEntry(opt)))

literals == {simple(lit("a")), simple(lit("b"))}
references == {simple(ref("", "A")), simple(ref("", "B")), simple(ref("Main", "A")),
               simple(ref("Other", "A")), simple(ref("MM", "A"))}
groups == {simple(SequenceOpt(<<ref("", "B"), lit("a"), ref("Other", "A")>>)),
           simple(AnyOfOpt(<<ref("MM", "A"), OptionalOpt(ref("", "B"))>>)),
           simple(RangeRepeatOpt(2, 2, ref("", "B")))}
refused == {MCNoRegex, simple(EnvRegexOpt("KEY")), simple(ref("", "C"))}
unloadable == {text(SingleComponent(plainEntry(lit("b"))), SingleComponent(plainEntry(lit("a")))),
               text(NoComponent, SingleComponent(TopEntry(TRUE, FALSE, FALSE, lit("a")))),
               text(NoComponent, AllOfComponent(<<plainEntry(lit("a")), plainEntry(ref("", "B"))>>))}

mapping(inns, from, to) == [inns |-> inns, from |-> from, to |-> to]
renamings == {<<>>, <<mapping("Main", "MM", "Other"), mapping("Other", "MM", "Main")>>,
              <<mapping("Main", "MM", "Other"), mapping("Main", "Other", "Main"),
                mapping("Main", "MM", "Main")>>,
              <<mapping("Other", "MM", "Main"), mapping("Other", "Main", "Lib")>>}

entry(ns, n, t) == [ns |-> ns, name |-> n, restr |-> t]
systemsOf(TA, TB, TC, nss) ==
    {[mappings |-> m, reinfos |-> <<entry("Main", "A", ta), entry("Main", "B", tb), entry(ns, "A", tc)>>] :
        ta \in TA, tb \in TB, tc \in TC, m \in renamings, ns \in nss}

(* Both namespaces with an A and a B, so that a name can be read in the    *)
(* wrong one.                                                              *)
shared ==
    {[mappings |-> m,
      reinfos |-> <<entry("Main", "A", simple(lit("a"))), entry("Main", "B", tb),
                    entry("Other", "A", simple(lit("b"))), entry("Other", "B", td)>>] :
        m \in renamings, td \in references,
        tb \in {simple(SequenceOpt(<<x, ref("Other", "B")>>)) : x \in {lit("a"), ref("", "A")}}}

good == literals \cup references \cup groups
MCSystems ==
    shared
    \cup systemsOf(good, good, good, {"Other", "Main"})
    \cup systemsOf(groups, good \cup refused, unloadable, {"Other"})
    \cup systemsOf(unloadable, references \cup refused, groups, {"Other"})

=============================================================================
