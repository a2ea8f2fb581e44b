------------------------ MODULE MCRegexCompilation ------------------------
(***************************************************************************)
(* Requests to compile: single expressions built from every operator, each *)
(* over a few bodies, and Regexes of several components with named parts   *)
(* that are fine, undefined, cyclic, or hide a counted repeat.             *)
(***************************************************************************)
EXTENDS RegexCompilation

lit(c) == LiteralOpt(<<c>>)
MCChars == {"a", "b"}

(* Names resolve to themselves except alias, which is D elsewhere. *)
MCNamed == [
    D |-> CharRangeOpt(FALSE, {"a"}),
    Twice |-> RangeRepeatOpt(2, 2, NamedRegexOpt("alias")),
    Self |-> SequenceOpt(<<lit("a"), OptionalOpt(NamedRegexOpt("Self"))>>),
    Ping |-> AnyOfOpt(<<lit("a"), NamedRegexOpt("Pong")>>),
    Pong |-> StarRepeatOpt(NamedRegexOpt("Ping")) ]
MCRealname == [n \in DOMAIN MCNamed \cup {"alias", "Lost"} |-> IF n = "alias" THEN "D" ELSE n]
MCScope == [named |-> MCNamed, realname |-> MCRealname, env |-> [KEY |-> lit("b")],
            envEnabled |-> TRUE, namesEnabled |-> TRUE, pending |-> <<>>, inRange |-> FALSE]

named(n) == NamedRegexOpt(n)

(* Bodies that begin and end with a character, so that they may be counted *)
solid == {lit("a"), LiteralOpt(<<"a", "b">>), CharClassDotOpt, CharRangeOpt(TRUE, {"a"}),
          SequenceOpt(<<lit("a"), StarRepeatOpt(lit("b")), lit("a")>>)}
counted == {parseRangeRepeat(b[1], b[2], r) : r \in solid,
            b \in {<<0, 2>>, <<2, 2>>, <<2, 3>>, <<1, 3>>, <<0, 1>>}}
looped == {StarRepeatOpt(r) : r \in solid} \cup {PlusRepeatOpt(r) : r \in solid}
hollow == {LiteralOpt(<<>>), OptionalOpt(lit("b")), StarRepeatOpt(lit("a")),
           RangeRepeatOpt(0, 2, lit("b"))}

pairs == {SequenceOpt(<<x, y>>) : x \in hollow, y \in solid \cup hollow}
         \cup {AnyOfOpt(<<x, y>>) : x \in hollow \cup {AnyOfOpt(<<lit("a"), lit("b")>>)}, y \in solid}
nested == {StarRepeatOpt(x) : x \in pairs} \cup {PlusRepeatOpt(x) : x \in pairs}
          \cup {StarRepeatOpt(x) : x \in counted}

mixed == {named("D"), SequenceOpt(<<named("D"), named("alias")>>), named("Twice"),
          RangeRepeatOpt(0, 3, named("Twice")), StarRepeatOpt(named("Twice")),
          named("Lost"), named("Self"), named("Ping"),
          AnyOfOpt(<<EnvRegexOpt("KEY"), lit("a")>>), EnvRegexOpt("NOKEY"),
          RangeRepeatOpt(2, 3, OptionalOpt(RangeRepeatOpt(2, 2, lit("a")))),
          AnyOfOpt(<<lit("b"), SequenceOpt(<<lit("a"), named("Lost")>>)>>)}

plain(opt) == TopEntry(FALSE, FALSE, FALSE, opt)
one(opt) == SingleComponent(plain(opt))
std(pre, post, re) == [rtag |-> "Std", ctag |-> "Unicode", preanchor |-> pre,
                       postanchor |-> post, re |-> re]
asked(r) == [regex |-> r, api |-> "Unicode", scope |-> MCScope]

MCRequests ==
    {asked(std(NoComponent, NoComponent, one(r))) :
        r \in solid \cup counted \cup looped \cup hollow \cup pairs \cup nested}
    \cup {asked(std(x, NoComponent, one(r))) : r \in mixed, x \in {NoComponent, one(named("Lost"))}}
    \cup {asked(std(one(lit("a")), one(x),
             AllOfComponent(<<plain(named("D")), TopEntry(TRUE, TRUE, FALSE, r), plain(x)>>))) :
             r \in mixed, x \in {lit("b"), named("Self")}}
    \cup {[asked(std(NoComponent, one(r), one(lit("a")))) EXCEPT !.scope.namesEnabled = b,
             !.scope.envEnabled = ~b] : r \in mixed, b \in BOOLEAN}
    \cup {[regex |-> [std(NoComponent, NoComponent, one(lit("a"))) EXCEPT !.ctag = c, !.rtag = t],
            api |-> a, scope |-> MCScope] : c \in {"Unicode", "Char"}, t \in {"Std", "Path"}, a \in Apis}
=============================================================================
