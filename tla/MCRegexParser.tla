--------------------------- MODULE MCRegexParser ---------------------------
(***************************************************************************)
(* Texts put together from fragments: every sequence of a few of them, and *)
(* every text one fragment away from a template with anchors.              *)
(***************************************************************************)
EXTENDS RegexParsing

quoted(c) == <<"\"", c, "\"">>
a == quoted("a")
b == quoted("b")
N == <<"$", "{", "N", "}">>
range == <<"[", "a", "-", "c", "]">>
twice == <<"{", "2", "}">>
env == <<"e", "n", "v", "[", "'", "a", "'", "]">>
Marks == {<<c>> : c \in {"(", ")", "*", "?", "|", "&", "!", "^", "$", "<", ">", ".", "b"}}

Fragments == Marks \cup {a, N, range, twice}

sequences(S, n) == UNION {[1 .. k -> S] : k \in 0 .. n}
joinAll(fs) == asRegex(FlattenSeq(fs), "Unicode")
unicodeSession(ts) == [entrypoint |-> [kind |-> "Unicode", envAllowed |-> TRUE], texts |-> ts]

(* The same text for the parsers of chars. *)
charSession(fs, kind) ==
    LET ticked == [k \in DOMAIN fs |-> IF fs[k] \in {a, b} THEN <<"'", fs[k][2], "'">> ELSE fs[k]]
    IN  [entrypoint |-> [kind |-> kind, envAllowed |-> FALSE],
         texts |-> <<asRegex(FlattenSeq(ticked), kind)>>]

(* A fragment taken out of a template, put in or replaced. *)
edits(t, S) ==
    {t} \cup {RemoveAt(t, k) : k \in DOMAIN t}
        \cup {InsertAt(t, k, f) : k \in 1 .. Len(t) + 1, f \in S}
        \cup {ReplaceAt(t, k, f) : k \in DOMAIN t, f \in S}

Templates ==
    {<<a, <<"^">>, <<"<">>, b, <<">">>, <<"$">>, N>>,
     <<<<"!">>, a, <<"|">>, b, <<"&">>, <<"^">>, range, <<"*">>>>,
     <<<<"(">>, a, b, <<")">>, <<"{", "0", ",", "3", "}">>, <<"?">>, <<"|">>, env>>,
     <<<<"<">>, a, <<"&">>, <<"^">>, N, <<">">>, <<"$">>, <<"!">>, b>>}

Bounds ==
    {<<"{", "0", "}">>, <<"{", "1", "}">>, <<"{", ",", "1", "}">>, <<"{", "1", ",", "1", "}">>,
     <<"{", ",", "}">>, <<"{", "1", ",", "}">>, <<"{", "2", ",", "}">>, <<"{", ",", "2", "}">>,
     <<"{", "3", ",", "2", "}">>, <<"{", "1", "0", ",", "1", "2", "}">>, <<"{", "0", "2", "}">>,
     <<"{", "2", "1", "}">>, <<"{", "-", "2", "}">>, <<"{", "2", "2", ",", "3", "}">>,
     <<"{", "2", ",", "2", "1", "}">>, <<"{", "2", "a", "}">>, <<"{", "2">>}

EnvNames ==
    {<<"e", "n", "v", "[", "'", "a", "\n", "'", "]">>, <<"e", "n", "v", "[", "'", "'", "]">>,
     <<"e", "n", "v", "[", "a", "]">>, <<"e", "n", "v", "[", "'", "a", "'">>}

Blanks == {<<" ">>, <<"%", "%", "!", "\n">>, <<"%", "*", "\"", "*", "%">>}

MCTrees ==
    LET Atoms == {LiteralOpt(<<"a">>), CharClassDotOpt, NamedRegexOpt(<<"N">>),
                  CharRangeOpt(TRUE, <<<<"a", "c">>, <<"-", "-">>>>), EnvRegexOpt(<<"'", "a", "'">>)}
        unary(S) == {StarRepeatOpt(r) : r \in S} \cup {OptionalOpt(r) : r \in S}
                        \cup {PlusRepeatOpt(r) : r \in S} \cup {RangeRepeatOpt(2, 3, r) : r \in S}
        binary(S, T) == {AnyOfOpt(<<r, s>>) : r \in S, s \in T} \cup {SequenceOpt(<<r, s>>) : r \in S, s \in T}
        Small == {LiteralOpt(<<"a">>), CharClassDotOpt}
        Two == unary(Atoms) \cup binary(Atoms, Small)
    IN  Atoms \cup Two \cup unary(Two) \cup binary(Two, Small) \cup binary(Small, Two)

near == UNION {edits(t, Fragments) : t \in Templates}
MCSessions ==
    {unicodeSession(<<joinAll(fs)>>) :
        fs \in sequences(Fragments, 3) \cup near
               \cup edits(<<env, a>>, EnvNames)
               \cup edits(<<a, twice, <<"!">>>>, Bounds) \cup edits(<<twice, <<"&">>, b>>, Bounds)}
    \cup {unicodeSession(<<joinAll(InsertAt(t, k, blank)), joinAll(t)>>) :
             t \in Templates, k \in 1 .. 8, blank \in Blanks}
    \cup {charSession(fs, kind) : fs \in sequences(Fragments, 2) \cup near, kind \in {"C", "Path"}}

=============================================================================
