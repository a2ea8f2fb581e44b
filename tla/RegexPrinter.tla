---------------------------- MODULE RegexPrinter ----------------------------
(***************************************************************************)
(* Writing a Regex back (toBSQONFormat and toBSQStandard in                *)
(* src/src/regex/brex.h).  A text is a sequence of characters, a character *)
(* range the sequence of pairs low, high; no character of the model is one *)
(* the two formats escape.                                                 *)
(***************************************************************************)
EXTENDS RegexSyntax, RegexComponents, Integers

CONSTANT Kind    \* "Unicode", with literals "...", or "C", "Path", with '...'

Formats == {"BSQON", "Standard"}

quote == IF Kind = "Unicode" THEN "\"" ELSE "'"
Digits == <<"0", "1", "2", "3", "4", "5", "6", "7", "8", "9">>

toString(n) ==    \* std::to_string
    LET f[k \in 0 .. n] == (IF k < 10 THEN <<>> ELSE f[k \div 10]) \o <<Digits[(k % 10) + 1]>>
    IN  f[n]

needsParens(r) ==
    r.tag \in {"StarRepeat", "PlusRepeat", "RangeRepeat", "Optional", "AnyOf", "Sequence"}
needsSequenceParensNever(r) == FALSE    \* mutant
needsSequenceParens(r) == r.tag = "AnyOf"

parenthesized(needed, text) == IF needed THEN <<"(">> \o text \o <<")">> ELSE text

joined(texts, separator) ==
    FoldLeft(LAMBDA acc, t : IF acc = <<>> THEN t ELSE acc \o separator \o t, <<>>, texts)

printRange(cr) == IF cr[1] = cr[2] THEN <<cr[1]>> ELSE <<cr[1], "-", cr[2]>>

printCharRange(r) ==
    <<"[">> \o (IF r.compliment THEN <<"^">> ELSE <<>>)
        \o FlattenSeq([i \in DOMAIN r.ranges |-> printRange(r.ranges[i])]) \o <<"]">>

(* The two forms of names differ. *)
printNamed(rname, format) ==
    (IF format = "Standard" THEN <<"$">> ELSE <<>>) \o <<"{">> \o rname \o <<"}">>
printEnv(ename, format) ==
    IF format = "Standard" THEN <<"e", "n", "v", "[">> \o ename \o <<"]">>
    ELSE <<"{">> \o ename \o <<"}">>

(* {n}, {,high}, {low,} and {low,high}. *)
printBounds(low, high) ==
    LET counts ==
            IF low = high THEN toString(low)
            ELSE (IF low = 0 THEN <<>> ELSE toString(low)) \o <<",">>
                    \o (IF low > 0 /\ high = UINT16_MAX THEN <<>> ELSE toString(high))
    IN  <<"{">> \o counts \o <<"}">>

RECURSIVE printOpt(_, _)
printOpt(r, format) ==
    LET inner(s) == parenthesized(needsParens(s), printOpt(s, format))
    IN  CASE r.tag = "Literal" -> <<quote>> \o r.codes \o <<quote>>
          [] r.tag = "CharRange" -> printCharRange(r)
          [] r.tag = "CharClassDot" -> <<".">>
          [] r.tag = "NamedRegex" -> printNamed(r.rname, format)
          [] r.tag = "EnvRegex" -> printEnv(r.ename, format)
          [] r.tag = "StarRepeat" -> Append(inner(r.repeat), "*")
          [] r.tag = "PlusRepeat" -> Append(inner(r.repeat), "+")
          [] r.tag = "Optional" -> Append(inner(r.opt), "?")
          [] r.tag = "RangeRepeat" -> inner(r.repeat) \o printBounds(r.low, r.high)
          [] r.tag = "AnyOf" ->
               joined([i \in DOMAIN r.opts |-> inner(r.opts[i])], <<"|">>)
          [] r.tag = "Sequence" ->
               FlattenSeq([i \in DOMAIN r.regexs |->
                   parenthesized(needsSequenceParens(r.regexs[i]), printOpt(r.regexs[i], format))])

(* RegexToplevelEntry, the components and Regex. *)
printEntry(e, format) ==
    LET mark(set, c) == IF set THEN <<c>> ELSE <<>>
        marked == e.isNegated \/ e.isFrontCheck \/ e.isBackCheck
    IN  mark(e.isNegated, "!") \o mark(e.isFrontCheck, "^")
            \o parenthesized(marked /\ needsParens(e.opt), printOpt(e.opt, format))
            \o mark(e.isBackCheck, "$")

printComponent(cc, format) ==
    joined([i \in DOMAIN entriesOf(cc) |-> printEntry(entriesOf(cc)[i], format)], <<" ", "&", " ">>)

printRegex(regex, format) ==
    LET anchored == regex.preanchor # NoComponent \/ regex.postanchor # NoComponent
        body == printComponent(regex.re, format)
        fchar == IF regex.rtag = "Path" THEN <<"p">>
                 ELSE IF regex.ctag = "Char" THEN <<"c">> ELSE <<>>
    IN  <<"/">>
            \o (IF regex.preanchor = NoComponent THEN <<>>
                ELSE Append(printComponent(regex.preanchor, format), "^"))
            \o (IF anchored THEN <<"<">> \o body \o <<">">> ELSE body)
            \o (IF regex.postanchor = NoComponent THEN <<>>
                ELSE <<"$">> \o printComponent(regex.postanchor, format))
            \o <<"/">> \o fchar

=============================================================================
