---------------------------- MODULE RegexParsing ----------------------------
(***************************************************************************)
(* RegexParser and the printers of brex.h together, the way the tests use  *)
(* them: a text is parsed, what it was parsed to is printed, and the       *)
(* printed text is parsed again.  A session of two texts hands in the same *)
(* expression with and without blanks and comments.                        *)
(***************************************************************************)
EXTENDS RegexParser

CONSTANT Trees    \* expressions written out to compare the parser with

VARIABLES
    tree,      \* the expression the text was written from, or NullOpt
    printed    \* the format the last text was printed in, or "none"

Printer(Kind) == INSTANCE RegexPrinter

Formats == Printer(entrypoint.kind)!Formats
parsingVars == <<vars, tree, printed>>

Reprint(format) ==
    /\ printed = "none"
    /\ Len(results) = Len(texts) /\ results[1].status = "accepted"
    /\ texts' = Append(texts, Printer(entrypoint.kind)!printRegex(results[1].regex, format))
    /\ printed' = format
    /\ UNCHANGED <<entrypoint, results, cpos, errors, stack, ret, tree>>

asRegex(body, kind) ==
    <<"/">> \o body \o (CASE kind = "Unicode" -> <<"/">>
                         [] kind = "C" -> <<"/", "c">>
                         [] kind = "Path" -> <<"/", "p">>)

(* Expressions written with parentheses around every part. *)
RECURSIVE written(_)
written(r) ==
    LET part(s) == <<"(">> \o written(s) \o <<")">>
    IN  CASE r.tag = "StarRepeat" -> Append(part(r.repeat), "*")
          [] r.tag = "PlusRepeat" -> Append(part(r.repeat), "+")
          [] r.tag = "Optional" -> Append(part(r.opt), "?")
          [] r.tag = "RangeRepeat" ->
               part(r.repeat) \o <<"{">> \o Printer("Unicode")!toString(r.low) \o <<",">>
                   \o Printer("Unicode")!toString(r.high) \o <<"}">>
          [] r.tag = "AnyOf" -> part(r.opts[1]) \o <<"|">> \o part(r.opts[2])
          [] r.tag = "Sequence" -> part(r.regexs[1]) \o part(r.regexs[2])
          [] OTHER -> Printer("Unicode")!printOpt(r, "Standard")

ParsingInit ==
    /\ printed = "none"
    /\ \/ Init /\ tree = NullOpt
       \/ /\ tree \in Trees /\ entrypoint = [kind |-> "Unicode", envAllowed |-> TRUE]
          /\ texts = <<asRegex(written(tree), "Unicode")>> /\ Idle

Parse == Step /\ UNCHANGED <<tree, printed>>
ParsingNext == Parse \/ \E format \in Formats : Reprint(format)

(* The caller waits for the parser, which runs until it returns. *)
ParsingSpec == ParsingInit /\ [][ParsingNext]_parsingVars /\ WF_parsingVars(Parse)

-----------------------------------------------------------------------------
(* Properties *)

(* The other characters are punctuation, or written in several ways. *)
Letters == {"a", "b", "c", "e", "v", "N"}
lettersOf(t) == SelectSeq(t, LAMBDA c : c \in Letters)
keepsLetters == lettersOf(texts[Len(texts)]) = lettersOf(texts[1])

(* What is read is in the Regex: an accepted text and its Regex, written   *)
(* in the standard form, name the same literals, ranges and names in the   *)
(* same order.  Texts with components past those the anchors ask for,      *)
(* which parseRegex keeps in rv and leaves there, are out.                 *)
partsOf(regex) == Cardinality({f \in {"preanchor", "re", "postanchor"} : regex[f] # NoComponent})
WantedIsKept ==
    printed = "Standard" /\ results[1].parts = partsOf(results[1].regex) => keepsLetters

(* Sequences in sequences are printed without parentheses. *)
RECURSIVE flat(_)
flat(r) ==
    CASE r.tag \in {"StarRepeat", "PlusRepeat", "RangeRepeat"} -> [r EXCEPT !.repeat = flat(@)]
      [] r.tag = "Optional" -> OptionalOpt(flat(r.opt))
      [] r.tag = "AnyOf" -> AnyOfOpt([k \in DOMAIN r.opts |-> flat(r.opts[k])])
      [] r.tag = "Sequence" ->
           SequenceOpt(FlattenSeq([k \in DOMAIN r.regexs |->
               LET s == flat(r.regexs[k]) IN IF s.tag = "Sequence" THEN s.regexs ELSE <<s>>]))
      [] OTHER -> r

flatComponent(cc) ==
    [k \in DOMAIN entriesOf(cc) |-> [entriesOf(cc)[k] EXCEPT !.opt = flat(@)]]
sameExpression(x, y) ==
    /\ flatComponent(x.preanchor) = flatComponent(y.preanchor)
    /\ flatComponent(x.re) = flatComponent(y.re)
    /\ flatComponent(x.postanchor) = flatComponent(y.postanchor)

reparsed == printed # "none" /\ Len(results) = Len(texts)
roundTrip ==
    LET last == results[Len(results)]
    IN  last.status = "accepted" /\ sameExpression(last.regex, results[1].regex)

(* What parsing_ok.cpp checks of its texts: an accepted text printed and   *)
(* parsed again is accepted and is the same expression.  The BSQON form of *)
(* expressions with names, which it has in another notation, is out.       *)
RECURSIVE named(_)
named(r) ==
    CASE r.tag \in {"StarRepeat", "PlusRepeat", "RangeRepeat"} -> named(r.repeat)
      [] r.tag = "Optional" -> named(r.opt)
      [] r.tag = "AnyOf" -> \E k \in DOMAIN r.opts : named(r.opts[k])
      [] r.tag = "Sequence" -> \E k \in DOMAIN r.regexs : named(r.regexs[k])
      [] OTHER -> r.tag \in {"NamedRegex", "EnvRegex"}

UnnamedParsesBack ==
    reparsed =>
        \/ roundTrip
        \/ /\ printed = "BSQON"
           /\ \E cc \in componentsOf(results[1].regex) : \E e \in entriesIn(cc) : named(e.opt)

(* README.md: "outside of a literal or range whitespace is ignored". *)
BlanksAreIgnored ==
    LET given == IF printed = "none" THEN Len(texts) ELSE Len(texts) - 1
    IN  given = 2 /\ Len(results) >= 2 => results[1] = results[2]

(* The parser builds the expression that is written, whatever binds        *)
(* tighter when the parentheses are left out.                              *)
BuildsWhatIsWritten ==
    results # <<>> /\ tree # NullOpt =>
        /\ results[1].status = "accepted"
        /\ results[1].regex.re = SingleComponent(TopEntry(FALSE, FALSE, FALSE, tree))

(* parseRegex returns, whatever the errors it meets on the way.  It does   *)
(* not where a literal holds a raw line break, which it never moves past;  *)
(* Sessions leaves such texts out.                                         *)
EveryParseReturns == []<>(stack = <<>>)

=============================================================================
