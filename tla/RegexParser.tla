---------------------------- MODULE RegexParser ----------------------------
(***************************************************************************)
(* RegexParser (src/src/regex/brex_parser.h): a recursive descent over the *)
(* characters of a text, one cursor, errors collected on the way and a     *)
(* Regex returned only when there are none.  The calls are frames of an    *)
(* explicit stack, and a step runs from one call or return to the next.    *)
(*                                                                         *)
(*   entrypoint   the function called for every text, as [kind,            *)
(*                envAllowed]: kind "Unicode", "C" or "Path" for           *)
(*                parseUnicodeRegex, parseCRegex or parsePathRegex         *)
(*   texts     the texts to parse, in the order they are handed in         *)
(*   results   what parseRegex returned for the texts parsed so far        *)
(*   cpos, errors   the cursor, counted from 0 after the opening slash,    *)
(*                  and whether an error was reported                      *)
(*   stack     the calls in progress, the last one running                 *)
(*   ret       the value just returned to the running call, or <<>>        *)
(***************************************************************************)
EXTENDS RegexSyntax, RegexComponents, Integers

CONSTANT Sessions    \* records entrypoint and texts, as the variables below

VARIABLES entrypoint, texts, results, cpos, errors, stack, ret

vars == <<entrypoint, texts, results, cpos, errors, stack, ret>>

(* The characters of the model in the order of their codes. *)
Ascii == <<"\n", " ", "!", "\"", "$", "%", "&", "'", "(", ")", "*", "+", ",", "-", ".", "/",
           "0", "1", "2", "3", "4", "5", "6", "7", "8", "9", "<", ">", "?", "N", "[", "]", "^",
           "a", "b", "c", "e", "n", "p", "v", "{", "|", "}">>
Characters == {Ascii[k] : k \in DOMAIN Ascii}
code(c) == CHOOSE k \in DOMAIN Ascii : Ascii[k] = c
Digits == {"0", "1", "2", "3", "4", "5", "6", "7", "8", "9"}
NameChars == Digits \cup {"N", "a", "b", "c", "e", "n", "p", "v"}
NonPrintable == {"\n"}
WhiteSpace == {"\n", " "}

ASSUME SessionsAssumption ==
    \A session \in Sessions :
        /\ session.entrypoint \in [kind : {"Unicode", "C", "Path"}, envAllowed : BOOLEAN]
        /\ session.texts \in Seq(Seq(Characters))

-----------------------------------------------------------------------------
(* The cursor. *)

text == texts[Len(results) + 1]
isUnicode == entrypoint.kind = "Unicode"
epos == Len(text) - (IF isUnicode THEN 2 ELSE 3)
charAt(i) == text[i + 2]
slice(i, j) == SubSeq(text, i + 2, j + 1)    \* from position i up to j

isEOS(i) == i = epos
isToken(i, tk) == ~isEOS(i) /\ charAt(i) = tk
isTokens(i, tks) ==
    i + Len(tks) <= epos /\ \A k \in DOMAIN tks : charAt(i + k - 1) = tks[k]

isNamedPfx(i) == i + 2 < epos /\ isTokens(i, <<"$", "{">>)
isTokenEnvPfx(i) == isTokens(i, <<"e", "n", "v", "[">>)

(* The first position from i on with one of the characters, or epos. *)
upTo(i, tks) == Min({j \in i .. epos : isEOS(j) \/ charAt(j) \in tks})

endOfInlineComment(i) ==
    LET j == Min({k \in i .. epos : isEOS(k) \/ isTokens(k, <<"*", "%">>)})
    IN  IF isEOS(j) THEN j ELSE j + 2

advanceTriviaOnly(i) ==
    LET f[j \in 0 .. epos] ==
            IF isTokens(j, <<"%", "*">>) THEN f[endOfInlineComment(j + 2)]
            ELSE IF isEOS(j) THEN j
            ELSE IF charAt(j) \in WhiteSpace THEN f[j + 1]
            ELSE IF isTokens(j, <<"%", "%">>) THEN f[upTo(j, {"\n"})]
            ELSE j
    IN  f[i]

advanceOnly(i) == IF isEOS(i) THEN i ELSE i + 1    \* mutant
advance(i) == advanceTriviaOnly(IF isEOS(i) THEN i ELSE i + 1)

(* Step over a token that is there. *)
eat(i, tk) == IF isToken(i, tk) THEN advance(i) ELSE i

(* scanToSyncToken with andeat, and scanToSyncTokenAtomic, which eats the  *)
(* character it stops at and, after a closing one, the next one too.       *)
scanToSyncToken(i, tk) == LET j == upTo(i, {tk}) IN IF isEOS(j) THEN j ELSE j + 1

Closing == {"'", "\"", ")", "]", "}"}
scanToSyncTokenAtomicStay(i) ==    \* mutant: eats nothing
    upTo(i, {"(", "[", "{", "|", "&", "*", "+", "?", "."} \cup Closing)
scanToSyncTokenAtomic(i) ==
    LET j == upTo(i, {"(", "[", "{", "|", "&", "*", "+", "?", "."} \cup Closing)
    IN  IF isEOS(j) THEN j
        ELSE IF charAt(j) \in Closing /\ ~isEOS(j + 1) THEN j + 2
        ELSE j + 1

-----------------------------------------------------------------------------
(* The functions that call no other part of the grammar: from position i   *)
(* to the cursor they leave, the value they return, and whether they       *)
(* report an error.  A cursor past epos reads outside the text.            *)

Parsed(i, value, bad) == [cpos |-> i, re |-> value, bad |-> bad]
NullOpt == [tag |-> "nullptr"]
EmptyLiteral == LiteralOpt(<<>>)

(* parseUnicodeLiteral and parseCLiteral.  A character that must be        *)
(* escaped returns nullptr and leaves the cursor on the opening quote.     *)
parseLiteral(i) ==
    LET close == upTo(i + 1, {charAt(i)})
    IN  IF upTo(i + 1, NonPrintable) < close THEN Parsed(i, NullOpt, TRUE)
        ELSE IF isEOS(close) THEN Parsed(epos, EmptyLiteral, TRUE)
        ELSE Parsed(close + 1, LiteralOpt(slice(i + 1, close)), FALSE)

minmin(c, d) == IF code(c) <= code(d) THEN <<c, c>> ELSE <<d, d>>    \* mutant
minmax(c, d) == IF code(c) <= code(d) THEN <<c, d>> ELSE <<d, c>>

(* The loop of parseCharRange from position i: the ranges it appends.  A   *)
(* call of parseRegexChar at epos reads past the end.                      *)
rangeElements(i) ==
    LET f[j \in 0 .. epos] ==
            LET bad == charAt(j) \in NonPrintable
                then(k, ranges, bad1) ==
                    LET rest == f[k] IN Parsed(rest.cpos, ranges \o rest.re, bad1 \/ rest.bad)
                single == <<charAt(j), charAt(j)>>
            IN  IF isEOS(j) \/ charAt(j) = "]" THEN Parsed(j, <<>>, FALSE)
                ELSE IF ~isToken(j + 1, "-") THEN then(j + 1, <<single>>, bad)
                ELSE IF isToken(j + 2, "]") THEN then(j + 2, <<single, <<"-", "-">>>>, bad)
                ELSE IF isEOS(j + 2) THEN Parsed(epos + 1, <<>>, TRUE)
                ELSE then(j + 3, <<minmax(charAt(j), charAt(j + 2))>>,
                          bad \/ charAt(j + 2) \in NonPrintable)
    IN  f[i]

parseCharRange(i) ==
    LET compliment == isToken(i + 1, "^")
        start == IF compliment THEN i + 2 ELSE i + 1
        hyphen == isToken(start, "-")
        elements == rangeElements(IF hyphen THEN start + 1 ELSE start)
        re == CharRangeOpt(compliment, (IF hyphen THEN <<<<"-", "-">>>> ELSE <<>>) \o elements.re)
    IN  IF elements.cpos > epos THEN elements
        ELSE IF isToken(elements.cpos, "]") THEN Parsed(elements.cpos + 1, re, elements.bad)
        ELSE Parsed(elements.cpos, re, TRUE)

(* The characters up to the closing one, and the cursor after it. *)
delimited(i, close) ==
    LET j == upTo(i, {close})
    IN  Parsed(IF isEOS(j) THEN j ELSE j + 1, slice(i, j), isEOS(j))

parseNamedRegex(i) ==
    LET name == delimited(advance(advance(i)), "}")
        valid == name.re # <<>> /\ \A k \in DOMAIN name.re : name.re[k] \in NameChars
    IN  Parsed(name.cpos, NamedRegexOpt(name.re), name.bad \/ ~valid)

parseEnvRegex(i) ==
    LET name == delimited(i + 4, "]")
        n == Len(name.re)
        valid ==
            /\ n > 2
            /\ \A k \in 1 .. n : /\ (name.re[k] = "'") <=> k \in {1, n}
                                 /\ name.re[k] \notin NonPrintable
    IN  Parsed(name.cpos, EnvRegexOpt(name.re), name.bad \/ ~valid \/ ~entrypoint.envAllowed)

(* parseBaseComponent for all but a parenthesized expression. *)
parseAtom(i) ==
    CASE charAt(i) \in {"\"", "'"} ->
           IF (charAt(i) = "\"") = isUnicode THEN parseLiteral(i)
           ELSE Parsed(scanToSyncToken(i, charAt(i)), EmptyLiteral, TRUE)
      [] charAt(i) = "[" -> parseCharRange(i)
      [] charAt(i) = "." -> Parsed(i + 1, CharClassDotOpt, FALSE)
      [] isNamedPfx(i) -> parseNamedRegex(i)
      [] isTokenEnvPfx(i) -> parseEnvRegex(i)
      [] OTHER -> Parsed(scanToSyncTokenAtomic(i), EmptyLiteral, TRUE)

(* parseRangeRepeatBound; vv, its reference parameter, is left alone when  *)
(* there is no number or a bad one.                                        *)
decimal(ds) ==
    LET n[k \in 0 .. Len(ds)] == IF k = 0 THEN 0 ELSE n[k - 1] * 10 + (code(ds[k]) - code("0"))
    IN  n[Len(ds)]

parseRangeRepeatBound(i, vv) ==
    LET start == IF isToken(i, "-") THEN i + 1 ELSE i
        end == upTo(start, Characters \ Digits)
        digits == slice(start, end)
        wrong == (Len(digits) > 1 /\ digits[1] = "0") \/ decimal(digits) > UINT16_MAX
        has == digits # <<>> /\ ~wrong
    IN  [cpos |-> end, has |-> has, val |-> IF has THEN decimal(digits) ELSE vv,
         bad |-> wrong \/ isToken(i, "-")]

-----------------------------------------------------------------------------
(* The calls. *)

SequenceCall == <<[fn |-> "Sequence", sre |-> <<>>]>>
AnyOfCall == <<[fn |-> "AnyOf", are |-> <<>>]>> \o SequenceCall
RepeatCall == <<[fn |-> "Repeat"]>>
RangeFrame(rcc, rng1ok) == [fn |-> "Range", rcc |-> rcc, rng1ok |-> rng1ok, min |-> -1]
EntryCall == <<[fn |-> "Entry", entered |-> FALSE, isNegate |-> FALSE, isFrontCheck |-> FALSE]>>
ComponentCall == <<[fn |-> "Component", are |-> <<>>]>> \o EntryCall
RegexCall ==
    [fn |-> "Regex", at |-> "first", rv |-> <<>>, preanchor |-> FALSE, postanchor |-> FALSE,
     preparen |-> FALSE, postparen |-> FALSE]

top == stack[Len(stack)]
running(fn) == stack # <<>> /\ top.fn = fn

(* The running call reaches i, reports or does not report an error, and    *)
(* becomes frame with more calls on top of it, or returns value.           *)
moved(i, bad) == cpos' = i /\ errors' = (errors \/ bad) /\ UNCHANGED <<entrypoint, texts, results>>
continue(i, bad, frame, calls) ==
    moved(i, bad) /\ stack' = Front(stack) \o <<frame>> \o calls /\ ret' = <<>>
return(i, bad, value) ==
    moved(i, bad) /\ stack' = Front(stack) /\ ret' = <<value>>

(* parseRegex is done with a text; the next one gets a new parser. *)
finish(result) ==
    /\ results' = Append(results, result)
    /\ stack' = <<>> /\ ret' = <<>> /\ cpos' = 0 /\ errors' = FALSE
    /\ UNCHANGED <<entrypoint, texts>>

Rejected == [status |-> "rejected"]
Undefined == [status |-> "undefined"]    \* the C++ reads outside text or rv

(* parseBaseComponent: an atom, or a call for what is in parentheses. *)
parseBaseComponent ==
    /\ running("Repeat") /\ ret = <<>>
    /\ \E i \in {advanceTriviaOnly(cpos)} :
          IF isToken(i, "(") THEN continue(advance(i), FALSE, top, <<[fn |-> "Paren"]>> \o AnyOfCall)
          ELSE \E atom \in {parseAtom(i)} :
                  IF atom.cpos > epos THEN finish(Undefined)
                  ELSE /\ moved(advanceTriviaOnly(atom.cpos), atom.bad)
                       /\ ret' = <<atom.re>> /\ UNCHANGED stack

parseParenthesized ==
    /\ running("Paren")
    /\ return(advanceTriviaOnly(eat(cpos, ")")), ~isToken(cpos, ")"), ret[1])

(* The loop of parseRepeatComponent; bounds in braces end it. *)
repeated(rcc) ==
    CASE isToken(cpos, "*") -> StarRepeatOpt(rcc)
      [] isToken(cpos, "+") -> PlusRepeatOpt(rcc)
      [] isToken(cpos, "?") -> OptionalOpt(rcc)
      [] OTHER -> NullOpt

parseRepeatComponent ==
    /\ running("Repeat") /\ ret # <<>>
    /\ IF repeated(ret[1]) # NullOpt
       THEN moved(advance(cpos), FALSE) /\ ret' = <<repeated(ret[1])>> /\ UNCHANGED stack
       ELSE IF isToken(cpos, "{") THEN continue(cpos, FALSE, RangeFrame(ret[1], FALSE), <<>>)
       ELSE return(cpos, FALSE, ret[1])

(* parseRangeRepeatOpt, to the comma and from there. *)
parseRangeMin ==
    /\ running("Range") /\ top.min = -1
    /\ \E min \in {parseRangeRepeatBound(advance(cpos), 0)} :
       \E i \in {advanceTriviaOnly(min.cpos)} :
          continue(i, min.bad \/ (min.has /\ ~isToken(i, ",") /\ ~isToken(i, "}")),
                   [top EXCEPT !.min = min.val], <<>>)

badBoundsUnordered(min, max, rng1ok) == min = 0 /\ max = 0    \* mutant
badBounds(min, max, rng1ok) ==
    (min = 0 /\ max = 0) \/ (~rng1ok /\ min = 1 /\ max = 1) \/ max < min

parseRangeMax ==
    /\ running("Range") /\ top.min # -1
    /\ \E max \in {IF isToken(cpos, ",") THEN parseRangeRepeatBound(advance(cpos), UINT16_MAX)
                   ELSE [cpos |-> cpos, val |-> top.min, bad |-> FALSE]} :
       \E i \in {advanceTriviaOnly(max.cpos)} :
          return(eat(i, "}"), max.bad \/ ~isToken(i, "}") \/ badBounds(top.min, max.val, top.rng1ok),
                 parseRangeRepeat(top.min, max.val, top.rcc))

(* parseSequenceComponent.  Once an error is reported no Regex is          *)
(* returned, so of a sequence only whether it is empty matters.            *)
endOfSequence(i) ==
    \/ isEOS(i) \/ charAt(i) \in {"&", "|", ")", ">", "^"}
    \/ isToken(i, "$") /\ ~isNamedPfx(i)

pushedOver(sre, re) == <<re>>    \* mutant
pushed(sre, re) == IF errors /\ sre # <<>> THEN sre ELSE Append(sre, re)

parseSequenceComponent ==
    /\ running("Sequence")
    /\ LET sre == IF ret = <<>> THEN top.sre ELSE pushed(top.sre, ret[1])
       IN  IF endOfSequence(cpos)
           THEN return(cpos, sre = <<>>, IF Len(sre) = 1 THEN sre[1] ELSE SequenceOpt(sre))
           ELSE continue(cpos, FALSE, [top EXCEPT !.sre = sre], RepeatCall)

parseAnyOfComponent ==
    /\ running("AnyOf")
    /\ LET are == top.are \o ret
       IN  IF isToken(cpos, "|")
           THEN continue(advance(cpos), FALSE, [top EXCEPT !.are = are], SequenceCall)
           ELSE return(cpos, FALSE, IF Len(are) = 1 THEN are[1] ELSE AnyOfOpt(are))

(* parseSingleToplevelRegexComponent, up to its expression and after it. *)
enterEntry ==
    /\ running("Entry") /\ ~top.entered
    /\ LET i == advanceTriviaOnly(cpos)
           i1 == eat(i, "!")
           i2 == eat(i1, "^")
           frame == [top EXCEPT !.entered = TRUE, !.isNegate = isToken(i, "!"),
                                !.isFrontCheck = isToken(i1, "^")]
           call == IF isToken(i2, "{") THEN <<RangeFrame(CharClassDotOpt, TRUE)>> ELSE AnyOfCall
       IN  continue(i2, isToken(i2, "!"), frame, call)

leaveEntry ==
    /\ running("Entry") /\ top.entered
    /\ LET i == advanceTriviaOnly(cpos)
           isBackCheck == isToken(i, "$")
       IN  return(eat(i, "$"), top.isFrontCheck /\ isBackCheck,
                  TopEntry(top.isNegate, top.isFrontCheck, isBackCheck, ret[1]))

parseRegexComponent ==
    /\ running("Component")
    /\ LET are == top.are \o ret
           i == cpos + 1
           onlyChecks == \A k \in DOMAIN are : are[k].isFrontCheck \/ are[k].isBackCheck
       IN  IF isToken(cpos, "&")
           THEN continue(advanceTriviaOnly(eat(i, "&")), isToken(i, "&"),
                         [top EXCEPT !.are = are], EntryCall)
           ELSE return(cpos, onlyChecks,
                       IF Len(are) = 1 THEN SingleComponent(are[1]) ELSE AllOfComponent(are))

-----------------------------------------------------------------------------
(* parseRegex: the component before the anchor or the only one, the one in *)
(* <...>, and one more when there is text left.                            *)

framed ==
    LET n == Len(text)
    IN  /\ n >= 2 /\ text[1] = "/"
        /\ IF isUnicode THEN text[n] = "/" ELSE text[n] \in {"c", "p"} /\ text[n - 1] = "/"

parseRegex ==
    /\ stack = <<>> /\ Len(results) < Len(texts)
    /\ IF ~framed THEN finish(Rejected)
       ELSE IF epos < 0 THEN finish(Undefined)    \* the length is unsigned
       ELSE \E i \in {advanceTriviaOnly(0)} :
               /\ moved(i, FALSE) /\ ret' = <<>>
               /\ stack' = <<RegexCall>> \o (IF isToken(i, "<") THEN <<>> ELSE ComponentCall)

componentIfMore(i) == IF isEOS(i) THEN <<>> ELSE ComponentCall

firstComponent ==
    /\ running("Regex") /\ top.at = "first"
    /\ LET i == eat(cpos, "^")
           i1 == eat(i, "<")
           frame == [top EXCEPT !.at = "second", !.rv = @ \o ret,
                                !.preanchor = isToken(cpos, "^"), !.preparen = isToken(i, "<")]
       IN  continue(i1, FALSE, frame, componentIfMore(i1))

secondComponent ==
    /\ running("Regex") /\ top.at = "second"
    /\ LET i == eat(cpos, ">")
           i1 == eat(i, "$")
           frame == [top EXCEPT !.at = "third", !.rv = @ \o ret,
                                !.postparen = isToken(cpos, ">"), !.postanchor = isToken(i, "$")]
       IN  continue(i1, FALSE, frame, componentIfMore(i1))

isMatchable(cc) ==
    \E k \in DOMAIN entriesOf(cc) :
        LET e == entriesOf(cc)[k] IN ~e.isNegated /\ ~e.isFrontCheck /\ ~e.isBackCheck
validAllOf(cc) ==
    isMatchable(cc) /\ \A k \in DOMAIN cc.musts : ~cc.musts[k].isFrontCheck /\ ~cc.musts[k].isBackCheck
validPreAnchor(cc) ==
    IF cc.tag = "Single" THEN ~cc.entry.isFrontCheck /\ ~cc.entry.isBackCheck ELSE validAllOf(cc)
validPostAnchor(cc) ==    \* the single component tests isBackCheck twice
    IF cc.tag = "Single" THEN ~cc.entry.isBackCheck ELSE validAllOf(cc)

(* How many components the anchors ask for, and where re is among them. *)
wanted(f) == 1 + (IF f.preanchor THEN 1 ELSE 0) + (IF f.postanchor THEN 1 ELSE 0)

regexOf(f, rv) ==
    [rtag |-> IF entrypoint.kind = "Path" THEN "Path" ELSE "Std", ctag |-> IF isUnicode THEN "Unicode" ELSE "Char",
     preanchor |-> IF f.preanchor THEN rv[1] ELSE NoComponent,
     re |-> IF f.preanchor THEN rv[2] ELSE rv[1],
     postanchor |-> IF f.postanchor THEN rv[wanted(f)] ELSE NoComponent]

thirdComponent ==
    /\ running("Regex") /\ top.at = "third"
    /\ LET rv == top.rv \o ret
           regex == regexOf(top, rv)
           anchored == top.preanchor \/ top.postanchor
           bad == \/ errors
                  \/ top.preparen # top.postparen
                  \/ anchored /\ ~(top.preparen /\ top.postparen)
                  \/ anchored /\ Len(rv) # wanted(top)
                  \/ top.preanchor /\ ~validPreAnchor(regex.preanchor)
                  \/ top.postanchor /\ ~validPostAnchor(regex.postanchor)
                  \/ ~isEOS(cpos)
       IN  finish(IF Len(rv) < wanted(top) THEN Undefined
                  ELSE IF bad THEN Rejected
                  ELSE [status |-> "accepted", regex |-> regex, parts |-> Len(rv)])

-----------------------------------------------------------------------------
Idle == results = <<>> /\ stack = <<>> /\ ret = <<>> /\ cpos = 0 /\ errors = FALSE
Init ==
    /\ \E session \in Sessions : entrypoint = session.entrypoint /\ texts = session.texts
    /\ Idle

Step ==
    \/ parseRegex \/ firstComponent \/ secondComponent \/ thirdComponent
    \/ parseRegexComponent \/ enterEntry \/ leaveEntry
    \/ parseAnyOfComponent \/ parseSequenceComponent \/ parseRepeatComponent
    \/ parseBaseComponent \/ parseParenthesized \/ parseRangeMin \/ parseRangeMax

Spec == Init /\ [][Step]_vars

-----------------------------------------------------------------------------
(* Properties *)

(* The texts parsed and accepted, looked at when the parser has returned. *)
accepted == {k \in DOMAIN results : stack = <<>> /\ results[k].status = "accepted"}
componentsOf(regex) == {regex.preanchor, regex.re, regex.postanchor} \ {NoComponent}
entriesIn(cc) == {entriesOf(cc)[k] : k \in DOMAIN entriesOf(cc)}

(* The parts of an expression, and its nodes d levels down. *)
children(r) ==
    CASE r.tag \in {"StarRepeat", "PlusRepeat", "RangeRepeat"} -> {r.repeat}
      [] r.tag = "Optional" -> {r.opt}
      [] r.tag = "AnyOf" -> {r.opts[k] : k \in DOMAIN r.opts}
      [] r.tag = "Sequence" -> {r.regexs[k] : k \in DOMAIN r.regexs}
      [] OTHER -> {}
nodesAt(r, d) ==
    LET level[n \in 0 .. d] ==
            IF n = 0 THEN {r} ELSE UNION {children(x) : x \in level[n - 1]}
    IN  level[d]

wellBuiltNode(r) ==
    /\ r # NullOpt
    /\ r.tag = "AnyOf" => Len(r.opts) >= 2
    /\ r.tag = "Sequence" => Len(r.regexs) >= 2
    /\ r.tag = "RangeRepeat" =>
          /\ r.low \in 0 .. r.high /\ r.high \in 1 .. UINT16_MAX
          /\ <<r.low, r.high>> \notin {<<0, UINT16_MAX>>, <<1, UINT16_MAX>>, <<0, 1>>, <<1, 1>>}
wellBuilt(r, depth) == \A d \in 0 .. depth : \A x \in nodesAt(r, d) : wellBuiltNode(x)

(* What the compiler and the operations take for granted of a Regex: the   *)
(* bounds of a repeat are in order, choices and sequences have parts, an   *)
(* AllOf has entries, no component is only checks, no entry is anchored at *)
(* both ends, and the anchors hold no check at all, front or back.         *)
isCheck(e) == e.isFrontCheck \/ e.isBackCheck
AcceptedIsWellBuilt ==
    \A k \in accepted :
        LET regex == results[k].regex
        IN  /\ \A cc \in componentsOf(regex) :
                  /\ \A e \in entriesIn(cc) :
                        wellBuilt(e.opt, Len(texts[k])) /\ ~(e.isFrontCheck /\ e.isBackCheck)
                  /\ \E e \in entriesIn(cc) : ~isCheck(e)
                  /\ cc.tag = "AllOf" => Len(cc.musts) >= 2
            /\ \A cc \in {regex.preanchor, regex.postanchor} \ {NoComponent} :
                  /\ \A e \in entriesIn(cc) : ~isCheck(e)
                  /\ cc.tag = "AllOf" => isMatchable(cc)

=============================================================================
