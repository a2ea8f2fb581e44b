--------------------------- MODULE MCNFAExecutor ---------------------------
(***************************************************************************)
(* NFAExecutor on executors compiled from a choice of expressions: over    *)
(* chars against every interval of every text of CharLen letters, over     *)
(* UTF-8 against whole characters of every text of up to UnicodeLen of     *)
(* them.  The characters of the latter take one, two and four bytes, and   *)
(* the last byte of U+1F335 is the code point of the micro sign.           *)
(***************************************************************************)
EXTENDS NFAExecutor, RegexCompiler, RegexLanguage

CONSTANTS CharLen, UnicodeLen

letterA == 97
letterB == 98
micro == 181
cactus == 127797
MCChars == {letterA, letterB, micro, cactus}

charWords(n) == [1..n -> {letterA, letterB}]
charTexts == charWords(CharLen)

encodeText(w) == FoldLeft(LAMBDA acc, c : acc \o utf8(c), <<>>, w)
unicodeWords == UNION {[1..n -> {letterA, micro, cactus}] : n \in 0..UnicodeLen}
unicodeTexts == {encodeText(w) : w \in unicodeWords}

(* The empty intervals between two letters included: what the components   *)
(* ask before and after a match.                                           *)
charCalls ==
    UNION {{<<o, s, i, j>> : o \in Ops, i \in 0..CharLen, j \in -1..CharLen-1} : s \in charTexts}

(* Whole characters, and the operations that walk forwards. *)
begins(s) == {i \in 0..Len(s) : i < Len(s) => ~isContinuationByte(byte(s, i))}
unicodeCalls ==
    UNION {{<<o, s, i, j - 1>> : o \in ForwardOps, i \in begins(s), j \in begins(s)} : s \in unicodeTexts}

intervals(calls) == {c \in calls : c[4] >= c[3] - 1}
charAsked == intervals(charCalls)
unicodeAsked == intervals(unicodeCalls)
MCAsked(e) == IF e.unicode THEN unicodeAsked ELSE charAsked

(* The second of two calls: every operation on the whole of a text and on  *)
(* a part of it, by what is left of any first call.                        *)
mixedText == [k \in 1..CharLen |-> IF k % 2 = 0 THEN letterB ELSE letterA]
mixedUnicode == encodeText(<<letterA, cactus, micro>>)
again(calls, s) ==
    {c \in calls : c[2] = s /\ c[3] \in {0, 1} /\ c[4] \in {0, Len(s) - 1}}
charRepeated == again(charAsked, mixedText)
unicodeRepeated == again(unicodeAsked, mixedUnicode)
MCRepeated(e) == IF e.unicode THEN unicodeRepeated ELSE charRepeated

(* From the last byte of the string, as testBack asks. *)
BackAsked(e) == {<<"matchTestReverse", s, 0, Len(s) - 1>> : s \in unicodeTexts}

charExecutor(r) ==
    [forward |-> forwardMachine(r), reverse |-> reverseMachine(r), unicode |-> FALSE,
     lang |-> Language(r, CharLen) \cap UNION {charWords(n) : n \in 0..CharLen}]
unicodeExecutor(r) ==
    [forward |-> forwardMachine(r), reverse |-> reverseMachine(r), unicode |-> TRUE,
     lang |-> {encodeText(w) : w \in Language(r, UnicodeLen) \cap unicodeWords}]

a == LiteralOpt(<<letterA>>)
b == LiteralOpt(<<letterB>>)
ab == LiteralOpt(<<letterA, letterB>>)

(* The bodies of counted repeats begin and end with a character. *)
CharRegexes == {
    ab,
    SequenceOpt(<<a, StarRepeatOpt(b)>>),
    PlusRepeatOpt(AnyOfOpt(<<ab, OptionalOpt(a)>>)),
    RangeRepeatOpt(0, 2, CharRangeOpt(TRUE, {letterB})),
    SequenceOpt(<<RangeRepeatOpt(2, 3, CharClassDotOpt), OptionalOpt(a)>>),
    StarRepeatOpt(RangeRepeatOpt(2, 2, ab)),
    RangeRepeatOpt(2, 3, SequenceOpt(<<a, StarRepeatOpt(b), a>>)),
    AnyOfOpt(<<LiteralOpt(<<>>), SequenceOpt(<<b, RangeRepeatOpt(2, 2, a)>>)>>)
}
UnicodeRegexes == {
    LiteralOpt(<<letterA, cactus>>),
    StarRepeatOpt(CharRangeOpt(FALSE, {micro, letterA})),
    PlusRepeatOpt(AnyOfOpt(<<LiteralOpt(<<cactus>>), OptionalOpt(a)>>)),
    RangeRepeatOpt(2, 3, CharClassDotOpt),
    SequenceOpt(<<CharRangeOpt(TRUE, {micro}), StarRepeatOpt(CharClassDotOpt)>>)
}
MCExecutors ==
    {charExecutor(r) : r \in CharRegexes} \cup {unicodeExecutor(r) : r \in UnicodeRegexes}

ASSUME CompiledAssumption ==
    \A r \in CharRegexes : LET e == charExecutor(r) IN CompiledRight(e, MCAsked(e))

(* README.md:41 and 67: a repeat of an alternative. *)
AltRangeExecutors == {charExecutor(RangeRepeatOpt(2, 2, AnyOfOpt(<<a, b>>)))}

FromLetterAExecutors ==
    {unicodeExecutor(SequenceOpt(<<a, StarRepeatOpt(CharClassDotOpt)>>))}

=============================================================================
