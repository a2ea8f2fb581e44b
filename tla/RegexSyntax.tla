---------------------------- MODULE RegexSyntax ----------------------------
(***************************************************************************)
(* The expressions BREX parses into (RegexOpt in src/src/regex/brex.h).  A *)
(* literal is a sequence of characters, a character range the set of       *)
(* characters it lists.                                                    *)
(***************************************************************************)
EXTENDS NFA, Sequences, SequencesExt

LiteralOpt(codes) == [tag |-> "Literal", codes |-> codes]
CharRangeOpt(compliment, ranges) ==
    [tag |-> "CharRange", compliment |-> compliment, ranges |-> ranges]
CharClassDotOpt == [tag |-> "CharClassDot"]
NamedRegexOpt(rname) == [tag |-> "NamedRegex", rname |-> rname]
EnvRegexOpt(ename) == [tag |-> "EnvRegex", ename |-> ename]
StarRepeatOpt(r) == [tag |-> "StarRepeat", repeat |-> r]
PlusRepeatOpt(r) == [tag |-> "PlusRepeat", repeat |-> r]
RangeRepeatOpt(low, high, r) ==
    [tag |-> "RangeRepeat", low |-> low, high |-> high, repeat |-> r]
OptionalOpt(r) == [tag |-> "Optional", opt |-> r]
AnyOfOpt(opts) == [tag |-> "AnyOf", opts |-> opts]
SequenceOpt(regexs) == [tag |-> "Sequence", regexs |-> regexs]

(* The node RegexParser::parseRangeRepeatOpt builds for r{low,high}, whose *)
(* errors for {0} and high < low the caller keeps out; {low,} is written   *)
(* with high = UINT16_MAX.                                                 *)
parseRangeRepeat(low, high, r) ==
    IF low = 0 /\ high = UINT16_MAX THEN StarRepeatOpt(r)
    ELSE IF low = 1 /\ high = UINT16_MAX THEN PlusRepeatOpt(r)
    ELSE IF low = 0 /\ high = 1 THEN OptionalOpt(r)
    ELSE IF low = 1 /\ high = 1 THEN r
    ELSE RangeRepeatOpt(low, high, r)

=============================================================================
