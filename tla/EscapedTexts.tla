----------------------------- MODULE EscapedTexts -----------------------------
(***************************************************************************)
(* One text of a program read and written again: as a string, as a string  *)
(* literal over several lines, as a literal or as a range character of an  *)
(* expression.  errno belongs to the process: a repeat bound of more       *)
(* digits than a long holds sets it, and nothing in the code resets it.    *)
(***************************************************************************)
EXTENDS Escapes

CONSTANTS
    CharTexts,      \* texts of char strings and expressions
    UnicodeTexts    \* texts of Unicode strings and expressions

isUnit(u) ==
    \/ u.u = "raw" /\ u.byte \in Bytes
    \/ u.u = "hex" /\ u.val \in Nat /\ u.digits \in Nat /\ u.clean \in BOOLEAN
    \/ u.u = "name"
isText(t) == t \in Seq(Range(t)) /\ \A u \in Range(t) : isUnit(u)

(* The units are those the bytes are read in: a % that is no escape has no *)
(* ; after it that would end one.                                          *)
endsEscape(u) == ~isRaw(u) \/ u.byte = Semicolon
isParsed(t) == \A i, k \in DOMAIN t : isOpen(t[i]) /\ i < k => ~endsEscape(t[k])

ASSUME TextsAssumption == \A t \in CharTexts \cup UnicodeTexts : isText(t) /\ isParsed(t)

VARIABLES
    ischar,    \* which of the two the text is
    text,
    source,    \* what the text was written from, or Given
    errno,
    got        \* what was read from the text last, or NothingRead

vars == <<ischar, text, source, errno, got>>

Given == [op |-> "given", value |-> Null]
NothingRead == [op |-> "nothing", value |-> Null, reported |-> FALSE]
Ops == {"string", "aligned", "literal", "range"}

read(op, t, err) ==
    LET result ==
            CASE op = "literal" -> readLiteral(t, ischar, err)
              [] op = "range" -> readRangeChar(t, ischar, err)
              [] OTHER -> LET s == unescapeString(t, ischar, op = "aligned", err)
                          IN  [value |-> s, reported |-> s = Null]
    IN  [op |-> op, value |-> result.value, reported |-> result.reported]

(* One of the reading functions is called; a range character needs one. *)
Read(op) ==
    /\ op = "range" => text # <<>>
    /\ got' = read(op, text, errno)
    /\ UNCHANGED <<ischar, text, source, errno>>

Write(written) ==
    /\ source = Given
    /\ text' = written
    /\ source' = [op |-> got.op, value |-> got.value]
    /\ got' = NothingRead
    /\ UNCHANGED <<ischar, errno>>

isRead(ops) == got.op \in ops /\ got.value # Null

EscapeString == isRead({"string", "aligned"}) /\ Write(escapeString(got.value, ischar))
EscapeCodes == isRead({"literal", "range"}) /\ Write(escapeCodes(got.value, ischar, got.op = "range"))
StandardCodes == isRead({"literal", "range"}) /\ Write(standardCodes(got.value))

(* strtol in parseRangeRepeatBound, of a number longer than a long. *)
ParseLongBound ==
    /\ errno = "0"
    /\ errno' = "ERANGE"
    /\ got' = NothingRead
    /\ UNCHANGED <<ischar, text, source>>

Init ==
    /\ ischar \in BOOLEAN
    /\ text \in IF ischar THEN CharTexts ELSE UnicodeTexts
    /\ source = Given /\ errno = "0" /\ got = NothingRead

Next ==
    \/ \E op \in Ops : Read(op)
    \/ EscapeString \/ EscapeCodes \/ StandardCodes
    \/ ParseLongBound

Spec == Init /\ [][Next]_vars

-----------------------------------------------------------------------------
(* Properties *)

(* What is written is read back: strings as they were escaped, literals    *)
(* and ranges in both forms.  An error left in errno can only refuse them, *)
(* as can a number of four bytes past the last code point.                 *)
WrittenReadsBack ==
    source # Given /\ got.op = source.op =>
        \/ got.value = source.value
        \/ /\ got.value = Null
           /\ errno = "ERANGE" \/ Range(source.value) \ CodePoints # {}

(* A literal or a range character the parser cannot read is reported, so   *)
(* it is never taken for an empty one.                                     *)
RefusedIsReported == got.op \in Ops /\ got.value = Null => got.reported

(* Strings that are read can be walked over by the iterators: whole        *)
(* characters, and legal ones.                                             *)
StringsAreWellFormed ==
    isRead({"string", "aligned"}) =>
        /\ validBytes(got.value, ischar)
        /\ ischar => \A i \in DOMAIN got.value : isLegalCChar(got.value[i])

(* A literal stands for the string the same characters give between the    *)
(* quotes of a string.                                                     *)
codePoints(s) ==
    FlattenSeq([i \in DOMAIN s |->
        IF isContinuationByte(s[i]) THEN <<>> ELSE <<decode(s, i - 1, Len(s) - 1)>>])
literalMeansItsString ==
    isRead({"literal"}) /\ Raw(quoteOf(ischar)) \notin Range(text) =>
        LET s == unescapeString(text, ischar, FALSE, errno)
        IN  s # Null /\ codePoints(s) = got.value

(* A character is the same in a range as alone in a literal, and refused   *)
(* in both or in none.                                                     *)
oneCharacter ==
    \/ Len(text) = 1
    \/ /\ text # <<>> /\ ~isSingleByte(rawBytes(text)[1])
       /\ Len(text) = charCodeByteCount(rawBytes(text), 0)
rangeAgreesWithLiteral ==
    got.op = "range" /\ oneCharacter /\ Raw(quoteOf(ischar)) \notin Range(text) =>
        got.value = readLiteral(text, ischar, errno).value

(* The readers of ranges, literals and strings, three pieces of code with  *)
(* tables of their own, give a text one meaning.                           *)
ReadersAgree == literalMeansItsString /\ rangeAgreesWithLiteral

(* msScanCount: "no trailing slash so not an alignment".  Only white space *)
(* before a backslash is left out, but for blanks that end a text.         *)
endsBlank ==
    \E i \in DOMAIN text :
        /\ i < Len(text) /\ isNewline(text[i])
        /\ \A k \in i + 1 .. Len(text) : isWhite(text[k])
AlignmentHasBackslash ==
    isRead({"aligned"}) /\ ~endsBlank /\ ~(\E i \in DOMAIN text : isBackslash(text[i])) =>
        got.value = unescapeString(text, ischar, FALSE, errno)

=============================================================================
