------------------------------- MODULE Escapes -------------------------------
(***************************************************************************)
(* Reading and writing the characters of strings, literals and ranges: the *)
(* escape functions of src/src/common.cpp and the parts of                 *)
(* src/src/regex/brex_parser.h that call them.  A text is a sequence of    *)
(* units: a raw byte, or an escape from % to ; with a number or a name.    *)
(* ischar tells char texts from Unicode ones.                              *)
(***************************************************************************)
EXTENDS UTF8, SequencesExt, FiniteSets

Raw(b) == [u |-> "raw", byte |-> b]
Hex(val, digits, clean) == [u |-> "hex", val |-> val, digits |-> digits, clean |-> clean]
Name(name) == [u |-> "name", name |-> name]

Percent == 37
Semicolon == 59
Newline == 10
Space == 32
Slash == 47
Backslash == 92
Brackets == {91, 93}

quoteOf(ischar) == IF ischar THEN 39 ELSE 34

isprint(c) == c \in 32 .. 126
isspace(c) == c \in 9 .. 13 \cup {Space}
isblank(c) == c \in {9, Space}
isLegalCChar(c) == isprint(c) \/ c \in {9, Newline}

-----------------------------------------------------------------------------
(* s_escape_names_unicode and s_escape_names_char: codes and names, the    *)
(* name an escape is written with before the others.                       *)

ControlNames == <<"NUL", "SOH", "STX", "ETX", "EOT", "ENQ", "ACK", "a", "b", "t", "n", "v", "f", "r",
                  "SO", "SI", "DLE", "DC1", "DC2", "DC3", "DC4", "NAK", "SYN", "ETB", "CAN", "EM",
                  "SUB", "e", "FS", "GS", "RS", "US">>
SharedNames == <<
    <<32, "space">>, <<33, "bang">>, <<35, "hash">>, <<36, "dollar">>, <<37, "%">>, <<37, "percent">>,
    <<38, "amp">>, <<40, "lparen">>, <<41, "rparen">>, <<42, "star">>, <<43, "plus">>, <<44, "comma">>,
    <<45, "dash">>, <<46, "dot">>, <<47, "slash">>, <<58, "colon">>, <<60, "langle">>, <<61, "equal">>,
    <<62, "rangle">>, <<63, "question">>, <<64, "at">>, <<91, "lbracket">>, <<92, "backslash">>,
    <<93, "rbracket">>, <<94, "caret">>, <<95, "underscore">>, <<96, "backtick">>, <<123, "lbrace">>,
    <<124, "pipe">>, <<125, "rbrace">>, <<126, "tilde">>>>

unicodeNames ==
    [c \in 1 .. 32 |-> <<c - 1, ControlNames[c]>>]
        \o <<<<127, "DEL">>, <<34, "">>, <<34, "quote">>, <<39, "tick">>, <<59, "semicolon">>>> \o SharedNames
charNames ==
    <<<<9, "t">>, <<10, "n">>, <<34, "quote">>, <<39, "">>, <<39, "tick">>, <<59, "semi">>>> \o SharedNames
namesOf(ischar) == IF ischar THEN charNames ELSE unicodeNames

Null == <<-1>>    \* std::nullopt, which is no sequence of codes or bytes

(* resolveEscape...FromName and ...FromCode; the second reads past the end *)
(* of the table for a code that is not in it.                              *)
fromName(name, ischar) ==
    LET names == namesOf(ischar)
        named == {i \in DOMAIN names : names[i][2] = name}
    IN  IF named = {} THEN Null ELSE <<names[Min(named)][1]>>
fromCode(c, ischar) ==
    LET names == namesOf(ischar)
        coded == {i \in DOMAIN names : names[i][1] = c}
    IN  Name(IF coded = {} THEN "undefined" ELSE names[Min(coded)][2])

(* decodeHexEscapeAsRegex and what decodeHexEscapeAsUnicode and ...AsC     *)
(* share with it.  errno is ERANGE when some call before set it.           *)
decodeHexEscapeAny(e, ischar, errno) ==    \* mutant: any char will do
    IF e.digits > 6 \/ errno = "ERANGE" \/ e.val \notin (IF ischar THEN Bytes ELSE CodePoints) THEN Null
    ELSE <<e.val>>
decodeHexEscape(e, ischar, errno) ==
    IF \/ e.digits > (IF ischar THEN 2 ELSE 6)
       \/ errno = "ERANGE"
       \/ ~(IF ischar THEN isLegalCChar(e.val) ELSE e.val \in CodePoints)
    THEN Null
    ELSE <<e.val>>
decodeHexEscapeAsRegex(e, ischar, errno) ==
    IF e.clean THEN decodeHexEscape(e, ischar, errno) ELSE Null

-----------------------------------------------------------------------------
(* The checks before a text is read. *)

isRaw(u) == u.u = "raw"
isOpen(u) == isRaw(u) /\ u.byte = Percent    \* a % that no ; ends
rawBytes(t) == [i \in DOMAIN t |-> IF isRaw(t[i]) THEN t[i].byte ELSE Percent]

(* parserValidateUTF8ByteEncoding and parserValidateAllCEncoding. *)
validBytes(s, ischar) ==
    LET n == Len(s)
        wellEncoded[i \in 0 .. n] ==
            \/ i = n
            \/ /\ isSingleByte(byte(s, i))
               /\ wellEncoded[i + 1]
            \/ LET count == charCodeByteCount(s, i)
               IN  /\ count > 1 /\ i + count <= n
                   /\ \A k \in 1 .. count - 1 : isContinuationByte(byte(s, i + k))
                   /\ wellEncoded[i + count]
    IN  IF ischar THEN \A i \in DOMAIN s : isSingleByte(s[i]) ELSE wellEncoded[0]

(* parserValidateEscapeSequences: whether it has an error to report. *)
badEscapeLenient(u, ischar, errno) ==    \* mutant: digits are not looked at
    CASE u.u = "hex" -> decodeHexEscape(u, ischar, errno) = Null
      [] u.u = "name" -> fromName(u.name, ischar) = Null
      [] OTHER -> isOpen(u)
badEscape(u, ischar, errno) ==
    CASE u.u = "hex" -> ~u.clean \/ decodeHexEscape(u, ischar, errno) = Null
      [] u.u = "name" -> fromName(u.name, ischar) = Null
      [] OTHER -> isOpen(u)
badEscapes(t, ischar, errno) == \E i \in DOMAIN t : badEscape(t[i], ischar, errno)

-----------------------------------------------------------------------------
(* Strings. *)

isNewline(u) == isRaw(u) /\ u.byte = Newline
isBackslash(u) == isRaw(u) /\ u.byte = Backslash
isWhite(u) == isRaw(u) /\ isspace(u.byte) /\ ~isNewline(u)

(* How many units a multi-line literal leaves out after the line break at  *)
(* i: the white space up to a backslash, or to the end, and one more.      *)
msScanCountToText(t, i) ==    \* mutant: up to anything that is not white
    LET n == CHOOSE j \in i + 1 .. Len(t) + 1 :
                 /\ j = Len(t) + 1 \/ ~isRaw(t[j]) \/ ~isspace(t[j].byte)
                 /\ \A k \in i + 1 .. j - 1 : isRaw(t[k]) /\ isspace(t[k].byte)
    IN  IF n > i + 1 THEN n - i ELSE 0
msScanCount(t, i) ==
    LET n == Min({j \in i + 1 .. Len(t) + 1 : j = Len(t) + 1 \/ isBackslash(t[j])})
        count == n - i - 1
    IN  IF count >= 1 /\ \A k \in i + 1 .. n - 1 : isWhite(t[k]) THEN count + 1 ELSE 0

keptUnits(t, multiline) ==
    DOMAIN t \ (IF multiline
                THEN UNION {i + 1 .. i + msScanCount(t, i) : i \in {j \in DOMAIN t : isNewline(t[j])}}
                ELSE {})

(* What decodeHexEscapeAsC and decodeHexEscapeAsUnicode make of a number:  *)
(* the second has its own copy of extractRegexCharToBytes.                 *)
(* Mutant: U+10000 in three bytes.                                         *)
hexEscapeBytesLate(c, ischar) ==    \* mutant
    IF ischar \/ c <= 127 THEN bytes1(c)
    ELSE IF c < 2047 THEN bytes2(c)
    ELSE IF c <= 65536 THEN bytes3(c)
    ELSE bytes4(c)
hexEscapeBytes(c, ischar) ==
    IF ischar \/ c <= 127 THEN bytes1(c)
    ELSE IF c < 2047 THEN bytes2(c)
    ELSE IF c < 65535 THEN bytes3(c)
    ELSE bytes4(c)

stringBytes(u, ischar, errno) ==
    CASE u.u = "hex" -> hexEscapeBytes(decodeHexEscape(u, ischar, errno)[1], ischar)
      [] u.u = "name" -> fromName(u.name, ischar)
      [] OTHER -> <<u.byte>>

(* unescapeUnicodeStringLiteralGeneral and unescapeCStringGeneral. *)
unescapeString(t, ischar, multiline, errno) ==
    LET kept == keptUnits(t, multiline)
        legal(c) == IF ischar THEN isLegalCChar(c) ELSE c > 127 \/ isprint(c) \/ isspace(c)
    IN  IF \/ ~validBytes(rawBytes(t), ischar)
           \/ badEscapes(t, ischar, errno)
           \/ \E i \in kept : isRaw(t[i]) /\ ~legal(t[i].byte)
        THEN Null
        ELSE FlattenSeq([i \in DOMAIN t |->
                 IF i \in kept THEN stringBytes(t[i], ischar, errno) ELSE <<>>])

(* escapeUnicodeString and escapeCString. *)
escapeString(s, ischar) ==
    [i \in DOMAIN s |->
        IF s[i] \in {Percent, quoteOf(ischar)} \/ (s[i] <= 127 /\ ~isprint(s[i]))
        THEN fromCode(s[i], ischar) ELSE Raw(s[i])]

-----------------------------------------------------------------------------
(* Literals and ranges of expressions: what is read, or Null, and whether  *)
(* the parser reports an error.                                            *)

allowedRaw(c) == c > 127 \/ isprint(c) \/ isblank(c)

(* unescapeUnicodeRegexLiteral and unescapeCRegexLiteral, of valid bytes. *)
unitCodesBytewise(t, i, ischar, errno) ==    \* mutant: takes bytes for characters
    CASE t[i].u = "hex" -> decodeHexEscapeAsRegex(t[i], ischar, errno)
      [] t[i].u = "name" -> fromName(t[i].name, ischar)
      [] OTHER -> IF isOpen(t[i]) THEN Null ELSE <<t[i].byte>>
unitCodes(t, i, ischar, errno) ==
    LET u == t[i]
    IN  CASE u.u = "hex" -> decodeHexEscapeAsRegex(u, ischar, errno)
          [] u.u = "name" -> fromName(u.name, ischar)
          [] OTHER -> IF isOpen(u) THEN Null
                      ELSE IF isContinuationByte(u.byte) THEN <<>>
                      ELSE <<decode(rawBytes(t), i - 1, Len(t) - 1)>>
unescapeLiteral(t, ischar, errno) ==
    LET codes == [i \in DOMAIN t |-> unitCodes(t, i, ischar, errno)]
    IN  IF \E i \in DOMAIN t : codes[i] = Null THEN Null ELSE FlattenSeq(codes)

(* parseUnicodeLiteral and parseCLiteral: up to the first raw quote. *)
upToQuote(t, ischar) ==
    SubSeq(t, 1, Min({n \in 0 .. Len(t) : n = Len(t) \/ t[n + 1] = Raw(quoteOf(ischar))}))

readLiteral(text, ischar, errno) ==
    LET t == upToQuote(text, ischar)
    IN  IF \/ \E i \in DOMAIN t : isRaw(t[i]) /\ ~allowedRaw(t[i].byte)
           \/ ~validBytes(rawBytes(t), ischar)
        THEN [value |-> Null, reported |-> TRUE]
        ELSE LET codes == unescapeLiteral(t, ischar, errno)
             IN  [value |-> codes, reported |-> codes = Null /\ badEscapes(t, ischar, errno)]

(* parseRegexChar, of the character at the beginning, with the _SingleChar *)
(* forms of the checks.                                                    *)
readRangeChar(t, ischar, errno) ==
    LET u == t[1]
        s == rawBytes(t)
        count == charCodeByteCount(s, 0)
        badUnit ==
            CASE u.u = "hex" -> ~u.clean \/ (ischar /\ decodeHexEscapeAsRegex(u, ischar, errno) = Null)
              [] u.u = "name" -> FALSE
              [] OTHER -> \/ ~allowedRaw(u.byte) \/ isOpen(u)
                          \/ u.byte > 127 /\ (ischar \/ count > Len(t) \/ ~validBytes(SubSeq(s, 1, count), FALSE))
        codes == unitCodes(t, 1, ischar, errno)
    IN  IF badUnit THEN [value |-> Null, reported |-> TRUE]
        ELSE [value |-> codes, reported |-> codes = Null /\ badEscape(u, ischar, errno)]

(* escapeRegex...LiteralCharBuffer and escapeSingle...RegexChar: the BSQON *)
(* form, of literals and of ranges.                                        *)
escapeCodesPlainly(codes, ischar, inRange) ==    \* mutant: the quote is printable
    FlattenSeq([i \in DOMAIN codes |->
        IF codes[i] = Percent \/ (codes[i] <= 127 /\ ~isprint(codes[i]))
        THEN <<fromCode(codes[i], ischar)>>
        ELSE [k \in DOMAIN extractRegexCharToBytes(codes[i]) |-> Raw(extractRegexCharToBytes(codes[i])[k])]])
escapeCodes(codes, ischar, inRange) ==
    LET named == {Percent, quoteOf(ischar), Slash, Backslash} \cup (IF inRange THEN Brackets ELSE {})
        bytes(c) == extractRegexCharToBytes(c)
    IN  FlattenSeq([i \in DOMAIN codes |->
            IF codes[i] \in named \/ (codes[i] <= 127 /\ ~isprint(codes[i]))
            THEN <<fromCode(codes[i], ischar)>>
            ELSE [k \in DOMAIN bytes(codes[i]) |-> Raw(bytes(codes[i])[k])]])

(* processRegexCharsToBsqStandard: by their numbers, without leading 0. *)
hexDigits(c) == Min({n \in 1 .. 6 : c < <<16, 256, 4096, 65536, 1048576, 16777216>>[n]})
standardCodes(codes) ==
    [i \in DOMAIN codes |->
        IF isprint(codes[i]) /\ codes[i] \notin {Percent, 34, 39, Slash, Backslash} \cup Brackets
        THEN Raw(codes[i]) ELSE Hex(codes[i], hexDigits(codes[i]), TRUE)]

=============================================================================
