---------------------------- MODULE MCEscapedTexts ----------------------------
(***************************************************************************)
(* Texts of one unit: every byte, every name, numbers around the bounds of *)
(* the encodings; and short texts of the characters that interact.         *)
(***************************************************************************)
EXTENDS EscapedTexts

Boundaries == {0, 9, 10, 31, 34, 65, 126, 127, 128, 2046, 2047, 2048, 65534, 65535, 65536, 1114111, 1114112}

hexes == {Hex(c, hexDigits(c), TRUE) : c \in Boundaries}
             \cup {Hex(7, 6, TRUE), Hex(7, 7, TRUE), Hex(7, 2, FALSE), Hex(65, 3, TRUE)}
names == {Name(n) : n \in {"NUL", "n", "", "%", "percent", "quote", "tick", "semi", "semicolon",
                           "slash", "lbracket", "DEL", "x", "nope"}}
raws(s) == [i \in DOMAIN s |-> Raw(s[i])]
direct == {raws(utf8(c)) : c \in Boundaries \cap CodePoints} \cup {raws(<<244, 144, 128, 128>>)}  \* the last past them
broken == {raws(Front(utf8(c))) : c \in {2047, 65535, 1114111}}
              \cup {raws(Front(Front(utf8(c)))) : c \in {65535, 1114111}}
              \cup {raws(Tail(utf8(2048))), raws(<<194, 65>>), raws(<<65, 224, 160>>)}

sequences(S, n) == UNION {[1 .. k -> S] : k \in 0 .. n}

single == {<<Raw(b)>> : b \in 0 .. 127} \cup {<<u>> : u \in hexes \cup names} \cup direct \cup broken
layout == sequences({Raw(b) : b \in {9, Newline, Space, Backslash, 65}}, 4)
              \cup {<<Raw(Newline), Raw(b)>> : b \in 11 .. 13}
mixed(quote) ==
    {t \in sequences({Raw(65), Raw(Percent), Raw(Semicolon), Raw(quote), Raw(Slash), Raw(194), Raw(181),
                      Name("n"), Name("quote"), Name(""), Hex(2047, 3, TRUE), Hex(93, 2, TRUE), Hex(9, 1, FALSE)}, 2) :
        isParsed(t)}

MCCharTexts == single \cup layout \cup mixed(39)
MCUnicodeTexts == single \cup layout \cup mixed(34)

=============================================================================
