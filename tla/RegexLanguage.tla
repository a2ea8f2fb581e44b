--------------------------- MODULE RegexLanguage ---------------------------
(***************************************************************************)
(* The language README.md gives an expression of brex.h.                   *)
(***************************************************************************)
EXTENDS RegexSyntax

(* The language of a resolved expression, cut off at words of n letters. *)

Words(n) == UNION {[1..k -> Chars] : k \in 0..n}
cat(A, B, n) == {w \in {a \o b : a \in A, b \in B} : Len(w) <= n}

(* Concatenations of exactly i, and of any number, of words of A. *)
power(A, i, n) ==
    LET p[j \in Nat] == IF j = 0 THEN {<<>>} ELSE cat(A, p[j - 1], n) IN p[i]
star(A, n) == UNION {power(A, i, n) : i \in 0..n}

(* r{low,high}; without a maximum, low words and then any number.  Beyond  *)
(* the empty word at most n iterations are visible in a word of n letters. *)
repeatLanguage(A, low, high, n) ==
    IF high = UINT16_MAX THEN cat(power(A, low, n), star(A, n), n)
    ELSE UNION {power(A, i, n) : i \in low..high}

RECURSIVE Language(_, _)
Language(r, n) ==
    CASE r.tag = "Literal" -> {w \in {r.codes} : Len(w) <= n}
      [] r.tag = "CharRange" ->
           {<<c>> : c \in IF r.compliment THEN Chars \ r.ranges ELSE r.ranges}
      [] r.tag = "CharClassDot" -> {<<c>> : c \in Chars}
      [] r.tag = "StarRepeat" -> star(Language(r.repeat, n), n)
      [] r.tag = "PlusRepeat" ->
           cat(Language(r.repeat, n), star(Language(r.repeat, n), n), n)
      [] r.tag = "RangeRepeat" ->
           repeatLanguage(Language(r.repeat, n), r.low, r.high, n)
      [] r.tag = "Optional" -> {<<>>} \cup Language(r.opt, n)
      [] r.tag = "AnyOf" -> UNION {Language(r.opts[i], n) : i \in DOMAIN r.opts}
      [] r.tag = "Sequence" ->
           FoldLeft(LAMBDA A, s : cat(A, Language(s, n), n), {<<>>}, r.regexs)

=============================================================================
