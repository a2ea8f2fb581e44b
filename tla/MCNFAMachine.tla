--------------------------- MODULE MCNFAMachine ---------------------------
(***************************************************************************)
(* NFAMachine on the machines that RegexCompiler emits for a choice of     *)
(* expressions: every kind of opt, loops whose body may be empty, counted  *)
(* repeats under loops and around alternatives.                            *)
(***************************************************************************)
EXTENDS NFAMachine, RegexCompiler

lit(c) == LiteralOpt(<<c>>)
MCChars == {"a", "b"}

(* A repeat whose body begins with a character, unbounded and bounded. *)
ab == SequenceOpt(<<lit("a"), OptionalOpt(lit("b"))>>)

MCRegexes == {
    StarRepeatOpt(StarRepeatOpt(lit("a"))),
    PlusRepeatOpt(AnyOfOpt(<<OptionalOpt(lit("a")), LiteralOpt(<<"b", "a">>)>>)),
    StarRepeatOpt(RangeRepeatOpt(0, 2, ab)),
    SequenceOpt(<<RangeRepeatOpt(2, 3, CharClassDotOpt), OptionalOpt(lit("a"))>>),
    RangeRepeatOpt(2, 4, SequenceOpt(<<lit("a"), StarRepeatOpt(lit("b"))>>)),
    RangeRepeatOpt(2, INT16_MAX, PlusRepeatOpt(lit("a"))),
    RangeRepeatOpt(2, UINT16_MAX, lit("a")),
    RangeRepeatOpt(0, 2, AnyOfOpt(<<lit("a"), CharRangeOpt(TRUE, {"a"})>>)),
    AnyOfOpt(<<SequenceOpt(<<RangeRepeatOpt(2, 2, lit("a")), RangeRepeatOpt(0, 3, lit("b"))>>),
               LiteralOpt(<<>>)>>)
}

MCMachines == {forwardMachine(r) : r \in MCRegexes} \cup {reverseMachine(r) : r \in MCRegexes}
=============================================================================
