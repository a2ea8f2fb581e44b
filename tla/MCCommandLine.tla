---------------------------- MODULE MCCommandLine ----------------------------
(***************************************************************************)
(* Command lines of up to MaxArgs arguments in every order.                *)
(***************************************************************************)
EXTENDS CommandLine

CONSTANT MaxArgs

expression == Word(<<"/", ".", "/">>)
literal == Word(<<"\"", "x", "\"">>)
quote == Word(<<"\"">>)
Options == {Option(o) : o \in {"-a", "-n", "-c", "-s", "-l", "-h"}}

lines(args) == UNION {[1 .. n -> args] : n \in 0 .. MaxArgs}
MCCommandLines == lines(Options \cup {expression, literal, quote})

letter == <<97>>
eAcute == <<195, 169>>
MCEnvValues == {Unset, letter, eAcute, <<97, 10>>}

=============================================================================
