----------------------------- MODULE CommandLine -----------------------------
(***************************************************************************)
(* The brex tool (src/src/regex/brex_cmd.cpp): the command line is read    *)
(* one argument at a time, then the expression is parsed, its environment  *)
(* variables looked up, the expression compiled, the input loaded and      *)
(* tested.  What the parser, the compiler and the executor answer is their *)
(* own modules' concern and any answer here.                               *)
(***************************************************************************)
EXTENDS Integers, SequencesExt, FiniteSets

CONSTANTS
    CommandLines,    \* the sequences of arguments, texts among them with a literal
    EnvNames,        \* names an expression may ask the environment for
    EnvValues        \* what getenv may return: bytes, or Unset

Unset == <<-1>>

(* An argument that is not an option has none. *)
Word(chars) == [option |-> "none", chars |-> chars]
Option(o) == [option |-> o, chars |-> <<>>]
Null == Word(<<"nullptr">>)

(* A command line lists arguments; an option is nothing but its name. *)
ASSUME CommandLinesAssumption ==
    \A line \in CommandLines :
        /\ Len(line) \in Nat /\ DOMAIN line = 1 .. Len(line)
        /\ \A k \in DOMAIN line : line[k].option # "none" => line[k] = Option(line[k].option)

VARIABLES
    argv, i,                     \* the command line, and the argument looked at
    re, file, flags, isstdin,    \* what processCmdLine has read of it
    environment,                 \* the process environment
    envnames,                    \* the variables the expression asks for
    envmap,                      \* the literals made of them
    at,                          \* the statement main has come to
    input,                       \* where the text came from
    status                       \* what main exits with, or "running"

cmdLine == <<argv, i, re, file, flags, isstdin>>
vars == <<cmdLine, environment, envnames, envmap, at, input, status>>

AllFlags == {"-a", "-n", "-c", "-x", "-l"}

-----------------------------------------------------------------------------
(* processCmdLine *)

usage ==
    /\ at' = "end" /\ status' = "usage"
    /\ UNCHANGED <<cmdLine, environment, envnames, envmap, input>>

nextArgument == i' = i + 1 /\ UNCHANGED <<argv, environment, envnames, envmap, at, input, status>>

processOption ==
    /\ at = "arguments" /\ i <= Len(argv) /\ argv[i].option # "none"
    /\ LET arg == argv[i].option
       IN  IF arg \in AllFlags
           THEN nextArgument /\ flags' = flags \cup {arg} /\ UNCHANGED <<re, file, isstdin>>
           ELSE IF arg = "-s"
           THEN nextArgument /\ isstdin' = TRUE /\ UNCHANGED <<re, file, flags>>
           ELSE usage    \* -h and unknown ones

(* The first word is the expression, the second the input. *)
processWordTwice ==    \* mutant: -s is not looked at
    /\ at = "arguments" /\ i <= Len(argv) /\ argv[i].option = "none"
    /\ nextArgument /\ re' = (IF re = Null THEN argv[i] ELSE re)
    /\ file' = (IF re = Null THEN file ELSE argv[i]) /\ UNCHANGED <<flags, isstdin>>
processWord ==
    /\ at = "arguments" /\ i <= Len(argv) /\ argv[i].option = "none"
    /\ IF re = Null
       THEN nextArgument /\ re' = argv[i] /\ UNCHANGED <<file, flags, isstdin>>
       ELSE IF file = Null /\ ~isstdin
       THEN nextArgument /\ file' = argv[i] /\ UNCHANGED <<re, flags, isstdin>>
       ELSE usage

(* The checks after the loop. *)
checkArguments ==
    /\ at = "arguments" /\ i > Len(argv)
    /\ IF \/ re = Null
          \/ isstdin /\ "-l" \in flags
          \/ ~isstdin /\ file = Null
          \/ "-a" \in flags /\ flags \cap {"-n", "-c", "-x"} # {}
          \/ {"-c", "-n"} \subseteq flags
       THEN usage
       ELSE /\ at' = "parse"
            /\ UNCHANGED <<cmdLine, environment, envnames, envmap, input, status>>

-----------------------------------------------------------------------------
(* main *)

exit(code) ==
    /\ at' = "end" /\ status' = code
    /\ UNCHANGED <<cmdLine, environment, envnames, envmap, input>>
goOn(statement) ==
    /\ at' = statement
    /\ UNCHANGED <<cmdLine, environment, envmap, status>>

(* parseUnicodeRegex fails, or gatherNamedRegexKeys finds the variables.   *)
parse ==
    /\ at = "parse"
    /\ \/ exit("parse errors")
       \/ goOn("environment") /\ envnames' \in SUBSET EnvNames /\ UNCHANGED input

isprint(c) == c \in 32 .. 126
isblank(c) == c \in {9, 32}
refused(value) == \E k \in DOMAIN value : value[k] <= 127 /\ ~isprint(value[k]) /\ ~isblank(value[k])

(* One turn of the loop over envnames; the literal is made of the bytes.   *)
lookUpUnchecked ==    \* mutant: takes any value
    /\ at = "environment" /\ DOMAIN envmap # envnames
    /\ \E name \in envnames \ DOMAIN envmap :
          envmap' = [n \in DOMAIN envmap \cup {name} |-> environment[n]]
    /\ UNCHANGED <<cmdLine, environment, envnames, at, input, status>>
lookUp ==
    /\ at = "environment" /\ DOMAIN envmap # envnames
    /\ \E name \in envnames \ DOMAIN envmap :
          IF environment[name] = Unset \/ refused(environment[name])
          THEN exit("environment")
          ELSE /\ envmap' = [n \in DOMAIN envmap \cup {name} |-> environment[n]]
               /\ UNCHANGED <<cmdLine, environment, envnames, at, input, status>>

(* compileUnicodeRegexToExecutor, with every variable found. *)
compile ==
    /\ at = "environment" /\ DOMAIN envmap = envnames
    /\ \/ exit("compile errors")
       \/ goOn("load") /\ UNCHANGED <<envnames, input>>

(* loadText: what is between the quotes of a literal; one quote alone is   *)
(* an interval that ends before it begins.                                 *)
quoted(chars) == chars # <<>> /\ chars[1] = "\"" /\ Last(chars) = "\""

loadText ==
    /\ at = "load"
    /\ IF file = Null THEN goOn("run") /\ input' = "stdin" /\ UNCHANGED envnames
       ELSE IF "-l" \notin flags THEN goOn("run") /\ input' = "file" /\ UNCHANGED envnames
       ELSE IF quoted(file.chars)
       THEN /\ goOn("run") /\ UNCHANGED envnames
            /\ input' = IF Len(file.chars) < 2 THEN "undefined" ELSE "literal"
       ELSE exit("not a literal")

(* The executor may refuse the form of the expression. *)
run ==
    /\ at = "run"
    /\ IF "-a" \in flags
       THEN \E answer \in {"accepted", "rejected", "invalid form"} : exit(answer)
       ELSE exit("not supported")

-----------------------------------------------------------------------------
Init ==
    /\ argv \in CommandLines /\ i = 1
    /\ re = Null /\ file = Null /\ flags = {} /\ isstdin = FALSE
    /\ environment \in [EnvNames -> EnvValues]
    /\ envnames = {} /\ envmap = <<>>
    /\ at = "arguments" /\ input = "none" /\ status = "running"

Next ==
    \/ processOption \/ processWord \/ checkArguments
    \/ parse \/ lookUp \/ compile \/ loadText \/ run

Spec == Init /\ [][Next]_vars

-----------------------------------------------------------------------------
(* Properties *)

given(o) == \E k \in DOMAIN argv : argv[k] = Option(o)

(* The input comes from the input stream exactly when -s asks for it, of   *)
(* command lines with the options before the words.                        *)
optionsFirst == \A j, k \in DOMAIN argv : argv[j].option = "none" /\ argv[k].option # "none" => k < j
StdinWhenAskedFirst == optionsFirst /\ input # "none" => (input = "stdin" <=> given("-s"))

(* An expression is compiled with a literal for every variable it asks     *)
(* for, and none of a value refused.                                       *)
CompiledWithItsEnvironment ==
    at \in {"load", "run"} =>
        /\ DOMAIN envmap = envnames
        /\ \A n \in envnames : environment[n] # Unset /\ ~refused(environment[n])

=============================================================================
