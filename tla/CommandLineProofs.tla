-------------------------- MODULE CommandLineProofs --------------------------
(***************************************************************************)
(* Proofs about CommandLine, for every set of command lines and every      *)
(* environment: where the text comes from, and with what the expression is *)
(* compiled.                                                               *)
(***************************************************************************)
EXTENDS CommandLine, TLAPS

-----------------------------------------------------------------------------
(* The inductive invariant. *)

ArgumentsListed ==
    /\ i \in Nat \ {0} /\ Len(argv) \in Nat /\ DOMAIN argv = 1 .. Len(argv)
    /\ \A k \in DOMAIN argv : argv[k].option # "none" => argv[k] = Option(argv[k].option)

(* What has been read of the arguments before i.  A word after -s is       *)
(* refused, so that with the options first -s and a second word exclude    *)
(* each other.                                                             *)
ReadSoFar ==
    /\ isstdin \in BOOLEAN
    /\ isstdin <=> \E k \in DOMAIN argv : k < i /\ argv[k] = Option("-s")
    /\ file # Null => \E k \in DOMAIN argv : k < i /\ argv[k].option = "none"
    /\ optionsFirst /\ isstdin => file = Null

(* After checkArguments all has been read, and there is an input. *)
Checked == at \in {"parse", "environment", "load", "run"} \/ input # "none" =>
    i > Len(argv) /\ (isstdin \/ file # Null)

InputFollowsFile == input # "none" => (input = "stdin" <=> file = Null)

LookedUp ==
    /\ at \in {"arguments", "parse"} => DOMAIN envmap = {}
    /\ at \in {"environment", "load", "run"} =>
          /\ DOMAIN envmap \subseteq envnames
          /\ \A n \in DOMAIN envmap : environment[n] # Unset /\ ~refused(environment[n])
    /\ at \in {"load", "run"} => DOMAIN envmap = envnames

IInv == ArgumentsListed /\ ReadSoFar /\ Checked /\ InputFollowsFile /\ LookedUp

LEMMA InitIInv == Init => IInv
  <1> SUFFICES ASSUME Init
               PROVE  IInv
    OBVIOUS
  <1>1. /\ argv \in CommandLines /\ i = 1 /\ file = Null /\ isstdin = FALSE
        /\ DOMAIN envmap = {} /\ at = "arguments" /\ input = "none"
    BY DEF Init
  <1>2. ArgumentsListed
    BY <1>1, CommandLinesAssumption DEF ArgumentsListed
  <1>3. \A k \in DOMAIN argv : ~(k < i)
    BY <1>1, <1>2 DEF ArgumentsListed
  <1>4. ReadSoFar
    BY <1>1, <1>3 DEF ReadSoFar
  <1> QED
    BY <1>1, <1>2, <1>4 DEF IInv, Checked, InputFollowsFile, LookedUp

-----------------------------------------------------------------------------
(* One argument more. *)
LEMMA ReadOneMore ==
    ASSUME ArgumentsListed, i' = i + 1, argv' = argv, i <= Len(argv)
    PROVE  /\ ArgumentsListed' /\ i \in DOMAIN argv
           /\ \A k \in DOMAIN argv : k < i' <=> k < i \/ k = i
  BY DEF ArgumentsListed

LEMMA OptionIInv ==
    ASSUME IInv, processOption
    PROVE  IInv'
  <1>1. /\ at = "arguments" /\ i <= Len(argv) /\ argv[i].option # "none"
    BY DEF processOption
  <1>2. CASE usage
    BY <1>2 DEF usage, cmdLine, IInv, ArgumentsListed, ReadSoFar, Checked, InputFollowsFile,
                LookedUp, optionsFirst
  <1>3. CASE /\ nextArgument /\ re' = re /\ file' = file
             /\ isstdin' = (isstdin \/ argv[i].option = "-s")
    <2>1. /\ i' = i + 1 /\ argv' = argv /\ file' = file
          /\ UNCHANGED <<environment, envnames, envmap, at, input>>
      BY <1>3 DEF nextArgument
    <2>2. /\ ArgumentsListed' /\ i \in DOMAIN argv
          /\ \A k \in DOMAIN argv : k < i' <=> k < i \/ k = i
      BY <1>1, <2>1, ReadOneMore DEF IInv
    <2>3. argv[i] = Option("-s") <=> argv[i].option = "-s"
      BY <1>1, <2>2 DEF IInv, ArgumentsListed, Option
    <2>4. isstdin' \in BOOLEAN /\ (isstdin' <=> isstdin \/ argv[i] = Option("-s"))
      BY <1>3, <2>3 DEF IInv, ReadSoFar
    <2>5. isstdin' <=> \E k \in DOMAIN argv : k < i' /\ argv[k] = Option("-s")
      BY <2>2, <2>4 DEF IInv, ReadSoFar
    <2>6. file # Null => \E k \in DOMAIN argv : k < i /\ argv[k].option = "none"
      BY DEF IInv, ReadSoFar
    <2>7. optionsFirst => file = Null
      <3>1. ASSUME NEW k \in DOMAIN argv, k < i, argv[k].option = "none", optionsFirst
            PROVE  FALSE
        <4>1. i < k
          BY <1>1, <2>2, <3>1 DEF optionsFirst
        <4> QED
          BY <3>1, <4>1 DEF IInv, ArgumentsListed
      <3> QED
        BY <2>6, <3>1
    <2>8. ReadSoFar'
      BY <2>1, <2>2, <2>4, <2>5, <2>6, <2>7 DEF ReadSoFar, optionsFirst
    <2> QED
      BY <1>1, <2>1, <2>2, <2>8 DEF IInv, Checked, InputFollowsFile, LookedUp
  <1> QED
    BY <1>2, <1>3 DEF processOption, AllFlags, IInv, ReadSoFar

LEMMA WordIInv ==
    ASSUME IInv, processWord
    PROVE  IInv'
  <1>1. /\ at = "arguments" /\ i <= Len(argv) /\ argv[i].option = "none"
    BY DEF processWord
  <1>2. CASE usage
    BY <1>2 DEF usage, cmdLine, IInv, ArgumentsListed, ReadSoFar, Checked, InputFollowsFile,
                LookedUp, optionsFirst
  <1>3. CASE nextArgument /\ isstdin' = isstdin /\ (file' = file \/ ~isstdin)
    <2>1. /\ i' = i + 1 /\ argv' = argv /\ isstdin' = isstdin
          /\ UNCHANGED <<environment, envnames, envmap, at, input>>
      BY <1>3 DEF nextArgument
    <2>2. /\ ArgumentsListed' /\ i \in DOMAIN argv
          /\ \A k \in DOMAIN argv : k < i' <=> k < i \/ k = i
      BY <1>1, <2>1, ReadOneMore DEF IInv
    <2>3. argv[i] # Option("-s")
      BY <1>1 DEF Option
    <2>4. isstdin <=> \E k \in DOMAIN argv : k < i' /\ argv[k] = Option("-s")
      BY <2>2, <2>3 DEF IInv, ReadSoFar
    <2>5. optionsFirst /\ isstdin => file' = Null
      BY <1>3 DEF IInv, ReadSoFar
    <2>6. ReadSoFar'
      BY <1>1, <2>1, <2>2, <2>4, <2>5 DEF IInv, ReadSoFar, optionsFirst
    <2> QED
      BY <1>1, <2>1, <2>2, <2>6 DEF IInv, Checked, InputFollowsFile, LookedUp
  <1> QED
    BY <1>2, <1>3 DEF processWord

(* The rest of the program does not touch what was read. *)
LEMMA SameArguments ==
    ASSUME IInv, UNCHANGED cmdLine
    PROVE  ArgumentsListed' /\ ReadSoFar'
  BY DEF IInv, cmdLine, ArgumentsListed, ReadSoFar, optionsFirst

LEMMA ExitIInv ==
    ASSUME IInv, NEW code, exit(code) \/ usage
    PROVE  IInv'
  <1>1. at' = "end" /\ UNCHANGED <<cmdLine, input, envmap>>
    BY DEF exit, usage
  <1> QED
    BY <1>1, SameArguments DEF IInv, cmdLine, Checked, InputFollowsFile, LookedUp

LEMMA MainIInv ==
    ASSUME IInv, checkArguments \/ parse \/ lookUp \/ compile \/ loadText \/ run
    PROVE  IInv'
  <1>1. CASE usage \/ \E code : exit(code)
    BY <1>1, ExitIInv
  <1>2. CASE checkArguments /\ ~usage
    <2>1. /\ i > Len(argv) /\ (isstdin \/ file # Null)
          /\ at = "arguments" /\ at' = "parse" /\ UNCHANGED <<cmdLine, input, envmap>>
      BY <1>2 DEF checkArguments
    <2> QED
      BY <2>1, SameArguments DEF IInv, cmdLine, Checked, InputFollowsFile, LookedUp
  <1>3. CASE parse /\ ~ \E code : exit(code)
    <2>1. at = "parse" /\ at' = "environment" /\ UNCHANGED <<cmdLine, input, envmap>>
      BY <1>3 DEF parse, goOn
    <2> QED
      BY <2>1, SameArguments DEF IInv, cmdLine, Checked, InputFollowsFile, LookedUp
  <1>4. CASE lookUp /\ ~ \E code : exit(code)
    <2>1. /\ at = "environment" /\ at' = at
          /\ UNCHANGED <<cmdLine, input, envnames, environment>>
      BY <1>4 DEF lookUp
    <2>2. PICK name \in envnames :
             /\ environment[name] # Unset /\ ~refused(environment[name])
             /\ DOMAIN envmap' = DOMAIN envmap \cup {name}
      BY <1>4 DEF lookUp
    <2>3. LookedUp'
      BY <2>1, <2>2 DEF IInv, LookedUp
    <2> QED
      BY <2>1, <2>3, SameArguments DEF IInv, cmdLine, Checked, InputFollowsFile
  <1>5. CASE compile /\ ~ \E code : exit(code)
    <2>1. /\ at = "environment" /\ at' = "load" /\ DOMAIN envmap = envnames
          /\ UNCHANGED <<cmdLine, input, envnames, envmap, environment>>
      BY <1>5 DEF compile, goOn
    <2> QED
      BY <2>1, SameArguments DEF IInv, cmdLine, Checked, InputFollowsFile, LookedUp
  <1>6. CASE loadText /\ ~ \E code : exit(code)
    <2>1. /\ at = "load" /\ at' = "run"
          /\ UNCHANGED <<cmdLine, envnames, envmap, environment>>
          /\ IF file = Null THEN input' = "stdin" ELSE input' \in {"file", "undefined", "literal"}
      BY <1>6 DEF loadText, goOn
    <2>2. InputFollowsFile'
      BY <2>1 DEF InputFollowsFile, cmdLine
    <2> QED
      BY <2>1, <2>2, SameArguments DEF IInv, cmdLine, Checked, LookedUp
  <1>7. CASE run
    BY <1>1, <1>7 DEF run
  <1> QED
    BY <1>1, <1>2, <1>3, <1>4, <1>5, <1>6, <1>7

LEMMA Invariance == Spec => []IInv
  <1>1. IInv /\ [Next]_vars => IInv'
    <2> SUFFICES ASSUME IInv, [Next]_vars
                 PROVE  IInv'
      OBVIOUS
    <2>1. CASE UNCHANGED vars
      BY <2>1, SameArguments DEF vars, IInv, cmdLine, Checked, InputFollowsFile, LookedUp
    <2> QED
      BY <2>1, OptionIInv, WordIInv, MainIInv DEF Next
  <1> QED
    BY <1>1, InitIInv, PTL DEF Spec

-----------------------------------------------------------------------------
(* Of a command line with the options before the words, main reads the     *)
(* input stream if -s is given and only then: processCmdLine refuses a     *)
(* second word after -s, and no second word without it.                    *)
THEOREM StdinOnlyWhenAsked == Spec => []StdinWhenAskedFirst
  <1>1. ASSUME IInv, optionsFirst, input # "none"
        PROVE  input = "stdin" <=> given("-s")
    <2>1. isstdin <=> given("-s")
      <3>1. \A k \in DOMAIN argv : k < i
        BY <1>1 DEF IInv, ArgumentsListed, Checked
      <3> QED
        BY <1>1, <3>1 DEF IInv, ReadSoFar, given
    <2>2. isstdin <=> file = Null
      BY <1>1 DEF IInv, ReadSoFar, Checked
    <2> QED
      BY <1>1, <2>1, <2>2 DEF IInv, InputFollowsFile
  <1>2. IInv => StdinWhenAskedFirst
    BY <1>1 DEF StdinWhenAskedFirst
  <1> QED
    BY <1>2, Invariance, PTL

(* The compiler is reached with a literal for every variable of the        *)
(* environment that the expression asks for, and with no refused value.    *)
THEOREM EnvironmentIsComplete == Spec => []CompiledWithItsEnvironment
  <1>1. IInv => CompiledWithItsEnvironment
    BY DEF IInv, LookedUp, CompiledWithItsEnvironment
  <1> QED
    BY <1>1, Invariance, PTL

=============================================================================
