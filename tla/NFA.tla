------------------------------- MODULE NFA -------------------------------
(***************************************************************************)
(* The data of the automaton that a compiled BREX expression is run on     *)
(* (src/src/regex/nfa_machine.h): its states ("opts"), the tokens that sit *)
(* in them, and what a single token does on a character or an epsilon      *)
(* step.  There is no state machine here: NFAMachine runs these operators  *)
(* step by step, NFASteps in one go.                                       *)
(*                                                                         *)
(* A machine is a record                                                   *)
(*   nfaopts      a function from StateIDs to opts                         *)
(*   startstate, acceptstate                                               *)
(*   enclosing    a ghost the C++ does not store: enclosing[s] is {k} when *)
(*                the compiler emitted s inside the repeat k, {} otherwise *)
(***************************************************************************)
EXTENDS Naturals, FiniteSets

CONSTANTS
    Chars,        \* the characters of the model, a small set
    UINT16_MAX,   \* largest count a token can hold (65535 in the build)
    INT16_MAX     \* the value the machine compares maxk with (32767)

(* Only the order of the two widths matters to the machine. *)
ASSUME WidthAssumption ==
    /\ UINT16_MAX \in Nat
    /\ INT16_MAX \in Nat
    /\ 0 < INT16_MAX
    /\ INT16_MAX < UINT16_MAX

-----------------------------------------------------------------------------
(* Opts: the alternatives of NFAOptTag. *)

NFAOptAccept == [tag |-> "Accept"]
NFAOptCharCode(c, follow) == [tag |-> "CharCode", c |-> c, follow |-> follow]
NFAOptRange(compliment, ranges, follow) ==
    [tag |-> "CharRange", compliment |-> compliment, ranges |-> ranges, follow |-> follow]
NFAOptDot(follow) == [tag |-> "Dot", follow |-> follow]
NFAOptAnyOf(follows) == [tag |-> "AnyOf", follows |-> follows]
NFAOptStar(matchfollow, skipfollow) ==
    [tag |-> "Star", matchfollow |-> matchfollow, skipfollow |-> skipfollow]
NFAOptRangeK(mink, maxk, infollow, outfollow) ==
    [tag |-> "RangeK", mink |-> mink, maxk |-> maxk,
     infollow |-> infollow, outfollow |-> outfollow]

CharTags == {"CharCode", "CharRange", "Dot"}
EpsilonTags == {"AnyOf", "Star", "RangeK"}

States(m) == DOMAIN m.nfaopts

(* NFAOpt::concreteTransition: the tag is at most Dot, so Accept counts. *)
concreteTransition(opt) == opt.tag \in CharTags \cup {"Accept"}

-----------------------------------------------------------------------------
(* Tokens: a state, and the repeat counters carried along (none, one, two). *)

Simple(s) == [kind |-> "simple", cstate |-> s]
Single(s, k, n) == [kind |-> "single", cstate |-> s, range |-> k, count |-> n]
Full(s, k, n, k2) ==
    [kind |-> "full", cstate |-> s, range |-> k, count |-> n, inner |-> k2]

SimpleTokens(m) == [kind : {"simple"}, cstate : States(m)]
SingleTokens(m) ==
    [kind : {"single"}, cstate : States(m), range : States(m), count : 1..UINT16_MAX]
FullTokens(m) ==
    [kind : {"full"}, cstate : States(m), range : States(m),
     count : 1..UINT16_MAX, inner : States(m)]
Tokens(m) == SimpleTokens(m) \cup SingleTokens(m) \cup FullTokens(m)

OfKind(kind, T) == {t \in T : t.kind = kind}

(* Mutant: the 16-bit counter wraps. *)
wrapNFATokenIncrement(n) == (n + 1) % (UINT16_MAX + 1)

saturateNFATokenIncrement(n) == IF n = UINT16_MAX THEN n ELSE n + 1

(* toNextState of the three token classes: the counters are kept. *)
toNextState(t, s) == [t EXCEPT !.cstate = s]

(* inAccepted searches the simple tokens only. *)
inAccepted(m, T) == Simple(m.acceptstate) \in T
allRejected(T) == T = {}

-----------------------------------------------------------------------------
(* What one token does. *)

(* The character test of the three concrete opts.  A range inserts when    *)
(* "!compliment == inrng".                                                 *)
takes(opt, c) ==
    \/ opt.tag = "CharCode" /\ opt.c = c
    \/ opt.tag = "CharRange" /\ (~opt.compliment) = (c \in opt.ranges)
    \/ opt.tag = "Dot"

(* The token that t turns into on c, as a set; every other token, one that *)
(* sits in an epsilon state or in Accept included, is dropped.             *)
advanceToken(m, c, t) ==
    LET opt == m.nfaopts[t.cstate]
    IN  IF opt.tag \in CharTags /\ takes(opt, c)
          THEN {toNextState(t, opt.follow)} ELSE {}

advanceChar(m, c, T) == UNION {advanceToken(m, c, t) : t \in T}

(* AnyOf and Star move a token of any kind along, counters kept. *)
branch(m, t) ==
    LET opt == m.nfaopts[t.cstate]
    IN  {toNextState(t, f) :
            f \in IF opt.tag = "AnyOf" THEN opt.follows
                  ELSE {opt.matchfollow, opt.skipfollow}}

(* A simple token enters a repeat: the first iteration's token is put into *)
(* the next state as it is, whatever opt infollow holds.                   *)
enterRange(m, t) ==
    LET k == t.cstate IN {Single(m.nfaopts[k].infollow, k, 1)}

(* A simple token may skip a repeat whose minimum is zero. *)
skipRange(m, t) ==
    LET opt == m.nfaopts[t.cstate]
    IN  IF opt.mink = 0 THEN {toNextState(t, opt.outfollow)} ELSE {}

(* Mutant: the counter is still on the token that leaves the repeat. *)
repeatKeepsCounter(m, t) ==
    LET opt  == m.nfaopts[t.cstate]
        more == Single(opt.infollow, t.range, saturateNFATokenIncrement(t.count))
        done == toNextState(t, opt.outfollow)
    IN  IF t.count < opt.mink THEN {more}
        ELSE IF opt.maxk # INT16_MAX /\ t.count = opt.maxk THEN {done}
        ELSE {more, done}

(* Mutant: one round too many. *)
repeatOnceMore(m, t) ==
    LET opt  == m.nfaopts[t.cstate]
        more == Single(opt.infollow, t.range, saturateNFATokenIncrement(t.count))
        done == Simple(opt.outfollow)
    IN  IF t.count < opt.mink THEN {more}
        ELSE IF opt.maxk # INT16_MAX /\ t.count > opt.maxk THEN {done}
        ELSE {more, done}

(* A single token comes back to the repeat k it counts: one more round,    *)
(* out of the repeat, or both.  maxk = INT16_MAX stands for no maximum.    *)
repeatRange(m, t) ==
    LET opt  == m.nfaopts[t.cstate]
        more == Single(opt.infollow, t.range, saturateNFATokenIncrement(t.count))
        done == Simple(opt.outfollow)
    IN  IF t.count < opt.mink THEN {more}
        ELSE IF opt.maxk # INT16_MAX /\ t.count = opt.maxk THEN {done}
        ELSE {more, done}

(* A single token meets another repeat: a full token, or past it. *)
nestRange(m, t) ==
    LET opt == m.nfaopts[t.cstate]
    IN  {Full(opt.infollow, t.range, t.count, t.cstate)} \cup skipRange(m, t)

(* Tokens inserted into nstates without any test ... *)
epsilonDirect(m, t) ==
    IF m.nfaopts[t.cstate].tag = "RangeK" /\ t.kind = "simple"
      THEN enterRange(m, t) ELSE {}

(* Mutant: a counted token is not told from one of another repeat. *)
nestAlways(m, t) ==
    LET opt == m.nfaopts[t.cstate]
    IN  IF opt.tag \in {"AnyOf", "Star"} THEN branch(m, t)
        ELSE IF opt.tag # "RangeK" THEN {}
        ELSE IF t.kind = "simple" THEN skipRange(m, t)
        ELSE nestRange(m, t)

(* ... and tokens handed to process{Simple,Single,Full}EpsilonTransition.  *)
epsilonProcessed(m, t) ==
    LET opt == m.nfaopts[t.cstate]
    IN  IF opt.tag \in {"AnyOf", "Star"} THEN branch(m, t)
        ELSE IF opt.tag # "RangeK" THEN {}
        ELSE IF t.kind = "simple" THEN skipRange(m, t)
        ELSE IF t.range = t.cstate THEN repeatRange(m, t)
        ELSE nestRange(m, t)

(* The calls an executor makes on its machine. *)
NoCall == [op |-> "none"]
InitCall == [op |-> "init"]
StepCall(c) == [op |-> "step", c |-> c]

concreteOnly(m, T) == {t \in T : concreteTransition(m.nfaopts[t.cstate])}
epsilonOnly(m, T) == T \ concreteOnly(m, T)

-----------------------------------------------------------------------------
(* Machines the compiler emits: every follow is a state, and the states    *)
(* emitted for the body of a repeat are entered through the repeat's own   *)
(* state and left through it.  Repeats do not nest (RegexResolver refuses  *)
(* them) and their bounds are in order (the parser refuses others).        *)

staysIn(m, s, f) == m.enclosing[f] = m.enclosing[s] \/ f \in m.enclosing[s]

CharOptOK(m, s) ==
    LET opt == m.nfaopts[s]
    IN  opt.tag \in CharTags =>
            opt.follow \in States(m) /\ staysIn(m, s, opt.follow)
AnyOfOptOK(m, s) ==
    LET opt == m.nfaopts[s]
    IN  opt.tag = "AnyOf" =>
            \A f \in opt.follows : f \in States(m) /\ staysIn(m, s, f)
StarOptOK(m, s) ==
    LET opt == m.nfaopts[s]
    IN  opt.tag = "Star" =>
            /\ opt.matchfollow \in States(m) /\ staysIn(m, s, opt.matchfollow)
            /\ opt.skipfollow \in States(m) /\ staysIn(m, s, opt.skipfollow)
RangeKOptOK(m, s) ==
    LET opt == m.nfaopts[s]
    IN  opt.tag = "RangeK" =>
            /\ m.enclosing[s] = {}
            /\ opt.infollow \in States(m)
            /\ m.enclosing[opt.infollow] = {s} \/ opt.infollow = s
            /\ opt.outfollow \in States(m)
            /\ m.enclosing[opt.outfollow] = {}
            /\ opt.mink \in 0..UINT16_MAX
            /\ opt.maxk \in 1..UINT16_MAX
            /\ opt.mink <= opt.maxk

EnclosingOK(m, s) ==
    \/ m.enclosing[s] = {}
    \/ \E k \in States(m) :
          m.enclosing[s] = {k} /\ m.nfaopts[k].tag = "RangeK"

WellFormed(m) ==
    /\ IsFiniteSet(States(m))
    /\ m.startstate \in States(m)
    /\ m.enclosing[m.startstate] = {}
    /\ m.acceptstate \in States(m)
    /\ m.nfaopts[m.acceptstate].tag = "Accept"
    /\ m.enclosing[m.acceptstate] = {}
    /\ \A s \in States(m) :
          /\ m.nfaopts[s].tag \in {"Accept"} \cup CharTags \cup EpsilonTags
          /\ EnclosingOK(m, s)
          /\ CharOptOK(m, s)
          /\ AnyOfOptOK(m, s)
          /\ StarOptOK(m, s)
          /\ RangeKOptOK(m, s)

=============================================================================
