---------------------------- MODULE NFAMachine ----------------------------
(***************************************************************************)
(* NFAMachine (src/src/regex/nfa_machine.{h,cpp}): one call of             *)
(* intitializeMachine or stepMachine, with the epsilon worklist run token  *)
(* by token.  The caller is NFAExecutor, which keeps the NFAState between  *)
(* calls (cstates) and owns the machine.                                   *)
(*                                                                         *)
(* advanceEpsilon drains the simple tokens, then the single ones, then the *)
(* full ones, and starts over while the work set holds a token: pc is the  *)
(* pass under way.  Inside a pass the C++ takes the least token of an      *)
(* ordered set; the model takes any, so what is shown holds for every      *)
(* order.                                                                  *)
(***************************************************************************)
EXTENDS NFA

CONSTANT Machines     \* the machines an executor may own

ASSUME MachinesAssumption == \A mm \in Machines : WellFormed(mm)

VARIABLES
    m,          \* the machine
    cstates,    \* NFAState kept by the executor: the result of the last call
    call,       \* the call under way: NoCall, InitCall or StepCall(c)
    pc,         \* "idle", the pass under way, or "aborted"
    workset,    \* NFAEpsilonWorkSet
    fixpoint,   \* NFAEpsilonFixpointSet
    nstates     \* NFAState under construction

vars == <<m, cstates, call, pc, workset, fixpoint, nstates>>

Calls == {NoCall, InitCall} \cup {StepCall(c) : c \in Chars}
Passes == {"simple", "single", "full"}

TypeOK ==
    /\ m \in Machines
    /\ cstates \subseteq Tokens(m)
    /\ call \in Calls
    /\ pc \in {"idle", "aborted"} \cup Passes
    /\ workset \subseteq Tokens(m)
    /\ fixpoint \subseteq Tokens(m)
    /\ nstates \subseteq Tokens(m)

Init ==
    /\ m \in Machines
    /\ cstates = {}
    /\ call = NoCall
    /\ pc = "idle"
    /\ workset = {} /\ fixpoint = {} /\ nstates = {}

(* addNext*State over the tokens a call starts from, and the fixpoint set  *)
(* constructed as a copy of the work set.                                  *)
Begin(T) ==
    /\ nstates' = concreteOnly(m, T)
    /\ workset' = epsilonOnly(m, T)
    /\ fixpoint' = epsilonOnly(m, T)
    /\ pc' = "simple"

(* intitializeMachine: the executor's own state is cleared and filled. *)
intitializeMachine ==
    /\ pc = "idle"
    /\ call' = InitCall
    /\ cstates' = {}
    /\ Begin({Simple(m.startstate)})
    /\ UNCHANGED m

(* stepMachine: the old state is read by advanceChar and not written. *)
stepMachine(c) ==
    /\ pc = "idle"
    /\ call' = StepCall(c)
    /\ Begin(advanceChar(m, c, cstates))
    /\ UNCHANGED <<m, cstates>>

(* Mutant: a new token is recorded but not queued. *)
recordOnly(t, T) ==
    LET new == epsilonOnly(m, T) \ fixpoint
    IN  /\ nstates' = nstates \cup concreteOnly(m, T) \cup epsilonDirect(m, t)
        /\ fixpoint' = fixpoint \cup new
        /\ workset' = workset \ {t}

(* Mutant: a known token is queued again. *)
queueAlways(t, T) ==
    /\ nstates' = nstates \cup concreteOnly(m, T) \cup epsilonDirect(m, t)
    /\ fixpoint' = fixpoint \cup epsilonOnly(m, T)
    /\ workset' = (workset \ {t}) \cup epsilonOnly(m, T)

(* process*EpsilonTransition for every token of T, t taken off the work    *)
(* set: a concrete token goes to the next state, a new epsilon token is    *)
(* recorded and queued, a known one is left alone.                         *)
processEpsilonTransition(t, T) ==
    LET new == epsilonOnly(m, T) \ fixpoint
    IN  /\ nstates' = nstates \cup concreteOnly(m, T) \cup epsilonDirect(m, t)
        /\ fixpoint' = fixpoint \cup new
        /\ workset' = (workset \ {t}) \cup new

(* One round of the while loop of advanceEpsilonFor{Simple,Single}States. *)
advanceEpsilon(pass) ==
    /\ pc = pass
    /\ \E t \in OfKind(pass, workset) :
          processEpsilonTransition(t, epsilonProcessed(m, t))
    /\ UNCHANGED <<m, cstates, call, pc>>

(* The loop of a pass ends: on to the next pass. *)
passDone(pass, next) ==
    /\ pc = pass
    /\ OfKind(pass, workset) = {}
    /\ pc' = next
    /\ UNCHANGED <<m, cstates, call, workset, fixpoint, nstates>>

(* Mutant: the passes are made once. *)
fullPassOnce ==
    /\ pc = "full"
    /\ pc' = IF OfKind("full", workset) # {} THEN "aborted" ELSE "idle"
    /\ cstates' = nstates /\ call' = NoCall
    /\ UNCHANGED <<m, workset, fixpoint, nstates>>

(* advanceEpsilonForFullStates asserts at the first full token; a build    *)
(* without asserts loops there for ever.  Either way the call is lost, and *)
(* pc is "aborted".  Without a full token the outer loops go round again,  *)
(* or the call returns its state.                                          *)
fullPass ==
    /\ pc = "full"
    /\ pc' = IF OfKind("full", workset) # {} THEN "aborted"
             ELSE IF workset = {} THEN "idle" ELSE "simple"
    /\ IF workset = {}
         THEN cstates' = nstates /\ call' = NoCall
         ELSE UNCHANGED <<cstates, call>>
    /\ UNCHANGED <<m, workset, fixpoint, nstates>>

Step ==
    \/ advanceEpsilon("simple")
    \/ passDone("simple", "single")
    \/ advanceEpsilon("single")
    \/ passDone("single", "full")
    \/ fullPass

Next ==
    \/ intitializeMachine
    \/ \E c \in Chars : stepMachine(c)
    \/ Step

Spec == Init /\ [][Next]_vars

(* A call that has begun keeps running; nothing obliges the executor to    *)
(* make another one.                                                       *)
FairSpec == Spec /\ WF_vars(Step)

-----------------------------------------------------------------------------
(* Properties *)

(* The tokens of the call that has not returned yet, and of the last one.  *)
alive == cstates \cup nstates \cup workset

(* nfa_machine.cpp:10-13 looks for the accept state among the simple       *)
(* tokens only.  Nothing is missed: no token reaches Accept with a counter *)
(* still on it.                                                            *)
AcceptIsSimple ==
    \A t \in alive : t.cstate = m.acceptstate => t.kind = "simple"

(* The unimplemented pass over full tokens (nfa_machine.cpp:234-239) is    *)
(* never given one by a machine the compiler emits.                        *)
NeverAborts == pc # "aborted"

(* The counter of a token never passes the maximum of its repeat, so that  *)
(* the equality test that ends a repeat (nfa_machine.cpp:216) cannot be    *)
(* stepped over.                                                           *)
CountInBounds ==
    \A t \in alive :
        t.kind = "single" =>
            LET k == m.nfaopts[t.range]
            IN  k.tag = "RangeK" =>
                    t.count <= (IF k.maxk = INT16_MAX THEN UINT16_MAX ELSE k.maxk)

(* The tokens a call starts from. *)
seeds ==
    IF call.op = "init" THEN {Simple(m.startstate)}
    ELSE IF call.op = "step" THEN advanceChar(m, call.c, cstates)
    ELSE {}

(* What the epsilon step of t has to leave behind. *)
settled(t) ==
    /\ epsilonDirect(m, t) \subseteq nstates
    /\ concreteOnly(m, epsilonProcessed(m, t)) \subseteq nstates
    /\ epsilonOnly(m, epsilonProcessed(m, t)) \subseteq fixpoint

(* The loop invariant of the work list: a token in the fixpoint set has    *)
(* been processed or is still queued, and nothing is queued that is not in *)
(* the fixpoint set.                                                       *)
WorklistSound ==
    pc \in Passes =>
        /\ workset \subseteq fixpoint
        /\ concreteOnly(m, seeds) \subseteq nstates
        /\ epsilonOnly(m, seeds) \subseteq fixpoint
        /\ \A t \in fixpoint \ workset : settled(t)

(* When a call returns, its result holds the tokens it started from and is *)
(* closed under epsilon steps: no path of the automaton has been lost to   *)
(* the order of the passes or to the fixpoint test.                        *)
ReturnsClosed ==
    [][call # NoCall /\ call' = NoCall =>
         /\ concreteOnly(m, seeds) \subseteq cstates'
         /\ epsilonOnly(m, seeds) \subseteq fixpoint
         /\ \A t \in fixpoint :
               /\ epsilonDirect(m, t) \subseteq cstates'
               /\ concreteOnly(m, epsilonProcessed(m, t)) \subseteq cstates'
               /\ epsilonOnly(m, epsilonProcessed(m, t)) \subseteq fixpoint]_vars

(* The caller sees one atomic answer per call, the least closed set, and   *)
(* every call returns.                                                     *)
Steps == INSTANCE NFASteps
ImplementsSteps == Steps!Spec

=============================================================================
