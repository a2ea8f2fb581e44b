----------------------------- MODULE NFASteps -----------------------------
(***************************************************************************)
(* What NFAMachine promises its caller: a call returns, in one go, the     *)
(* least set of tokens closed under epsilon steps.  NFAMachine is checked  *)
(* to implement this specification, and NFAExecutor is built on it.        *)
(***************************************************************************)
EXTENDS NFAClosure

CONSTANT Machines

VARIABLES m, cstates, call

svars == <<m, cstates, call>>

Init ==
    /\ m \in Machines
    /\ cstates = {}
    /\ call = NoCall

CallInit ==
    /\ call = NoCall
    /\ call' = InitCall
    /\ cstates' = {}
    /\ UNCHANGED m

CallStep(c) ==
    /\ call = NoCall
    /\ call' = StepCall(c)
    /\ UNCHANGED <<m, cstates>>

Return ==
    /\ call # NoCall
    /\ cstates' = IF call = InitCall THEN initialState(m)
                  ELSE nextState(m, call.c, cstates)
    /\ call' = NoCall
    /\ UNCHANGED m

Next == CallInit \/ (\E c \in Chars : CallStep(c)) \/ Return

SafeSpec == Init /\ [][Next]_svars

(* A call returns. *)
Spec == SafeSpec /\ WF_svars(Return)

=============================================================================
