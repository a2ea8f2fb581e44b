---------------------------- MODULE NFAClosure ----------------------------
(***************************************************************************)
(* A step of the automaton in one go: what intitializeMachine and          *)
(* stepMachine return, as the least set closed under epsilon steps.        *)
(* NFAMachine shows that the work list of the C++ computes it.             *)
(***************************************************************************)
EXTENDS NFA, Sequences

(* What an epsilon step adds to the epsilon tokens Y. *)
grow(mm, Y) == Y \cup UNION {epsilonOnly(mm, epsilonProcessed(mm, t)) : t \in Y}

(* The epsilon tokens reachable from X: add successors until none is new. *)
epsilonReach(mm, X) ==
    LET reach[Y \in SUBSET Tokens(mm)] ==
          IF grow(mm, Y) = Y THEN Y ELSE reach[grow(mm, Y)]
    IN  reach[X]

(* The NFAState that follows from the tokens T of a call. *)
epsilonClosure(mm, T) ==
    LET R == epsilonReach(mm, epsilonOnly(mm, T))
    IN  concreteOnly(mm, T)
          \cup (UNION {concreteOnly(mm, epsilonProcessed(mm, t)) : t \in R})
          \cup (UNION {epsilonDirect(mm, t) : t \in R})

initialState(mm) == epsilonClosure(mm, {Simple(mm.startstate)})
nextState(mm, c, T) == epsilonClosure(mm, advanceChar(mm, c, T))

(* The words, read from the first letter on, that lead to Accept. *)
run(mm, w) ==
    LET after[i \in 0..Len(w)] ==
          IF i = 0 THEN initialState(mm) ELSE nextState(mm, w[i], after[i - 1])
    IN  after[Len(w)]
accepts(mm, w) == inAccepted(mm, run(mm, w))

=============================================================================
