----------------------------- MODULE BuildOrder -----------------------------
(***************************************************************************)
(* What a builder of expressions that refer to each other promises, in any *)
(* order it likes: first the references are settled, then every expression *)
(* is built at most once, after all those it refers to, and the work is    *)
(* done only when nothing is left.  It may give up at any time.            *)
(***************************************************************************)

CONSTANT Entry       \* what can be built

VARIABLES
    deps,            \* the references of the entries known so far
    built,           \* the entries built
    outcome          \* "running", "done" or "failed"

vars == <<deps, built, outcome>>

Unknown == [e \in {} |-> {}]

Init == deps = Unknown /\ built = {} /\ outcome = "running"

Link ==
    /\ outcome = "running" /\ deps = Unknown
    /\ DOMAIN deps' \subseteq Entry
    /\ deps' \in [DOMAIN deps' -> SUBSET DOMAIN deps']
    /\ UNCHANGED <<built, outcome>>

Build(e) ==
    /\ outcome = "running"
    /\ e \notin built /\ deps[e] \subseteq built
    /\ built' = built \cup {e}
    /\ UNCHANGED <<deps, outcome>>

Finish ==
    /\ outcome = "running" /\ built = DOMAIN deps
    /\ outcome' = "done" /\ UNCHANGED <<deps, built>>

GiveUp ==
    /\ outcome = "running"
    /\ outcome' = "failed" /\ UNCHANGED <<deps, built>>

Next == Link \/ (\E e \in DOMAIN deps : Build(e)) \/ Finish \/ GiveUp

SafeSpec == Init /\ [][Next]_vars

(* It ends, whatever the references. *)
Spec == SafeSpec /\ <>(outcome # "running")

=============================================================================
