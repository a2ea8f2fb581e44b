------------------------- MODULE NFAMachineProofs -------------------------
(***************************************************************************)
(* Proofs about NFAMachine, for every set of well-formed machines, every   *)
(* alphabet and every pair of widths.                                      *)
(*                                                                         *)
(* The invariant has two parts.  The first says of every token alone that  *)
(* it is where the compiler allows it to be (GoodTokens); it is preserved  *)
(* because each token operation preserves it, which the lemmas say.  The   *)
(* second is the loop invariant of the work list, which loses nothing.  It *)
(* is then shown to add nothing, so that a call implements a step of       *)
(* NFASteps; NFAClosureProofs shows what epsilonReach is.                  *)
(***************************************************************************)
EXTENDS NFAMachine, NFAClosureProofs

(* The largest count a token of the repeat k may hold. *)
maxCount(mm, k) ==
    IF mm.nfaopts[k].maxk = INT16_MAX THEN UINT16_MAX ELSE mm.nfaopts[k].maxk

GoodSimple(mm) == {t \in SimpleTokens(mm) : mm.enclosing[t.cstate] = {}}

GoodSingle(mm) ==
    {t \in SingleTokens(mm) :
        /\ mm.nfaopts[t.range].tag = "RangeK"
        /\ mm.enclosing[t.cstate] = {t.range} \/ t.cstate = t.range
        /\ t.count <= maxCount(mm, t.range)}

GoodTokens(mm) == GoodSimple(mm) \cup GoodSingle(mm)

-----------------------------------------------------------------------------
(* The constructors, and how a token moves along an edge. *)

LEMMA MoveSimple ==
    ASSUME NEW mm, NEW t \in GoodSimple(mm), NEW f \in States(mm),
           staysIn(mm, t.cstate, f)
    PROVE  toNextState(t, f) \in GoodSimple(mm)
  <1>1. mm.enclosing[t.cstate] = {}
    BY DEF GoodSimple
  <1>2. mm.enclosing[f] = {}
    BY <1>1 DEF staysIn
  <1>3. toNextState(t, f) \in SimpleTokens(mm) /\ toNextState(t, f).cstate = f
    BY DEF GoodSimple, SimpleTokens, toNextState
  <1> QED
    BY <1>2, <1>3 DEF GoodSimple

LEMMA MoveSingle ==
    ASSUME NEW mm, NEW t \in GoodSingle(mm), NEW f \in States(mm),
           mm.enclosing[t.cstate] = {t.range},
           staysIn(mm, t.cstate, f)
    PROVE  toNextState(t, f) \in GoodSingle(mm)
  <1>1. /\ toNextState(t, f) \in SingleTokens(mm)
        /\ toNextState(t, f).cstate = f
        /\ toNextState(t, f).range = t.range
        /\ toNextState(t, f).count = t.count
    BY DEF GoodSingle, SingleTokens, toNextState
  <1>2. mm.enclosing[f] = {t.range} \/ f = t.range
    BY DEF staysIn
  <1> QED
    BY <1>1, <1>2 DEF GoodSingle

(* A single token that is not at a repeat is inside the body of its own. *)
LEMMA SingleIsInside ==
    ASSUME NEW mm, NEW t \in GoodSingle(mm),
           mm.nfaopts[t.cstate].tag # "RangeK"
    PROVE  mm.enclosing[t.cstate] = {t.range}
  BY DEF GoodSingle

(* A single token at a repeat is at its own. *)
LEMMA SingleAtOwnRange ==
    ASSUME NEW mm, WellFormed(mm), NEW t \in GoodSingle(mm),
           mm.nfaopts[t.cstate].tag = "RangeK"
    PROVE  t.range = t.cstate
  <1>1. t.cstate \in States(mm)
    BY DEF GoodSingle, SingleTokens
  <1>2. mm.enclosing[t.cstate] = {}
    BY <1>1 DEF WellFormed, RangeKOptOK
  <1> QED
    BY <1>2 DEF GoodSingle

(* A move along an edge of the automaton that is not an edge of a repeat. *)
LEMMA MoveGood ==
    ASSUME NEW mm, NEW t \in GoodTokens(mm), NEW f \in States(mm),
           mm.nfaopts[t.cstate].tag # "RangeK",
           staysIn(mm, t.cstate, f)
    PROVE  toNextState(t, f) \in GoodTokens(mm)
  <1>1. CASE t \in GoodSimple(mm)
    BY <1>1, MoveSimple DEF GoodTokens
  <1>2. CASE t \in GoodSingle(mm)
    BY <1>2, SingleIsInside, MoveSingle DEF GoodTokens
  <1> QED
    BY <1>1, <1>2 DEF GoodTokens

LEMMA GoodIsPlaced ==
    ASSUME NEW mm, NEW t \in GoodTokens(mm)
    PROVE  t.cstate \in States(mm)
  BY DEF GoodTokens, GoodSimple, GoodSingle, SimpleTokens, SingleTokens

-----------------------------------------------------------------------------
(* Each token operation keeps tokens good. *)

LEMMA AdvanceGood ==
    ASSUME NEW mm, WellFormed(mm), NEW T \in SUBSET GoodTokens(mm), NEW c
    PROVE  advanceChar(mm, c, T) \subseteq GoodTokens(mm)
  <1> SUFFICES ASSUME NEW t \in T, NEW u \in advanceToken(mm, c, t)
               PROVE  u \in GoodTokens(mm)
    BY DEF advanceChar
  <1> DEFINE opt == mm.nfaopts[t.cstate]
  <1>1. t \in GoodTokens(mm) /\ t.cstate \in States(mm)
    BY GoodIsPlaced
  <1>2. opt.tag \in CharTags /\ u = toNextState(t, opt.follow)
    BY DEF advanceToken
  <1>3. opt.follow \in States(mm) /\ staysIn(mm, t.cstate, opt.follow)
    BY <1>1, <1>2 DEF WellFormed, CharOptOK
  <1>4. opt.tag # "RangeK"
    BY <1>2 DEF CharTags
  <1> QED
    BY <1>1, <1>2, <1>3, <1>4, MoveGood

LEMMA BranchGood ==
    ASSUME NEW mm, WellFormed(mm), NEW t \in GoodTokens(mm),
           mm.nfaopts[t.cstate].tag \in {"AnyOf", "Star"}
    PROVE  branch(mm, t) \subseteq GoodTokens(mm)
  <1> DEFINE opt == mm.nfaopts[t.cstate]
  <1> SUFFICES ASSUME NEW u \in branch(mm, t)
               PROVE  u \in GoodTokens(mm)
    OBVIOUS
  <1>1. t.cstate \in States(mm)
    BY GoodIsPlaced
  <1>2. PICK f \in (IF opt.tag = "AnyOf" THEN opt.follows
                    ELSE {opt.matchfollow, opt.skipfollow}) : u = toNextState(t, f)
    BY DEF branch
  <1>3. f \in States(mm) /\ staysIn(mm, t.cstate, f)
    BY <1>1, <1>2 DEF WellFormed, AnyOfOptOK, StarOptOK
  <1> QED
    BY <1>2, <1>3, MoveGood

(* Out of a repeat, by any edge that leaves it. *)
LEMMA LeaveGood ==
    ASSUME NEW mm, WellFormed(mm), NEW k \in States(mm),
           mm.nfaopts[k].tag = "RangeK"
    PROVE  Simple(mm.nfaopts[k].outfollow) \in GoodTokens(mm)
  BY DEF WellFormed, RangeKOptOK, Simple, GoodTokens, GoodSimple, SimpleTokens

(* Into the body of a repeat, with a count within its bounds. *)
LEMMA EnterGood ==
    ASSUME NEW mm, WellFormed(mm), NEW k \in States(mm),
           mm.nfaopts[k].tag = "RangeK",
           NEW n \in 1..UINT16_MAX, n <= maxCount(mm, k)
    PROVE  Single(mm.nfaopts[k].infollow, k, n) \in GoodTokens(mm)
  <1> DEFINE u == Single(mm.nfaopts[k].infollow, k, n)
  <1>1. /\ mm.nfaopts[k].infollow \in States(mm)
        /\ \/ mm.enclosing[mm.nfaopts[k].infollow] = {k}
           \/ mm.nfaopts[k].infollow = k
    BY DEF WellFormed, RangeKOptOK
  <1>2. u \in SingleTokens(mm)
    BY <1>1 DEF Single, SingleTokens
  <1>3. u.cstate = mm.nfaopts[k].infollow /\ u.range = k /\ u.count = n
    BY DEF Single
  <1> QED
    BY <1>1, <1>2, <1>3 DEF GoodTokens, GoodSingle

LEMMA DirectGood ==
    ASSUME NEW mm, WellFormed(mm), NEW t \in GoodTokens(mm)
    PROVE  epsilonDirect(mm, t) \subseteq GoodTokens(mm)
  <1> SUFFICES ASSUME mm.nfaopts[t.cstate].tag = "RangeK"
               PROVE  enterRange(mm, t) \subseteq GoodTokens(mm)
    BY DEF epsilonDirect
  <1>1. t.cstate \in States(mm)
    BY GoodIsPlaced
  <1>2. 1 \in 1..UINT16_MAX /\ 1 <= maxCount(mm, t.cstate)
    BY <1>1, WidthAssumption DEF WellFormed, RangeKOptOK, maxCount
  <1>3. Single(mm.nfaopts[t.cstate].infollow, t.cstate, 1) \in GoodTokens(mm)
    BY <1>1, <1>2, EnterGood
  <1> QED
    BY <1>3 DEF enterRange

LEMMA RepeatGood ==
    ASSUME NEW mm, WellFormed(mm), NEW t \in GoodSingle(mm),
           mm.nfaopts[t.cstate].tag = "RangeK", t.range = t.cstate
    PROVE  repeatRange(mm, t) \subseteq GoodTokens(mm)
  <1> DEFINE opt  == mm.nfaopts[t.cstate]
             n    == saturateNFATokenIncrement(t.count)
             more == Single(opt.infollow, t.range, n)
             done == Simple(opt.outfollow)
  <1>1. t.cstate \in States(mm) /\ t.count \in 1..UINT16_MAX
    BY DEF GoodSingle, SingleTokens
  <1>2. /\ opt.mink \in 0..UINT16_MAX /\ opt.maxk \in 1..UINT16_MAX
        /\ opt.mink <= opt.maxk
    BY <1>1 DEF WellFormed, RangeKOptOK
  <1>3. done \in GoodTokens(mm)
    BY <1>1, LeaveGood
  <1>4. t.count <= maxCount(mm, t.cstate)
    BY DEF GoodSingle
  <1>5. ASSUME t.count < opt.mink \/ ~(opt.maxk # INT16_MAX /\ t.count = opt.maxk)
        PROVE  more \in GoodTokens(mm)
    <2>1. n \in 1..UINT16_MAX
      BY <1>1, WidthAssumption DEF saturateNFATokenIncrement
    <2>2. n <= maxCount(mm, t.cstate)
      BY <1>1, <1>2, <1>4, <1>5, WidthAssumption
        DEF saturateNFATokenIncrement, maxCount
    <2> QED
      BY <1>1, <2>1, <2>2, EnterGood
  <1> QED
    BY <1>3, <1>5 DEF repeatRange

LEMMA ProcessedGood ==
    ASSUME NEW mm, WellFormed(mm), NEW t \in GoodTokens(mm)
    PROVE  epsilonProcessed(mm, t) \subseteq GoodTokens(mm)
  <1> DEFINE opt == mm.nfaopts[t.cstate]
  <1>1. CASE opt.tag \in {"AnyOf", "Star"}
    BY <1>1, BranchGood DEF epsilonProcessed
  <1>2. CASE opt.tag \notin {"AnyOf", "Star", "RangeK"}
    BY <1>2 DEF epsilonProcessed
  <1>3. CASE opt.tag = "RangeK" /\ t \in GoodSimple(mm)
    <2>1. t.cstate \in States(mm) /\ t.kind = "simple"
      BY <1>3 DEF GoodSimple, SimpleTokens
    <2>2. toNextState(t, opt.outfollow) = Simple(opt.outfollow)
      BY <1>3 DEF GoodSimple, SimpleTokens, toNextState, Simple
    <2>3. toNextState(t, opt.outfollow) \in GoodTokens(mm)
      BY <1>3, <2>1, <2>2, LeaveGood
    <2>4. epsilonProcessed(mm, t) = skipRange(mm, t)
      BY <1>3, <2>1 DEF epsilonProcessed
    <2> QED
      BY <2>3, <2>4 DEF skipRange
  <1>4. CASE opt.tag = "RangeK" /\ t \in GoodSingle(mm)
    <2>1. t.range = t.cstate /\ t.kind = "single"
      BY <1>4, SingleAtOwnRange DEF GoodSingle, SingleTokens
    <2>2. epsilonProcessed(mm, t) = repeatRange(mm, t)
      BY <1>4, <2>1 DEF epsilonProcessed
    <2> QED
      BY <1>4, <2>1, <2>2, RepeatGood
  <1> QED
    BY <1>1, <1>2, <1>3, <1>4 DEF GoodTokens

-----------------------------------------------------------------------------
(* The inductive invariant. *)

IInv ==
    /\ TypeOK
    /\ alive \subseteq GoodTokens(m)
    /\ NeverAborts
    /\ WorklistSound

LEMMA GoodIsTyped ==
    ASSUME NEW mm
    PROVE  GoodTokens(mm) \subseteq Tokens(mm)
  BY DEF GoodTokens, GoodSimple, GoodSingle, Tokens

LEMMA PartsAreGood ==
    ASSUME NEW mm, NEW T \in SUBSET GoodTokens(mm)
    PROVE  /\ concreteOnly(mm, T) \subseteq GoodTokens(mm)
           /\ epsilonOnly(mm, T) \subseteq GoodTokens(mm)
  BY DEF concreteOnly, epsilonOnly

LEMMA StartIsGood ==
    ASSUME NEW mm, WellFormed(mm)
    PROVE  {Simple(mm.startstate)} \subseteq GoodTokens(mm)
  BY DEF WellFormed, Simple, GoodTokens, GoodSimple, SimpleTokens

LEMMA InitIInv == Init => IInv
  BY DEF Init, IInv, TypeOK, alive, NeverAborts, WorklistSound, Calls, Passes

(* A call that begins with good tokens establishes the loop invariant. *)
LEMMA BeginIInv ==
    ASSUME IInv, NEW T \in SUBSET GoodTokens(m), Begin(T),
           m' = m, call' \in Calls, cstates' \subseteq GoodTokens(m),
           seeds' = T
    PROVE  IInv'
  <1>1. /\ nstates' \subseteq GoodTokens(m)
        /\ workset' \subseteq GoodTokens(m)
        /\ fixpoint' = workset'
        /\ pc' = "simple"
    BY PartsAreGood DEF Begin
  <1>2. TypeOK'
    BY <1>1, GoodIsTyped DEF IInv, TypeOK, Passes
  <1>3. (alive \subseteq GoodTokens(m))'
    BY <1>1 DEF alive
  <1>4. NeverAborts'
    BY <1>1 DEF NeverAborts
  <1>5. WorklistSound'
    BY <1>1 DEF WorklistSound, Begin
  <1> QED
    BY <1>2, <1>3, <1>4, <1>5 DEF IInv

LEMMA InitializeIInv ==
    ASSUME IInv, intitializeMachine
    PROVE  IInv'
  <1> DEFINE T == {Simple(m.startstate)}
  <1>1. WellFormed(m) /\ m' = m
    BY MachinesAssumption DEF IInv, TypeOK, intitializeMachine
  <1>2. T \subseteq GoodTokens(m)
    BY <1>1, StartIsGood
  <1>3. call' \in Calls /\ cstates' \subseteq GoodTokens(m)
    BY DEF intitializeMachine, Calls
  <1>4. seeds' = T
    BY <1>1 DEF intitializeMachine, seeds, InitCall
  <1>5. Begin(T)
    BY DEF intitializeMachine
  <1> HIDE DEF T
  <1> QED
    BY <1>1, <1>2, <1>3, <1>4, <1>5, BeginIInv

LEMMA StepMachineIInv ==
    ASSUME IInv, NEW c \in Chars, stepMachine(c)
    PROVE  IInv'
  <1> DEFINE T == advanceChar(m, c, cstates)
  <1>1. WellFormed(m) /\ m' = m /\ cstates' = cstates
    BY MachinesAssumption DEF IInv, TypeOK, stepMachine
  <1>2. cstates \subseteq GoodTokens(m)
    BY DEF IInv, alive
  <1>3. T \subseteq GoodTokens(m)
    BY <1>1, <1>2, AdvanceGood
  <1>4. call' \in Calls
    BY DEF stepMachine, Calls
  <1>5. seeds' = T
    BY <1>1 DEF stepMachine, seeds, StepCall
  <1>6. Begin(T)
    BY DEF stepMachine
  <1> HIDE DEF T
  <1> QED
    BY <1>1, <1>2, <1>3, <1>4, <1>5, <1>6, BeginIInv

(* One round of the work list. *)
LEMMA AdvanceIInv ==
    ASSUME IInv, NEW pass \in Passes, advanceEpsilon(pass)
    PROVE  IInv'
  <1>1. PICK t \in OfKind(pass, workset) :
            processEpsilonTransition(t, epsilonProcessed(m, t))
    BY DEF advanceEpsilon
  <1> DEFINE P   == epsilonProcessed(m, t)
             new == epsilonOnly(m, P) \ fixpoint
  <1>2. /\ m' = m /\ cstates' = cstates /\ call' = call /\ pc' = pc /\ pc \in Passes
    BY DEF advanceEpsilon
  <1>3. t \in workset /\ t \in GoodTokens(m) /\ WellFormed(m)
    BY MachinesAssumption DEF OfKind, IInv, TypeOK, alive
  <1>4. /\ nstates' = nstates \cup concreteOnly(m, P) \cup epsilonDirect(m, t)
        /\ fixpoint' = fixpoint \cup new
        /\ workset' = (workset \ {t}) \cup new
    BY <1>1 DEF processEpsilonTransition
  <1>5. P \subseteq GoodTokens(m) /\ epsilonDirect(m, t) \subseteq GoodTokens(m)
    BY <1>3, ProcessedGood, DirectGood
  <1>6. concreteOnly(m, P) \subseteq GoodTokens(m) /\ new \subseteq GoodTokens(m)
    BY <1>5, PartsAreGood
  <1>7. (alive \subseteq GoodTokens(m))'
    BY <1>2, <1>4, <1>5, <1>6 DEF IInv, alive
  <1>8. TypeOK'
    BY <1>2, <1>4, <1>5, <1>6, GoodIsTyped DEF IInv, TypeOK
  <1>9. NeverAborts'
    BY <1>2 DEF IInv, NeverAborts
  <1>10. WorklistSound'
    <2>1. /\ workset \subseteq fixpoint
          /\ concreteOnly(m, seeds) \subseteq nstates
          /\ epsilonOnly(m, seeds) \subseteq fixpoint
          /\ \A u \in fixpoint \ workset : settled(u)
      BY <1>2 DEF IInv, WorklistSound
    <2>2. seeds' = seeds
      BY <1>2 DEF seeds
    <2>3. workset' \subseteq fixpoint'
      BY <1>4, <2>1
    <2>4. ASSUME NEW u \in fixpoint' \ workset'
          PROVE  settled(u)'
      <3>1. CASE u = t
        BY <1>2, <1>4, <3>1 DEF settled
      <3>2. CASE u # t
        <4>1. u \in fixpoint \ workset
          BY <1>4, <3>2
        <4> QED
          BY <1>2, <1>4, <2>1, <4>1 DEF settled
      <3> QED
        BY <3>1, <3>2
    <2> QED
      BY <1>2, <1>4, <2>1, <2>2, <2>3, <2>4 DEF WorklistSound
  <1> QED
    BY <1>7, <1>8, <1>9, <1>10 DEF IInv

LEMMA PassDoneIInv ==
    ASSUME IInv, NEW pass \in Passes, NEW next \in Passes, passDone(pass, next)
    PROVE  IInv'
  <1>1. /\ UNCHANGED <<m, cstates, call, workset, fixpoint, nstates>>
        /\ pc \in Passes /\ pc' \in Passes
    BY DEF passDone
  <1>2. WorklistSound'
    BY <1>1 DEF IInv, WorklistSound, seeds, settled
  <1> QED
    BY <1>1, <1>2 DEF IInv, TypeOK, alive, NeverAborts, Passes

LEMMA FullPassIInv ==
    ASSUME IInv, fullPass
    PROVE  IInv'
  <1>1. OfKind("full", workset) = {}
    BY DEF IInv, alive, OfKind, GoodTokens, GoodSimple, GoodSingle,
           SimpleTokens, SingleTokens
  <1>2. CASE workset = {}
    <2>1. /\ pc' = "idle" /\ cstates' = nstates /\ call' = NoCall
          /\ UNCHANGED <<m, workset, fixpoint, nstates>>
      BY <1>1, <1>2 DEF fullPass
    <2> QED
      BY <2>1 DEF IInv, TypeOK, alive, NeverAborts, WorklistSound, Passes, Calls
  <1>3. CASE workset # {}
    <2>1. /\ pc' = "simple" /\ pc = "full"
          /\ UNCHANGED <<m, cstates, call, workset, fixpoint, nstates>>
      BY <1>1, <1>3 DEF fullPass
    <2>2. WorklistSound'
      BY <2>1 DEF IInv, WorklistSound, seeds, settled, Passes
    <2> QED
      BY <2>1, <2>2 DEF IInv, TypeOK, alive, NeverAborts, Passes
  <1> QED
    BY <1>2, <1>3

LEMMA NextIInv == IInv /\ [Next]_vars => IInv'
  <1> SUFFICES ASSUME IInv, [Next]_vars
               PROVE  IInv'
    OBVIOUS
  <1>1. CASE intitializeMachine
    BY <1>1, InitializeIInv
  <1>2. ASSUME NEW c \in Chars, stepMachine(c)
        PROVE  IInv'
    BY <1>2, StepMachineIInv
  <1>3. CASE advanceEpsilon("simple")
    BY <1>3, AdvanceIInv DEF Passes
  <1>4. CASE passDone("simple", "single")
    BY <1>4, PassDoneIInv DEF Passes
  <1>5. CASE advanceEpsilon("single")
    BY <1>5, AdvanceIInv DEF Passes
  <1>6. CASE passDone("single", "full")
    BY <1>6, PassDoneIInv DEF Passes
  <1>7. CASE fullPass
    BY <1>7, FullPassIInv
  <1>8. CASE UNCHANGED vars
    BY <1>8 DEF vars, IInv, TypeOK, alive, NeverAborts, WorklistSound, seeds, settled
  <1> QED
    BY <1>1, <1>2, <1>3, <1>4, <1>5, <1>6, <1>7, <1>8 DEF Next, Step

-----------------------------------------------------------------------------
(* Theorems *)

(* Every reachable state satisfies the inductive invariant. *)
THEOREM Invariance == Spec => []IInv
  <1> QED
    BY InitIInv, NextIInv, PTL DEF Spec

(* Machine, tokens, call and pass keep their types: the counters of tokens *)
(* stay within 1..UINT16_MAX for every machine the compiler may emit.      *)
THEOREM TypeCorrect == Spec => []TypeOK
  <1>1. IInv => TypeOK
    BY DEF IInv
  <1> QED
    BY <1>1, Invariance, PTL

(* The pass over full tokens never meets one, so the assertion in          *)
(* advanceEpsilonForFullStates is unreachable when repeats do not nest.    *)
THEOREM FullStatesUnreachable == Spec => []NeverAborts
  <1>1. IInv => NeverAborts
    BY DEF IInv
  <1> QED
    BY <1>1, Invariance, PTL

(* inAccepted looks at simple tokens only and misses no accepting token. *)
THEOREM AcceptNeedsNoCounter == Spec => []AcceptIsSimple
  <1>1. IInv => AcceptIsSimple
    <2> SUFFICES ASSUME IInv, NEW t \in alive, t.cstate = m.acceptstate
                 PROVE  t.kind = "simple"
      BY DEF AcceptIsSimple
    <2>1. /\ m.enclosing[m.acceptstate] = {}
          /\ m.nfaopts[m.acceptstate].tag = "Accept"
      BY MachinesAssumption DEF IInv, TypeOK, WellFormed
    <2>2. t \in GoodTokens(m)
      BY DEF IInv
    <2>3. t \notin GoodSingle(m)
      BY <2>1 DEF GoodSingle
    <2> QED
      BY <2>2, <2>3 DEF GoodTokens, GoodSimple, SimpleTokens
  <1> QED
    BY <1>1, Invariance, PTL

(* No counter steps over the maximum of its repeat. *)
THEOREM CountsAreBounded == Spec => []CountInBounds
  <1>1. IInv => CountInBounds
    <2> SUFFICES ASSUME IInv, NEW t \in alive, t.kind = "single"
                 PROVE  t.count <= maxCount(m, t.range)
      BY DEF CountInBounds, maxCount
    <2>1. t \in GoodTokens(m)
      BY DEF IInv
    <2>2. t \in GoodSingle(m)
      BY <2>1 DEF GoodTokens, GoodSimple, SimpleTokens
    <2> QED
      BY <2>2 DEF GoodSingle
  <1> QED
    BY <1>1, Invariance, PTL

(* The loop invariant of the work list holds throughout a call. *)
THEOREM WorklistIsSound == Spec => []WorklistSound
  <1>1. IInv => WorklistSound
    BY DEF IInv
  <1> QED
    BY <1>1, Invariance, PTL

(* A call that returns, returns a state closed under epsilon steps. *)
THEOREM CallsReturnClosedStates == Spec => ReturnsClosed
  <1> DEFINE Closed ==
        call # NoCall /\ call' = NoCall =>
         /\ concreteOnly(m, seeds) \subseteq cstates'
         /\ epsilonOnly(m, seeds) \subseteq fixpoint
         /\ \A t \in fixpoint :
               /\ epsilonDirect(m, t) \subseteq cstates'
               /\ concreteOnly(m, epsilonProcessed(m, t)) \subseteq cstates'
               /\ epsilonOnly(m, epsilonProcessed(m, t)) \subseteq fixpoint
  <1>1. IInv /\ [Next]_vars => [Closed]_vars
    <2> SUFFICES ASSUME IInv, Next, call # NoCall, call' = NoCall
                 PROVE  Closed
      OBVIOUS
    <2>1. fullPass /\ workset = {}
      BY DEF Next, Step, intitializeMachine, stepMachine, advanceEpsilon,
             passDone, fullPass, NoCall, InitCall, StepCall
    <2>2. cstates' = nstates /\ pc = "full"
      BY <2>1 DEF fullPass
    <2>3. WorklistSound /\ pc \in Passes
      BY <2>2 DEF IInv, Passes
    <2> QED
      BY <2>1, <2>2, <2>3 DEF WorklistSound, settled
  <1>2. []IInv /\ [][Next]_vars => [][Closed]_vars
    BY <1>1, PTL
  <1> QED
    BY <1>2, Invariance, PTL DEF Spec, ReturnsClosed

-----------------------------------------------------------------------------
(* NFAMachine implements the safe part of NFASteps: a call answers with    *)
(* the least set of tokens closed under epsilon steps.                     *)

(* The work list adds nothing: what is in the fixpoint set is in the least *)
(* closed set, and the state under construction holds what follows from    *)
(* the fixpoint set and no more.                                           *)

follows(mm, T, R) ==
    concreteOnly(mm, T)
      \cup (UNION {concreteOnly(mm, epsilonProcessed(mm, t)) : t \in R})
      \cup (UNION {epsilonDirect(mm, t) : t \in R})

NothingExtra ==
    pc \in Passes =>
        /\ fixpoint \subseteq least(m, epsilonOnly(m, seeds))
        /\ nstates \subseteq follows(m, seeds, fixpoint)

CallUnderWay == pc = "idle" <=> call = NoCall

SInv == IInv /\ CallUnderWay /\ NothingExtra

(* follows is the least set that holds its three parts. *)
LEMMA FollowsHolds ==
    ASSUME NEW mm, NEW T, NEW R, NEW t \in R
    PROVE  /\ concreteOnly(mm, T) \subseteq follows(mm, T, R)
           /\ concreteOnly(mm, epsilonProcessed(mm, t)) \subseteq follows(mm, T, R)
           /\ epsilonDirect(mm, t) \subseteq follows(mm, T, R)
  <1> DEFINE A == {concreteOnly(mm, epsilonProcessed(mm, u)) : u \in R}
             B == {epsilonDirect(mm, u) : u \in R}
  <1>1. concreteOnly(mm, epsilonProcessed(mm, t)) \in A /\ epsilonDirect(mm, t) \in B
    OBVIOUS
  <1>2. follows(mm, T, R) = concreteOnly(mm, T) \cup (UNION A) \cup (UNION B)
    BY DEF follows
  <1> HIDE DEF A, B
  <1> QED
    BY <1>1, <1>2

LEMMA FollowsWithin ==
    ASSUME NEW mm, NEW T, NEW R, NEW N,
           concreteOnly(mm, T) \subseteq N,
           \A t \in R : /\ concreteOnly(mm, epsilonProcessed(mm, t)) \subseteq N
                       /\ epsilonDirect(mm, t) \subseteq N
    PROVE  follows(mm, T, R) \subseteq N
  <1> DEFINE A == {concreteOnly(mm, epsilonProcessed(mm, u)) : u \in R}
             B == {epsilonDirect(mm, u) : u \in R}
  <1>1. \A Y \in A \cup B : Y \subseteq N
    OBVIOUS
  <1>2. follows(mm, T, R) = concreteOnly(mm, T) \cup (UNION A) \cup (UNION B)
    BY DEF follows
  <1> HIDE DEF A, B
  <1> QED
    BY <1>1, <1>2

LEMMA InitSInv == Init => SInv
  BY InitIInv DEF Init, SInv, CallUnderWay, NothingExtra, Passes

LEMMA BeginSInv ==
    ASSUME SInv, NEW T \in SUBSET Tokens(m), Begin(T), m' = m, seeds' = T
    PROVE  NothingExtra'
  <1>1. /\ fixpoint' = epsilonOnly(m, T)
        /\ nstates' = concreteOnly(m, T)
    BY DEF Begin
  <1>2. epsilonOnly(m, T) \subseteq least(m, epsilonOnly(m, T))
    BY LeastHoldsItsSeeds DEF epsilonOnly
  <1> QED
    BY <1>1, <1>2 DEF NothingExtra, follows

LEMMA InitializeSInv ==
    ASSUME SInv, intitializeMachine
    PROVE  CallUnderWay' /\ NothingExtra'
  <1> DEFINE T == {Simple(m.startstate)}
  <1>1. WellFormed(m) /\ m' = m
    BY MachinesAssumption DEF SInv, IInv, TypeOK, intitializeMachine
  <1>2. T \in SUBSET Tokens(m)
    BY <1>1, StartIsGood, GoodIsTyped
  <1>3. seeds' = T /\ Begin(T)
    BY <1>1 DEF intitializeMachine, seeds, InitCall
  <1>4. CallUnderWay'
    BY DEF intitializeMachine, Begin, CallUnderWay, NoCall, InitCall
  <1> HIDE DEF T
  <1> QED
    BY <1>1, <1>2, <1>3, <1>4, BeginSInv

LEMMA StepMachineSInv ==
    ASSUME SInv, NEW c \in Chars, stepMachine(c)
    PROVE  CallUnderWay' /\ NothingExtra'
  <1> DEFINE T == advanceChar(m, c, cstates)
  <1>1. WellFormed(m) /\ m' = m /\ cstates' = cstates
    BY MachinesAssumption DEF SInv, IInv, TypeOK, stepMachine
  <1>2. T \in SUBSET Tokens(m)
    BY <1>1, AdvanceGood, GoodIsTyped DEF SInv, IInv, alive
  <1>3. seeds' = T /\ Begin(T)
    BY <1>1 DEF stepMachine, seeds, StepCall
  <1>4. CallUnderWay'
    BY DEF stepMachine, Begin, CallUnderWay, NoCall, StepCall
  <1> HIDE DEF T
  <1> QED
    BY <1>1, <1>2, <1>3, <1>4, BeginSInv

LEMMA AdvanceSInv ==
    ASSUME SInv, NEW pass \in Passes, advanceEpsilon(pass)
    PROVE  CallUnderWay' /\ NothingExtra'
  <1>1. PICK t \in OfKind(pass, workset) :
            processEpsilonTransition(t, epsilonProcessed(m, t))
    BY DEF advanceEpsilon
  <1> DEFINE P   == epsilonProcessed(m, t)
             new == epsilonOnly(m, P) \ fixpoint
  <1>2. UNCHANGED <<m, cstates, call, pc, seeds>> /\ pc \in Passes
    BY DEF advanceEpsilon, seeds
  <1>3. /\ nstates' = nstates \cup concreteOnly(m, P) \cup epsilonDirect(m, t)
        /\ fixpoint' = fixpoint \cup new
    BY <1>1 DEF processEpsilonTransition
  <1>4. /\ fixpoint \subseteq least(m, epsilonOnly(m, seeds))
        /\ nstates \subseteq follows(m, seeds, fixpoint)
    BY <1>2 DEF SInv, NothingExtra
  <1>5. t \in fixpoint /\ WellFormed(m)
    BY <1>2, MachinesAssumption DEF OfKind, SInv, IInv, TypeOK, WorklistSound
  <1>6. new \subseteq least(m, epsilonOnly(m, seeds))
    BY <1>4, <1>5, LeastIsClosed
  <1>7. nstates' \subseteq follows(m, seeds, fixpoint')
    <2>1. follows(m, seeds, fixpoint) \subseteq follows(m, seeds, fixpoint')
      BY <1>3 DEF follows
    <2>2. /\ concreteOnly(m, P) \subseteq follows(m, seeds, fixpoint')
          /\ epsilonDirect(m, t) \subseteq follows(m, seeds, fixpoint')
      BY <1>3, <1>5, FollowsHolds
    <2> QED
      BY <1>3, <1>4, <2>1, <2>2
  <1>8. NothingExtra'
    BY <1>2, <1>3, <1>4, <1>6, <1>7 DEF NothingExtra
  <1> QED
    BY <1>2, <1>8 DEF SInv, CallUnderWay

LEMMA NextSInv == SInv /\ [Next]_vars => SInv'
  <1> SUFFICES ASSUME SInv, [Next]_vars
               PROVE  CallUnderWay' /\ NothingExtra'
    BY NextIInv DEF SInv
  <1>1. CASE intitializeMachine
    BY <1>1, InitializeSInv
  <1>2. ASSUME NEW c \in Chars, stepMachine(c)
        PROVE  CallUnderWay' /\ NothingExtra'
    BY <1>2, StepMachineSInv
  <1>3. CASE advanceEpsilon("simple") \/ advanceEpsilon("single")
    BY <1>3, AdvanceSInv DEF Passes
  <1>4. CASE passDone("simple", "single") \/ passDone("single", "full")
    BY <1>4 DEF passDone, SInv, CallUnderWay, NothingExtra, seeds, Passes
  <1>5. CASE fullPass
    <2>1. OfKind("full", workset) = {}
      BY DEF SInv, IInv, alive, OfKind, GoodTokens, GoodSimple, GoodSingle,
             SimpleTokens, SingleTokens
    <2>2. CASE workset = {}
      BY <1>5, <2>1, <2>2 DEF fullPass, CallUnderWay, NothingExtra, Passes
    <2>3. CASE workset # {}
      BY <1>5, <2>1, <2>3 DEF fullPass, SInv, CallUnderWay, NothingExtra, seeds, Passes
    <2> QED
      BY <2>2, <2>3
  <1>6. CASE UNCHANGED vars
    BY <1>6 DEF vars, SInv, CallUnderWay, NothingExtra, seeds
  <1> QED
    BY <1>1, <1>2, <1>3, <1>4, <1>5, <1>6 DEF Next, Step

-----------------------------------------------------------------------------
(* What a call returns. *)

LEMMA ReturnIsClosure ==
    ASSUME SInv, pc = "full", workset = {}
    PROVE  nstates = epsilonClosure(m, seeds)
  <1>1. WellFormed(m) /\ fixpoint \in SUBSET Tokens(m) /\ pc \in Passes
    BY MachinesAssumption DEF SInv, IInv, TypeOK, Passes
  <1>2. /\ concreteOnly(m, seeds) \subseteq nstates
        /\ epsilonOnly(m, seeds) \subseteq fixpoint
        /\ \A t \in fixpoint : settled(t)
    BY <1>1 DEF SInv, IInv, WorklistSound
  <1>3. /\ fixpoint \subseteq least(m, epsilonOnly(m, seeds))
        /\ nstates \subseteq follows(m, seeds, fixpoint)
    BY <1>1 DEF SInv, NothingExtra
  <1>4. grow(m, fixpoint) = fixpoint
    BY <1>2 DEF grow, settled
  <1>5. least(m, epsilonOnly(m, seeds)) = fixpoint
    BY <1>1, <1>2, <1>3, <1>4 DEF least, closedOver
  <1>6. epsilonReach(m, epsilonOnly(m, seeds)) = fixpoint
    BY <1>1, <1>2, <1>5, EpsilonReachIsLeast
  <1>7. follows(m, seeds, fixpoint) \subseteq nstates
    BY <1>2, FollowsWithin DEF settled
  <1>8. epsilonClosure(m, seeds) = follows(m, seeds, fixpoint)
    BY <1>6 DEF epsilonClosure, follows
  <1> QED
    BY <1>3, <1>7, <1>8

(* NFASteps is an instance with the same constants, so that its operators  *)
(* are those of NFA and NFAClosure.                                        *)
LEMMA SameCalls ==
    /\ Steps!NoCall = NoCall
    /\ Steps!InitCall = InitCall
    /\ \A c : Steps!StepCall(c) = StepCall(c)
  BY DEF Steps!NoCall, NoCall, Steps!InitCall, InitCall, Steps!StepCall, StepCall

LEMMA SameTokens ==
    ASSUME NEW mm
    PROVE  /\ Steps!Tokens(mm) = Tokens(mm)
           /\ \A s : Steps!Simple(s) = Simple(s)
  BY DEF Steps!Tokens, Steps!SimpleTokens, Steps!SingleTokens, Steps!FullTokens,
         Steps!States, Steps!Simple, Tokens, SimpleTokens, SingleTokens,
         FullTokens, States, Simple

LEMMA SameParts ==
    ASSUME NEW mm, NEW T
    PROVE  /\ Steps!concreteOnly(mm, T) = concreteOnly(mm, T)
           /\ Steps!epsilonOnly(mm, T) = epsilonOnly(mm, T)
  BY DEF Steps!concreteOnly, Steps!epsilonOnly, Steps!concreteTransition,
         Steps!CharTags, concreteOnly, epsilonOnly, concreteTransition, CharTags

LEMMA SameAdvance ==
    ASSUME NEW mm, NEW c, NEW T
    PROVE  Steps!advanceChar(mm, c, T) = advanceChar(mm, c, T)
  BY DEF Steps!advanceChar, Steps!advanceToken, Steps!CharTags, Steps!takes,
         Steps!toNextState, advanceChar, advanceToken, CharTags, takes, toNextState

LEMMA SameEpsilon ==
    ASSUME NEW mm, NEW t
    PROVE  /\ Steps!epsilonProcessed(mm, t) = epsilonProcessed(mm, t)
           /\ Steps!epsilonDirect(mm, t) = epsilonDirect(mm, t)
  BY DEF Steps!epsilonProcessed, Steps!epsilonDirect, Steps!branch, Steps!skipRange,
         Steps!repeatRange, Steps!nestRange, Steps!enterRange, Steps!toNextState,
         Steps!Simple, Steps!Single, Steps!Full, Steps!saturateNFATokenIncrement,
         epsilonProcessed, epsilonDirect, branch, skipRange, repeatRange, nestRange,
         enterRange, toNextState, Simple, Single, Full, saturateNFATokenIncrement

LEMMA SameGrow ==
    ASSUME NEW mm, NEW Y
    PROVE  Steps!grow(mm, Y) = grow(mm, Y)
  <1>1. \A t : Steps!epsilonOnly(mm, Steps!epsilonProcessed(mm, t))
                = epsilonOnly(mm, epsilonProcessed(mm, t))
    BY SameEpsilon, SameParts
  <1> QED
    BY <1>1 DEF Steps!grow, grow

LEMMA SameReach ==
    ASSUME NEW mm, NEW X
    PROVE  Steps!epsilonReach(mm, X) = epsilonReach(mm, X)
  <1> DEFINE F(f) == [Y \in SUBSET Tokens(mm) |->
                        IF grow(mm, Y) = Y THEN Y ELSE f[grow(mm, Y)]]
             G(f) == [Y \in SUBSET Steps!Tokens(mm) |->
                        IF Steps!grow(mm, Y) = Y THEN Y ELSE f[Steps!grow(mm, Y)]]
  <1>1. \A f : F(f) = G(f)
    BY SameGrow, SameTokens
  <1>2. Steps!epsilonReach(mm, X) = (CHOOSE f : f = G(f))[X]
    BY DEF Steps!epsilonReach
  <1>3. epsilonReach(mm, X) = (CHOOSE f : f = F(f))[X]
    BY DEF epsilonReach
  <1> HIDE DEF F, G
  <1>4. (CHOOSE f : f = F(f)) = (CHOOSE f : f = G(f))
    BY <1>1, Zenon
  <1> QED
    BY <1>2, <1>3, <1>4

LEMMA SameClosure ==
    ASSUME NEW mm, NEW T
    PROVE  Steps!epsilonClosure(mm, T) = epsilonClosure(mm, T)
  BY SameReach, SameParts, SameEpsilon DEF Steps!epsilonClosure, epsilonClosure

-----------------------------------------------------------------------------
(* The refinement, one action at a time. *)

LEMMA InitImplements == Init => Steps!Init
  BY SameCalls DEF Init, Steps!Init

LEMMA InitializeImplements ==
    ASSUME SInv, intitializeMachine
    PROVE  Steps!CallInit
  BY SameCalls DEF SInv, CallUnderWay, intitializeMachine, Steps!CallInit

LEMMA StepMachineImplements ==
    ASSUME SInv, NEW c \in Chars, stepMachine(c)
    PROVE  Steps!CallStep(c)
  BY SameCalls DEF SInv, CallUnderWay, stepMachine, Steps!CallStep

LEMMA FullPassImplements ==
    ASSUME SInv, fullPass
    PROVE  Steps!Return \/ UNCHANGED Steps!svars
  <1>1. CASE workset # {}
    BY <1>1 DEF fullPass, Steps!svars
  <1>2. CASE workset = {}
    <2>1. /\ pc = "full" /\ cstates' = nstates /\ call' = NoCall /\ m' = m
      BY <1>2 DEF fullPass
    <2>2. cstates' = epsilonClosure(m, seeds)
      BY <1>2, <2>1, ReturnIsClosure
    <2>3. call \in Calls /\ call # NoCall
      BY <2>1 DEF SInv, IInv, TypeOK, CallUnderWay
    <2>4. CASE call = InitCall
      <3>1. seeds = {Simple(m.startstate)}
        BY <2>4 DEF seeds, InitCall
      <3>2. cstates' = Steps!initialState(m)
        BY <2>2, <3>1, SameClosure, SameTokens DEF Steps!initialState
      <3> QED
        BY <2>1, <2>3, <2>4, <3>2, SameCalls DEF Steps!Return
    <2>5. CASE call # InitCall
      <3>1. PICK c \in Chars : call = StepCall(c)
        BY <2>3, <2>5 DEF Calls
      <3>2. seeds = advanceChar(m, call.c, cstates)
        BY <3>1 DEF seeds, StepCall
      <3>3. cstates' = Steps!nextState(m, call.c, cstates)
        BY <2>2, <3>2, SameClosure, SameAdvance DEF Steps!nextState
      <3> QED
        BY <2>1, <2>3, <2>5, <3>3, SameCalls DEF Steps!Return
    <2> QED
      BY <2>4, <2>5
  <1> QED
    BY <1>1, <1>2

LEMMA NextImplements == SInv /\ [Next]_vars => [Steps!Next]_(Steps!svars)
  <1> SUFFICES ASSUME SInv, [Next]_vars
               PROVE  Steps!Next \/ UNCHANGED Steps!svars
    OBVIOUS
  <1>1. CASE intitializeMachine
    BY <1>1, InitializeImplements DEF Steps!Next
  <1>2. ASSUME NEW c \in Chars, stepMachine(c)
        PROVE  Steps!Next
    BY <1>2, StepMachineImplements DEF Steps!Next
  <1>3. CASE advanceEpsilon("simple") \/ advanceEpsilon("single")
    BY <1>3 DEF advanceEpsilon, Steps!svars
  <1>4. CASE passDone("simple", "single") \/ passDone("single", "full")
    BY <1>4 DEF passDone, Steps!svars
  <1>5. CASE fullPass
    BY <1>5, FullPassImplements DEF Steps!Next
  <1>6. CASE UNCHANGED vars
    BY <1>6 DEF vars, Steps!svars
  <1> QED
    BY <1>1, <1>2, <1>3, <1>4, <1>5, <1>6 DEF Next, Step

(* Whatever order the passes take the tokens in, the caller of             *)
(* intitializeMachine and stepMachine sees one answer, the least closed    *)
(* set: the safe part of ImplementsSteps.                                  *)
THEOREM CallsAnswerAtOnce == Spec => Steps!SafeSpec
  <1>1. Spec => []SInv
    BY InitSInv, NextSInv, PTL DEF Spec
  <1>2. []SInv /\ [][Next]_vars => [][Steps!Next]_(Steps!svars)
    BY NextImplements, PTL
  <1> QED
    BY <1>1, <1>2, InitImplements, PTL DEF Spec, Steps!SafeSpec

=============================================================================
