--------------------------- MODULE ReSystemProofs ---------------------------
(***************************************************************************)
(* Proofs about ReSystem, for every set of systems, every parser and every *)
(* compiler: the recursion of processRERecursive follows dependencies and  *)
(* ends within the names, entries are built after what they depend on,     *)
(* errors say what is wrong, and the whole implements BuildOrder.          *)
(***************************************************************************)
EXTENDS ReSystem, SequenceTheorems, FiniteSetTheorems, WellFoundedInduction, TLAPS

-----------------------------------------------------------------------------
(* The inductive invariant: types, what the phases before the walk leave,  *)
(* and the walk itself.                                                    *)

Frames == [entry : Nat, next : Nat, recok : BOOLEAN]
Kinds == {"parse", "dependencies", "dependency", "cycle", "compile"}
Reports == [kind : Kinds, entry : Nat]

TypeInv ==
    /\ TypeOK
    /\ sinfo \in Systems
    /\ Len(entries) \in Nat /\ Indexes = 1 .. Len(entries)
    /\ Len(deps) \in Nat /\ DOMAIN deps = 1 .. Len(deps)
    /\ errors \in Seq(Reports)
    /\ stack \in Seq(Frames)

(* No call of processRERecursive has been made. *)
idle == stack = <<>> /\ callee = 0 /\ result = "none" /\ built = {} /\ DOMAIN named = {}

Loading == pc = "load" =>
    entries = <<>> /\ deps = <<>> /\ errors = <<>> /\ at = 1 /\ DOMAIN depmap = {} /\ DOMAIN parsed = {}

Parsing == pc = "parse" =>
    /\ at \in 1 .. Len(entries) + 1 /\ Len(deps) = at - 1
    /\ DOMAIN parsed \subseteq 1 .. at - 1 /\ DOMAIN depmap = {}
    /\ errors = <<>> => DOMAIN parsed = 1 .. at - 1

Linking == pc = "link" =>
    /\ at \in 0 .. Len(entries) /\ Len(deps) = Len(entries)
    /\ errors = <<>> => DOMAIN parsed = Indexes
    /\ DOMAIN depmap = {fullname(i) : i \in 1 .. at}
    /\ IF at = 0 THEN todo = {} ELSE todo \subseteq deps[at]

PrepareInv ==
    /\ pc \in {"load", "parse", "link", "refused"} => idle
    /\ Loading /\ Parsing /\ Linking
    /\ pc = "refused" => errors # <<>>
    /\ pc \in LinkedPhases => at <= Len(entries) /\ Len(deps) = Len(entries)

(* The entry the call being made, or the answer being given, is about. *)
subject == IF stack = <<>> THEN at ELSE depsOf(top.entry)[top.next]

CallsAreDependencies ==
    /\ stack # <<>> /\ (callee # 0 \/ result # "none") => top.next <= Len(depsOf(top.entry))
    /\ callee # 0 => result = "none" /\ callee = subject

AnswersAreBuilt == result = "ok" => subject \in built

(* The first call is on the entry the loop is at, the earlier ones are     *)
(* compiled, and the loop does not go on without an answer.                *)
LoopIsAt == pc \in LinkedPhases =>
    /\ stack # <<>> => stack[1].entry = at
    /\ 1 .. at - 1 \subseteq built
    /\ stack = <<>> /\ callee = 0 /\ at > 0 => result # "none"
    /\ pc = "finished" => built = Indexes

DependenciesAreBuilt ==
    \A i \in DOMAIN stack : stack[i].recok =>
        \A k \in 1 .. stack[i].next - 1 : depsOf(stack[i].entry)[k] \in built

FailuresHaveCauses ==
    result = "failed" \/ pc = "stopped" \/ (\E i \in DOMAIN stack : ~stack[i].recok)
    => errors # <<>> \/ SomeUnloadable

WalkInv ==
    /\ PendingIsAPath
    /\ CallsAreDependencies
    /\ AnswersAreBuilt
    /\ LoopIsAt
    /\ DependenciesAreBuilt
    /\ NamesAreBuilt
    /\ DependenciesAreNamed
    /\ FailuresHaveCauses

IInv == TypeInv /\ PrepareInv /\ WalkInv

LEMMA InitIInv == Init => IInv
  <1> SUFFICES ASSUME Init
               PROVE  IInv
    OBVIOUS
  <1>1. /\ sinfo \in Systems
        /\ entries = <<>> /\ deps = <<>> /\ errors = <<>> /\ stack = <<>>
        /\ DOMAIN parsed = {} /\ DOMAIN depmap = {} /\ DOMAIN named = {} /\ built = {}
        /\ pc = "load" /\ at = 1 /\ callee = 0 /\ result = "none"
    BY DEF Init, built
  <1>2. TypeInv
    BY <1>1 DEF TypeInv, TypeOK, Phases, LinkedPhases, Indexes
  <1>3. PrepareInv
    BY <1>1 DEF PrepareInv, Loading, Parsing, Linking, idle, LinkedPhases
  <1>4. WalkInv
    BY <1>1 DEF WalkInv, PendingIsAPath, CallsAreDependencies, AnswersAreBuilt, LoopIsAt,
                DependenciesAreBuilt, NamesAreBuilt, DependenciesAreNamed,
                FailuresHaveCauses, LinkedPhases
  <1> QED
    BY <1>2, <1>3, <1>4 DEF IInv

-----------------------------------------------------------------------------
(* The phases before the walk. *)

(* Until the walk begins there is nothing to say about it. *)
LEMMA IdleWalk ==
    ASSUME idle', pc' \in {"load", "parse", "link", "refused"}
    PROVE  WalkInv'
  BY DEF idle, WalkInv, PendingIsAPath, CallsAreDependencies, AnswersAreBuilt, LoopIsAt,
         DependenciesAreBuilt, NamesAreBuilt, DependenciesAreNamed, FailuresHaveCauses,
         LinkedPhases

LEMMA StaysIdle ==
    ASSUME PrepareInv, prepare
    PROVE  idle /\ idle'
  <1>1. pc \in {"load", "parse", "link"} /\ walkIdle
    BY DEF prepare, loadEntries, parseEntry, allParsed, linkEntry, linkDependency, allLinked
  <1> QED
    BY <1>1 DEF PrepareInv, idle, walkIdle, built

(* Errors are only added. *)
LEMMA ReportAdded ==
    ASSUME errors \in Seq(Reports), NEW k \in Kinds, NEW e \in Nat,
           errors' = Append(errors, [kind |-> k, entry |-> e])
    PROVE  /\ errors' \in Seq(Reports) /\ errors' # <<>>
           /\ Len(errors') = Len(errors) + 1
           /\ errors'[Len(errors) + 1] = [kind |-> k, entry |-> e]
           /\ \A i \in 1 .. Len(errors) : errors'[i] = errors[i]
  <1>1. [kind |-> k, entry |-> e] \in Reports
    BY DEF Reports
  <1> QED
    BY <1>1, AppendProperties

LEMMA LoadEntriesIInv ==
    ASSUME IInv, loadEntries
    PROVE  IInv'
  <1>1. /\ Len(sinfo.reinfos) \in Nat
        /\ DOMAIN sinfo.reinfos = 1 .. Len(sinfo.reinfos)
    BY SystemsAssumption DEF IInv, TypeInv
  <1>2. /\ pc = "load" /\ pc' = "parse" /\ sinfo' = sinfo
        /\ Len(entries') = Len(sinfo.reinfos) /\ Indexes' = 1 .. Len(entries')
        /\ deps' = <<>> /\ errors' = <<>> /\ at' = 1
        /\ DOMAIN depmap' = {} /\ DOMAIN parsed' = {}
    BY <1>1 DEF IInv, PrepareInv, Loading, loadEntries, Indexes
  <1>3. idle'
    BY StaysIdle DEF prepare, IInv
  <1>4. TypeInv'
    BY <1>1, <1>2, <1>3 DEF IInv, TypeInv, TypeOK, Phases, LinkedPhases, idle
  <1>5. PrepareInv'
    BY <1>1, <1>2, <1>3 DEF PrepareInv, Loading, Parsing, Linking, LinkedPhases
  <1>6. WalkInv'
    BY <1>2, <1>3, IdleWalk
  <1> QED
    BY <1>4, <1>5, <1>6 DEF IInv

LEMMA ParseEntryIInv ==
    ASSUME IInv, parseEntry
    PROVE  IInv'
  <1> DEFINE re == Parse(entries[at].restr)
             new == IF re = NoRegex THEN {} ELSE computeDeps(at, re)
  <1>1. /\ pc = "parse" /\ pc' = "parse" /\ at \in 1 .. Len(entries) /\ at' = at + 1
        /\ UNCHANGED <<sinfo, entries, depmap>>
        /\ deps' = Append(deps, new)
        /\ parsed' = (IF re = NoRegex THEN parsed ELSE put(parsed, at, re))
    BY DEF IInv, PrepareInv, Parsing, parseEntry
  <1>2. /\ errors' \in Seq(Reports)
        /\ errors' = <<>> => errors = <<>> /\ re # NoRegex
    <2>1. errors \in Seq(Reports) /\ at \in Nat
      BY <1>1 DEF IInv, TypeInv
    <2>2. CASE errors' = errors /\ re # NoRegex
      BY <2>1, <2>2
    <2>3. ASSUME NEW k \in {"parse", "dependencies"},
                 errors' = Append(errors, [kind |-> k, entry |-> at])
          PROVE  errors' \in Seq(Reports) /\ errors' # <<>>
      <3>1. k \in Kinds
        BY DEF Kinds
      <3> QED
        BY <2>1, <2>3, <3>1, ReportAdded
    <2>4. \/ errors' = errors /\ re # NoRegex
          \/ \E k \in {"parse", "dependencies"} :
                errors' = Append(errors, [kind |-> k, entry |-> at])
      BY DEF parseEntry
    <2> QED
      BY <2>2, <2>3, <2>4
  <1>3. idle /\ idle'
    BY StaysIdle DEF prepare, IInv
  <1>4. Len(deps') = Len(deps) + 1 /\ DOMAIN deps' = 1 .. Len(deps')
    BY <1>1 DEF IInv, TypeInv
  <1>5. /\ DOMAIN parsed' \subseteq 1 .. at
        /\ errors' = <<>> => DOMAIN parsed' = 1 .. at
    <2>1. CASE re = NoRegex
      BY <1>1, <1>2, <2>1 DEF IInv, PrepareInv, Parsing, TypeInv
    <2>2. CASE re # NoRegex
      <3>1. DOMAIN parsed' = DOMAIN parsed \cup {at}
        BY <1>1, <2>2 DEF put
      <3>2. errors' = <<>> => errors = <<>>
        BY <1>2
      <3> QED
        <4>1. /\ DOMAIN parsed \subseteq 1 .. at - 1
              /\ errors = <<>> => DOMAIN parsed = 1 .. at - 1
          BY <1>1 DEF IInv, PrepareInv, Parsing
        <4>2. at \in Nat /\ 1 .. at = (1 .. at - 1) \cup {at}
          BY <1>1 DEF IInv, TypeInv
        <4> QED
          BY <3>1, <3>2, <4>1, <4>2
    <2> QED
      BY <2>1, <2>2
  <1> HIDE DEF re, new
  <1>6. TypeInv'
    BY <1>1, <1>2, <1>3, <1>4, <1>5 DEF IInv, TypeInv, TypeOK, Phases, LinkedPhases, idle, Indexes
  <1>7. PrepareInv'
    BY <1>1, <1>3, <1>4, <1>5 DEF IInv, PrepareInv, Loading, Parsing, Linking, LinkedPhases
  <1> QED
    BY <1>1, <1>3, <1>6, <1>7, IdleWalk DEF IInv

LEMMA AllParsedIInv ==
    ASSUME IInv, allParsed
    PROVE  IInv'
  <1>1. /\ pc = "parse" /\ pc' = "link" /\ at' = 0 /\ todo' = {} /\ at > Len(entries)
        /\ UNCHANGED <<sinfo, nsmap, entries, parsed, deps, depmap, errors>>
    BY DEF allParsed
  <1>2. idle /\ idle'
    BY StaysIdle DEF prepare, IInv
  <1>3. at = Len(entries) + 1 /\ Len(deps) = Len(entries)
    BY <1>1 DEF IInv, TypeInv, PrepareInv, Parsing
  <1>4. TypeInv'
    BY <1>1, <1>2 DEF IInv, TypeInv, TypeOK, Phases, LinkedPhases, idle, Indexes
  <1>5. PrepareInv'
    BY <1>1, <1>2, <1>3 DEF IInv, TypeInv, PrepareInv, Loading, Parsing, Linking, LinkedPhases, Indexes, fullname
  <1> QED
    BY <1>1, <1>2, <1>4, <1>5, IdleWalk DEF IInv

(* The least index with a property is one with it. *)
LEMMA LeastIndex ==
    ASSUME NEW S \in SUBSET Nat, S # {}
    PROVE  \E i \in S : \A j \in S : i <= j
  <1>1. PICK i \in S : \A j \in S : ~(<<j, i>> \in OpToRel(<, Nat))
    BY NatLessThanWellFounded, WFMin
  <1>2. \A j \in S : ~(j < i)
    BY <1>1, Zenon DEF OpToRel
  <1> QED
    BY <1>2

LEMMA FindEntry ==
    ASSUME TypeInv, NEW n, entriesNamed(n) # {}
    PROVE  findEntry(n) \in Indexes /\ fullname(findEntry(n)) = n
  <1>1. entriesNamed(n) \in SUBSET Nat
    BY DEF TypeInv, entriesNamed, Indexes
  <1>2. PICK i \in entriesNamed(n) : \A j \in entriesNamed(n) : i <= j
    BY <1>1, LeastIndex
  <1> QED
    BY <1>2 DEF findEntry, firstWith, entriesNamed, Indexes, fullname

LEMMA LinkEntryIInv ==
    ASSUME IInv, linkEntry
    PROVE  IInv'
  <1>1. /\ pc = "link" /\ pc' = "link" /\ at' = at + 1 /\ todo' = deps[at + 1] /\ at < Len(entries)
        /\ UNCHANGED <<sinfo, nsmap, entries, parsed, deps, errors>>
        /\ depmap' = IF fullname(at + 1) \in DOMAIN depmap THEN depmap
                     ELSE put(depmap, fullname(at + 1), <<>>)
    BY DEF linkEntry
  <1>2. idle /\ idle'
    BY StaysIdle DEF prepare, IInv
  <1>3. at \in 0 .. Len(entries) /\ Len(entries) \in Nat /\ Indexes' = Indexes
    BY <1>1 DEF IInv, TypeInv, PrepareInv, Linking, Indexes
  <1>4. DOMAIN depmap' = DOMAIN depmap \cup {fullname(at + 1)}
    BY <1>1 DEF put
  <1>5. \A n \in DOMAIN depmap' : depmap'[n] \in Seq(Indexes)
    <2>1. \A n \in DOMAIN depmap : depmap[n] \in Seq(Indexes)
      BY DEF IInv, TypeInv, TypeOK
    <2>2. <<>> \in Seq(Indexes)
      BY EmptySeq
    <2> QED
      BY <1>1, <2>1, <2>2 DEF put
  <1>6. TypeInv'
    BY <1>1, <1>2, <1>3, <1>5 DEF IInv, TypeInv, TypeOK, Phases, LinkedPhases, idle
  <1>7. DOMAIN depmap' = {fullname(i) : i \in 1 .. at + 1}
    BY <1>1, <1>3, <1>4 DEF IInv, PrepareInv, Linking
  <1>8. PrepareInv'
    BY <1>1, <1>2, <1>3, <1>7 DEF IInv, PrepareInv, Loading, Parsing, Linking, LinkedPhases, fullname
  <1> QED
    BY <1>1, <1>2, <1>6, <1>8, IdleWalk DEF IInv

LEMMA LinkDependencyIInv ==
    ASSUME IInv, linkDependency
    PROVE  IInv'
  <1>1. PICK dep \in todo :
            /\ todo' = todo \ {dep}
            /\ \/ LET rdep == remapName(entries[at].ns, dep)
                  IN  /\ entriesNamed(rdep) # {}
                      /\ depmap' = [depmap EXCEPT ![fullname(at)] = Append(@, findEntry(rdep))]
                      /\ errors' = errors
               \/ /\ errors' = Append(errors, [kind |-> "dependency", entry |-> at])
                  /\ depmap' = depmap
    BY DEF linkDependency
  <1>2. /\ pc = "link" /\ pc' = "link" /\ at' = at
        /\ UNCHANGED <<sinfo, nsmap, entries, parsed, deps>>
    BY DEF linkDependency
  <1>3. idle /\ idle'
    BY StaysIdle DEF prepare, IInv
  <1>4. at \in Nat /\ Len(entries) \in Nat /\ Indexes' = Indexes /\ errors \in Seq(Reports)
    BY <1>2 DEF IInv, TypeInv, PrepareInv, Linking, Indexes
  <1>5. /\ DOMAIN depmap' = DOMAIN depmap
        /\ \A n \in DOMAIN depmap' : depmap'[n] \in Seq(Indexes)
    <2>1. \A n \in DOMAIN depmap : depmap[n] \in Seq(Indexes)
      BY DEF IInv, TypeInv, TypeOK
    <2>2. CASE depmap' = depmap
      BY <2>1, <2>2
    <2>3. ASSUME NEW e \in Indexes, depmap' = [depmap EXCEPT ![fullname(at)] = Append(@, e)]
          PROVE  /\ DOMAIN depmap' = DOMAIN depmap
                 /\ \A n \in DOMAIN depmap' : depmap'[n] \in Seq(Indexes)
      BY <2>1, <2>3, AppendProperties
    <2> QED
      BY <1>1, <2>2, <2>3, FindEntry DEF IInv
  <1>6. errors' \in Seq(Reports) /\ (errors' = <<>> => errors = <<>>)
    <2>1. "dependency" \in Kinds
      BY DEF Kinds
    <2> QED
      BY <1>1, <1>4, <2>1, ReportAdded
  <1>7. TypeInv'
    BY <1>2, <1>3, <1>4, <1>5, <1>6 DEF IInv, TypeInv, TypeOK, Phases, LinkedPhases, idle
  <1>8. PrepareInv'
    BY <1>1, <1>2, <1>3, <1>4, <1>5, <1>6
       DEF IInv, PrepareInv, Loading, Parsing, Linking, LinkedPhases, fullname
  <1> QED
    BY <1>2, <1>3, <1>7, <1>8, IdleWalk DEF IInv

LEMMA AllLinkedIInv ==
    ASSUME IInv, allLinked
    PROVE  IInv'
  <1>1. /\ pc = "link" /\ pc' = (IF errors = <<>> THEN "compile" ELSE "refused")
        /\ at = Len(entries) /\ at' = 0
        /\ UNCHANGED <<sinfo, nsmap, entries, parsed, deps, depmap, errors, todo>>
    BY DEF allLinked
  <1>2. idle /\ idle'
    BY StaysIdle DEF prepare, IInv
  <1>3. /\ Len(deps) = Len(entries) /\ Indexes' = Indexes
        /\ errors = <<>> => DOMAIN parsed = Indexes
        /\ DOMAIN depmap = {fullname(i) : i \in Indexes}
    BY <1>1 DEF IInv, TypeInv, PrepareInv, Linking, Indexes
  <1>4. TypeInv'
    BY <1>1, <1>2, <1>3 DEF IInv, TypeInv, TypeOK, Phases, LinkedPhases, idle, fullname
  <1>5. PrepareInv'
    BY <1>1, <1>2, <1>3 DEF IInv, TypeInv, PrepareInv, Loading, Parsing, Linking, LinkedPhases
  <1>6. WalkInv'
    BY <1>1, <1>2 DEF idle, WalkInv, PendingIsAPath, CallsAreDependencies, AnswersAreBuilt,
         LoopIsAt, DependenciesAreBuilt, NamesAreBuilt, DependenciesAreNamed,
         FailuresHaveCauses, LinkedPhases
  <1> QED
    BY <1>4, <1>5, <1>6 DEF IInv

-----------------------------------------------------------------------------
(* The walk.  What does not change in it, and the three ways the stack     *)
(* does.                                                                   *)

walking == processEntry \/ processSystemReturns \/ processRERecursive

LEMMA WalkKeepsLinks ==
    ASSUME walking
    PROVE  /\ pc = "compile"
           /\ UNCHANGED <<sinfo, nsmap, entries, parsed, deps, depmap, todo>>
           /\ UNCHANGED <<Indexes, SomeUnloadable>>
           /\ \A e : fullname(e)' = fullname(e) /\ depsOf(e)' = depsOf(e)
  <1>1. /\ pc = "compile"
        /\ UNCHANGED <<sinfo, nsmap, entries, parsed, deps, depmap, todo>>
    BY DEF walking, processEntry, processSystemReturns, processRERecursive, linked,
           alreadyCompiled, detectCycle, enter, inCall, callDependency, dependencyReturns,
           allDependencies, dependenciesFailed, compileFails, compileEntry
  <1> QED
    BY <1>1 DEF Indexes, SomeUnloadable, fullname, depsOf

LEMMA PrepareInvWalk ==
    ASSUME IInv, walking, pc' \in LinkedPhases, at' <= Len(entries)
    PROVE  PrepareInv'
  BY WalkKeepsLinks DEF IInv, PrepareInv, Loading, Parsing, Linking, LinkedPhases

(* The facts about the links that the walk uses. *)
LEMMA LinksAreTyped ==
    ASSUME TypeInv, pc = "compile"
    PROVE  /\ Len(entries) \in Nat /\ Indexes = 1 .. Len(entries)
           /\ DOMAIN parsed = Indexes
           /\ \A e \in Indexes : /\ depsOf(e) \in Seq(Indexes) /\ Len(depsOf(e)) \in Nat
                                 /\ DOMAIN depsOf(e) = 1 .. Len(depsOf(e))
                                 /\ \A k \in 1 .. Len(depsOf(e)) : depsOf(e)[k] \in Indexes
  <1>1. \A e \in Indexes : depsOf(e) \in Seq(Indexes)
    BY DEF TypeInv, TypeOK, LinkedPhases, depsOf
  <1> QED
    BY <1>1, LenProperties, ElementOfSeq DEF TypeInv, TypeOK, LinkedPhases

LEMMA StackIsTyped ==
    ASSUME TypeInv
    PROVE  /\ Len(stack) \in Nat /\ DOMAIN stack = 1 .. Len(stack)
           /\ \A i \in 1 .. Len(stack) : stack[i] \in Frames /\ FrameOK(stack[i])
           /\ stack # <<>> => Len(stack) \in 1 .. Len(stack)
           /\ stack = <<>> => Len(stack) = 0
  BY LenProperties, ElementOfSeq, EmptySeq DEF TypeInv, TypeOK

LEMMA Pushed ==
    ASSUME TypeInv, NEW f \in Frames, stack' = Append(stack, f)
    PROVE  /\ stack' \in Seq(Frames) /\ stack' # <<>>
           /\ Len(stack') = Len(stack) + 1 /\ DOMAIN stack' = 1 .. Len(stack) + 1
           /\ stack'[Len(stack) + 1] = f
           /\ \A i \in 1 .. Len(stack) : stack'[i] = stack[i]
  BY AppendProperties, LenProperties DEF TypeInv

LEMMA Popped ==
    ASSUME TypeInv, stack # <<>>, pop
    PROVE  /\ stack' \in Seq(Frames)
           /\ Len(stack') = Len(stack) - 1 /\ DOMAIN stack' = 1 .. Len(stack) - 1
           /\ \A i \in 1 .. Len(stack) - 1 : stack'[i] = stack[i]
           /\ stack' = <<>> <=> Len(stack) = 1
  <1>1. Len(stack) \in Nat \ {0} /\ \A i \in 1 .. Len(stack) : stack[i] \in Frames
    BY StackIsTyped
  <1>2. /\ stack' \in Seq(Frames)
        /\ Len(stack') = Len(stack) - 1
        /\ \A i \in 1 .. Len(stack) - 1 : stack'[i] = stack[i]
    <2> DEFINE n == Len(stack) - 1
    <2>1. n \in Nat /\ \A i \in 1 .. n : stack[i] \in Frames
      BY <1>1
    <2> HIDE DEF n
    <2>2. /\ SubSeq(stack, 1, n) \in Seq(Frames)
          /\ Len(SubSeq(stack, 1, n)) = IF 1 <= n THEN n - 1 + 1 ELSE 0
          /\ \A i \in 1 .. n - 1 + 1 : SubSeq(stack, 1, n)[i] = stack[1 + i - 1]
      BY <2>1, SubSeqProperties
    <2>3. /\ Len(SubSeq(stack, 1, n)) = n
          /\ \A i \in 1 .. n : SubSeq(stack, 1, n)[i] = stack[i]
      BY <2>1, <2>2
    <2>4. stack' = SubSeq(stack, 1, n)
      BY DEF pop, n
    <2> QED
      BY <2>2, <2>3, <2>4 DEF n
  <1> QED
    BY <1>1, <1>2, LenProperties, EmptySeq

LEMMA LastReplaced ==
    ASSUME NEW s \in Seq(Frames), s # <<>>, NEW f \in Frames
    PROVE  LET t == [s EXCEPT ![Len(s)] = f]
           IN  /\ t \in Seq(Frames) /\ t # <<>>
               /\ Len(t) = Len(s) /\ DOMAIN t = 1 .. Len(s)
               /\ \A i \in 1 .. Len(s) - 1 : t[i] = s[i]
               /\ t[Len(t)] = f
  <1>1. Len(s) \in Nat \ {0} /\ Len(s) \in 1 .. Len(s)
    BY EmptySeq, LenProperties
  <1>2. /\ [s EXCEPT ![Len(s)] = f] \in Seq(Frames)
        /\ Len([s EXCEPT ![Len(s)] = f]) = Len(s)
        /\ \A j \in 1 .. Len(s) :
              [s EXCEPT ![Len(s)] = f][j] = IF j = Len(s) THEN f ELSE s[j]
    BY <1>1, ExceptSeq
  <1> DEFINE t == [s EXCEPT ![Len(s)] = f]
  <1> HIDE DEF t
  <1>3. /\ t \in Seq(Frames) /\ Len(t) = Len(s)
        /\ \A j \in 1 .. Len(s) : t[j] = IF j = Len(s) THEN f ELSE s[j]
    BY <1>2 DEF t
  <1>4. t # <<>> /\ DOMAIN t = 1 .. Len(s)
    BY <1>1, <1>3, EmptySeq, LenProperties
  <1>5. t[Len(t)] = f /\ \A i \in 1 .. Len(s) - 1 : t[i] = s[i]
    BY <1>1, <1>3
  <1> QED
    BY <1>3, <1>4, <1>5 DEF t

LEMMA Advanced ==
    ASSUME TypeInv, stack # <<>>, NEW ok \in BOOLEAN,
           stack' = [stack EXCEPT ![Len(stack)] = advanced(@, ok)]
    PROVE  /\ stack' \in Seq(Frames) /\ stack' # <<>>
           /\ Len(stack') = Len(stack) /\ DOMAIN stack' = 1 .. Len(stack)
           /\ \A i \in 1 .. Len(stack) - 1 : stack'[i] = stack[i]
           /\ top' = advanced(top, ok)
  <1>1. /\ stack \in Seq(Frames) /\ top \in Frames
    BY StackIsTyped DEF TypeInv, top
  <1>2. advanced(top, ok) \in Frames
    BY <1>1 DEF Frames, advanced
  <1>3. stack' = [stack EXCEPT ![Len(stack)] = advanced(top, ok)]
    BY DEF top
  <1> QED
    BY <1>1, <1>2, <1>3, LastReplaced DEF top

LEMMA WalkState ==
    ASSUME IInv, pc = "compile"
    PROVE  /\ Len(entries) \in Nat /\ Indexes = 1 .. Len(entries) /\ 0 \notin Indexes
           /\ at \in 0 .. Len(entries) /\ callee \in Indexes \cup {0}
           /\ built \subseteq Indexes /\ DOMAIN parsed = Indexes
           /\ result \in {"none", "ok", "failed"}
           /\ errors \in Seq(Reports) /\ stack \in Seq(Frames)
           /\ \A i \in DOMAIN stack : FrameOK(stack[i])
  BY DEF IInv, TypeInv, TypeOK, PrepareInv, LinkedPhases

(* What is left to show of a step of the walk: types and phases follow     *)
(* from those of what it changes.                                          *)
LEMMA WalkTypeInv ==
    ASSUME IInv, walking,
           pc' \in LinkedPhases, at' \in 0 .. Len(entries), result' \in {"none", "ok", "failed"},
           callee' \in Indexes \cup {0}, built' \subseteq Indexes,
           errors' \in Seq(Reports), stack' \in Seq(Frames),
           \A i \in DOMAIN stack' : FrameOK(stack'[i])
    PROVE  TypeInv' /\ PrepareInv'
  <1>1. /\ pc = "compile" /\ Indexes' = Indexes
        /\ UNCHANGED <<sinfo, entries, parsed, deps, depmap>>
        /\ \A e : fullname(e)' = fullname(e) /\ depsOf(e)' = depsOf(e)
    BY WalkKeepsLinks
  <1>2. (\A i \in DOMAIN stack : FrameOK(stack[i]))'
    BY <1>1 DEF FrameOK
  <1>3. at' \in Nat /\ at' <= Len(entries)
    BY DEF IInv, TypeInv
  <1>4. TypeOK'
    <2>1. pc' \in Phases
      BY DEF LinkedPhases, Phases
    <2>2. DOMAIN parsed = Indexes /\ \A i \in Indexes : fullname(i) \in DOMAIN depmap
      BY <1>1 DEF IInv, TypeInv, TypeOK, LinkedPhases
    <2>3. \A n \in DOMAIN depmap : depmap[n] \in Seq(Indexes)
      BY DEF IInv, TypeInv, TypeOK
    <2>4. at' <= Len(entries') + 1
      BY <1>1, <1>3 DEF IInv, TypeInv
    <2> QED
      BY <1>1, <1>2, <1>3, <2>1, <2>2, <2>3, <2>4 DEF TypeOK
  <1>5. TypeInv'
    BY <1>1, <1>4 DEF IInv, TypeInv
  <1>6. PrepareInv'
    BY <1>3, PrepareInvWalk
  <1> QED
    BY <1>5, <1>6

LEMMA ProcessEntryIInv ==
    ASSUME IInv, processEntry
    PROVE  IInv'
  <1>1. /\ pc = "compile" /\ pc' = "compile" /\ stack = <<>> /\ stack' = <<>> /\ callee = 0
        /\ result # "failed" /\ at < Len(entries) /\ at' = at + 1 /\ callee' = at + 1
        /\ result' = "none"
        /\ UNCHANGED <<named, executors, errors>>
    BY DEF processEntry
  <1>2. walking
    BY DEF walking
  <1>3. /\ Indexes' = Indexes /\ Indexes = 1 .. Len(entries) /\ Len(entries) \in Nat
        /\ at \in Nat /\ built' = built /\ parsed' = parsed
        /\ \A e : fullname(e)' = fullname(e)
    BY <1>1, <1>2, WalkKeepsLinks DEF IInv, TypeInv, TypeOK, built
  <1>4. TypeInv' /\ PrepareInv'
    BY <1>1, <1>2, <1>3, WalkTypeInv DEF LinkedPhases, IInv, TypeInv, TypeOK
  <1>5. at > 0 => at \in built
    <2>1. at > 0 => result # "none"
      BY <1>1 DEF IInv, WalkInv, LoopIsAt, LinkedPhases
    <2>2. result \in {"none", "ok", "failed"}
      BY DEF IInv, TypeInv, TypeOK
    <2> QED
      BY <1>1, <2>1, <2>2 DEF IInv, WalkInv, AnswersAreBuilt, subject
  <1>6. LoopIsAt'
    <2>1. 1 .. at - 1 \subseteq built
      BY <1>1 DEF IInv, WalkInv, LoopIsAt, LinkedPhases
    <2>2. 1 .. at' - 1 \subseteq built'
      BY <1>1, <1>3, <1>5, <2>1
    <2> QED
      BY <1>1, <1>3, <2>2 DEF LoopIsAt
  <1>7. CallsAreDependencies' /\ AnswersAreBuilt' /\ FailuresHaveCauses'
    BY <1>1 DEF CallsAreDependencies, AnswersAreBuilt, FailuresHaveCauses, subject
  <1>8. PendingIsAPath' /\ DependenciesAreBuilt' /\ DependenciesAreNamed'
    BY <1>1 DEF PendingIsAPath, DependenciesAreBuilt, DependenciesAreNamed
  <1>9. NamesAreBuilt'
    BY <1>1, <1>3 DEF IInv, WalkInv, NamesAreBuilt
  <1> QED
    BY <1>4, <1>6, <1>7, <1>8, <1>9 DEF IInv, WalkInv

LEMMA ProcessSystemReturnsIInv ==
    ASSUME IInv, processSystemReturns
    PROVE  IInv'
  <1>1. /\ pc = "compile" /\ stack = <<>> /\ callee = 0
        /\ \/ result = "failed" /\ pc' = "stopped"
           \/ result # "failed" /\ at = Len(entries) /\ pc' = "finished"
        /\ UNCHANGED <<named, executors, errors, at, stack, callee, result>>
    BY DEF processSystemReturns
  <1>2. walking
    BY DEF walking
  <1>3. /\ Indexes' = Indexes /\ Indexes = 1 .. Len(entries) /\ Len(entries) \in Nat
        /\ at \in 0 .. Len(entries) /\ built' = built /\ parsed' = parsed /\ built \subseteq Indexes
        /\ result \in {"none", "ok", "failed"} /\ SomeUnloadable' = SomeUnloadable
        /\ \A e : fullname(e)' = fullname(e)
    <2>1. built' = built
      BY <1>1 DEF built
    <2> QED
      BY <1>1, <1>2, <2>1, WalkKeepsLinks, WalkState
  <1>4. TypeInv' /\ PrepareInv'
    BY <1>1, <1>2, <1>3, WalkTypeInv DEF LinkedPhases, IInv, TypeInv, TypeOK
  <1>5. 1 .. at - 1 \subseteq built /\ (at > 0 => result # "none")
    BY <1>1 DEF IInv, WalkInv, LoopIsAt, LinkedPhases
  <1>6. LoopIsAt'
    <2>1. CASE result = "failed"
      BY <1>1, <1>3, <1>5, <2>1 DEF LoopIsAt
    <2>2. CASE result # "failed" /\ at = Len(entries)
      <3>1. at > 0 => at \in built
        BY <1>1, <1>3, <1>5, <2>2 DEF IInv, WalkInv, AnswersAreBuilt, subject
      <3>2. 1 .. Len(entries) \subseteq built
        BY <1>3, <1>5, <2>2, <3>1
      <3> QED
        BY <1>1, <1>3, <1>5, <2>2, <3>2 DEF LoopIsAt
    <2> QED
      BY <1>1, <2>1, <2>2
  <1>7. CallsAreDependencies' /\ AnswersAreBuilt'
    BY <1>1, <1>3 DEF IInv, WalkInv, CallsAreDependencies, AnswersAreBuilt, subject
  <1>8. PendingIsAPath' /\ DependenciesAreBuilt' /\ DependenciesAreNamed'
    BY <1>1 DEF PendingIsAPath, DependenciesAreBuilt, DependenciesAreNamed
  <1>9. NamesAreBuilt' /\ FailuresHaveCauses'
    BY <1>1, <1>3 DEF IInv, WalkInv, NamesAreBuilt, FailuresHaveCauses
  <1> QED
    BY <1>4, <1>6, <1>7, <1>8, <1>9 DEF IInv, WalkInv

(* The links, seen from a step of the walk. *)
LEMMA SameLinks ==
    ASSUME walking
    PROVE  /\ Indexes' = Indexes /\ parsed' = parsed /\ SomeUnloadable' = SomeUnloadable
           /\ \A e : fullname(e)' = fullname(e) /\ depsOf(e)' = depsOf(e)
  BY WalkKeepsLinks

(* A step that touches neither the stack nor what is compiled or named. *)
LEMMA SameStack ==
    ASSUME IInv, walking, UNCHANGED <<named, executors, stack>>
    PROVE  /\ built' = built
           /\ PendingIsAPath' /\ DependenciesAreBuilt' /\ DependenciesAreNamed'
           /\ NamesAreBuilt'
  <1>1. built' = built
    BY DEF built
  <1>2. PendingIsAPath'
    BY <1>1, SameLinks DEF IInv, WalkInv, PendingIsAPath
  <1>3. DependenciesAreBuilt' /\ DependenciesAreNamed'
    BY <1>1, SameLinks DEF IInv, WalkInv, DependenciesAreBuilt, DependenciesAreNamed
  <1>4. NamesAreBuilt'
    BY <1>1, SameLinks DEF IInv, WalkInv, NamesAreBuilt
  <1> QED
    BY <1>1, <1>2, <1>3, <1>4

LEMMA AlreadyCompiledIInv ==
    ASSUME IInv, alreadyCompiled
    PROVE  IInv'
  <1>1. /\ pc = "compile" /\ callee \in built /\ callee' = 0 /\ result' = "ok"
        /\ UNCHANGED <<named, executors, errors, pc, at, stack>>
    BY DEF alreadyCompiled, answer
  <1>2. walking
    BY DEF walking, processRERecursive
  <1>3. /\ built' = built
        /\ PendingIsAPath' /\ DependenciesAreBuilt' /\ DependenciesAreNamed'
        /\ NamesAreBuilt'
    BY <1>1, <1>2, SameStack
  <1>4. TypeInv' /\ PrepareInv'
    BY <1>1, <1>2, <1>3, WalkState, WalkTypeInv DEF LinkedPhases
  <1>5. subject' = subject
    BY <1>1, <1>2, SameLinks DEF subject, top
  <1>6. callee = subject /\ callee # 0
    BY <1>1, WalkState DEF IInv, WalkInv, CallsAreDependencies
  <1>7. CallsAreDependencies' /\ AnswersAreBuilt'
    BY <1>1, <1>2, <1>3, <1>5, <1>6, SameLinks
       DEF IInv, WalkInv, CallsAreDependencies, AnswersAreBuilt, top
  <1>8. LoopIsAt'
    BY <1>1, <1>3 DEF IInv, WalkInv, LoopIsAt, LinkedPhases
  <1>9. FailuresHaveCauses'
    BY <1>1, <1>2, <1>3, SameLinks DEF IInv, WalkInv, FailuresHaveCauses
  <1> QED
    BY <1>3, <1>4, <1>7, <1>8, <1>9 DEF IInv, WalkInv

LEMMA DetectCycleIInv ==
    ASSUME IInv, detectCycle
    PROVE  IInv'
  <1>1. /\ pc = "compile" /\ callee # 0 /\ callee' = 0 /\ result' = "failed"
        /\ errors' = Append(errors, [kind |-> "cycle", entry |-> callee])
        /\ UNCHANGED <<named, executors, pc, at, stack>>
    BY DEF detectCycle, answer
  <1>2. walking
    BY DEF walking, processRERecursive
  <1>3. /\ built' = built
        /\ PendingIsAPath' /\ DependenciesAreBuilt' /\ DependenciesAreNamed'
        /\ NamesAreBuilt'
    BY <1>1, <1>2, SameStack
  <1>4. errors' \in Seq(Reports) /\ errors' # <<>>
    <2>1. "cycle" \in Kinds /\ callee \in Nat
      BY <1>1, WalkState DEF Kinds
    <2> QED
      BY <1>1, <2>1, WalkState, ReportAdded
  <1>5. TypeInv' /\ PrepareInv'
    BY <1>1, <1>2, <1>3, <1>4, WalkState, WalkTypeInv DEF LinkedPhases
  <1>6. CallsAreDependencies' /\ AnswersAreBuilt'
    BY <1>1, <1>2, <1>3, SameLinks
       DEF IInv, WalkInv, CallsAreDependencies, AnswersAreBuilt, top
  <1>7. LoopIsAt'
    BY <1>1, <1>3 DEF IInv, WalkInv, LoopIsAt, LinkedPhases
  <1>8. FailuresHaveCauses'
    BY <1>1, <1>2, <1>3, <1>4, SameLinks DEF IInv, WalkInv, FailuresHaveCauses
  <1> QED
    BY <1>3, <1>5, <1>6, <1>7, <1>8 DEF IInv, WalkInv

LEMMA CallDependencyIInv ==
    ASSUME IInv, callDependency
    PROVE  IInv'
  <1>1. /\ pc = "compile" /\ stack # <<>> /\ callee = 0 /\ result = "none"
        /\ top.next <= Len(depsOf(top.entry)) /\ callee' = depsOf(top.entry)[top.next]
        /\ UNCHANGED <<named, executors, errors, pc, at, stack, result>>
    BY DEF callDependency, inCall
  <1>2. walking
    BY DEF walking, processRERecursive
  <1>3. /\ built' = built
        /\ PendingIsAPath' /\ DependenciesAreBuilt' /\ DependenciesAreNamed'
        /\ NamesAreBuilt'
    BY <1>1, <1>2, SameStack
  <1>4. callee' \in Indexes
    <2>1. FrameOK(top)
      BY <1>1, StackIsTyped DEF IInv, top
    <2> QED
      BY <1>1, <2>1, LinksAreTyped DEF IInv, FrameOK
  <1>5. TypeInv' /\ PrepareInv'
    BY <1>1, <1>2, <1>3, <1>4, WalkState, WalkTypeInv DEF LinkedPhases
  <1>6. CallsAreDependencies' /\ AnswersAreBuilt'
    BY <1>1, <1>2, <1>3, SameLinks
       DEF IInv, WalkInv, CallsAreDependencies, AnswersAreBuilt, subject, top
  <1>7. LoopIsAt'
    BY <1>1, <1>3 DEF IInv, WalkInv, LoopIsAt, LinkedPhases
  <1>8. FailuresHaveCauses'
    BY <1>1, <1>2, <1>3, SameLinks DEF IInv, WalkInv, FailuresHaveCauses
  <1> QED
    BY <1>3, <1>5, <1>6, <1>7, <1>8 DEF IInv, WalkInv

LEMMA EnterIInv ==
    ASSUME IInv, enter
    PROVE  IInv'
  <1> DEFINE f == [entry |-> callee, next |-> 1, recok |-> TRUE]
  <1>1. /\ pc = "compile" /\ callee # 0 /\ callee \notin built /\ fullname(callee) \notin pending
        /\ stack' = Append(stack, f) /\ callee' = 0 /\ result' = "none"
        /\ UNCHANGED <<named, executors, errors, pc, at>>
    BY DEF enter, answer
  <1>2. walking
    BY DEF walking, processRERecursive
  <1>3. built' = built
    BY <1>1 DEF built
  <1>4. callee \in Indexes /\ callee \in Nat /\ f \in Frames
    BY <1>1, WalkState DEF Frames
  <1>5. /\ stack' \in Seq(Frames) /\ stack' # <<>>
        /\ Len(stack') = Len(stack) + 1 /\ DOMAIN stack' = 1 .. Len(stack) + 1
        /\ stack'[Len(stack) + 1] = f
        /\ \A i \in 1 .. Len(stack) : stack'[i] = stack[i]
    BY <1>1, <1>4, Pushed DEF IInv
  <1>6. /\ Len(stack) \in Nat /\ DOMAIN stack = 1 .. Len(stack)
        /\ stack = <<>> <=> Len(stack) = 0
    BY StackIsTyped DEF IInv
  <1>7. FrameOK(f)
    BY <1>1, <1>4, LinksAreTyped DEF IInv, FrameOK
  <1>8. f.entry = callee /\ f.next = 1 /\ f.recok = TRUE
    OBVIOUS
  <1> HIDE DEF f
  <1>9. TypeInv' /\ PrepareInv'
    <2>1. \A i \in DOMAIN stack' : FrameOK(stack'[i])
      BY <1>1, <1>5, <1>6, <1>7, WalkState
    <2> QED
      BY <1>1, <1>2, <1>3, <1>5, <2>1, WalkState, WalkTypeInv DEF LinkedPhases
  <1>10. callee = subject
    BY <1>1 DEF IInv, WalkInv, CallsAreDependencies
  <1>11. PendingIsAPath'
    <2>1. ASSUME NEW i \in 1 .. Len(stack) + 1
          PROVE  stack'[i].entry \notin built
      BY <1>1, <1>5, <1>6, <1>8, <2>1 DEF IInv, WalkInv, PendingIsAPath
    <2>2. ASSUME NEW i \in 1 .. Len(stack) + 1, NEW j \in 1 .. Len(stack) + 1,
                 fullname(stack'[i].entry) = fullname(stack'[j].entry)
          PROVE  i = j
      <3>1. \A k \in 1 .. Len(stack) : fullname(stack[k].entry) # fullname(callee)
        BY <1>1, <1>6 DEF pending
      <3> QED
        BY <1>5, <1>6, <1>8, <2>2, <3>1 DEF IInv, WalkInv, PendingIsAPath
    <2>3. ASSUME NEW i \in 1 .. Len(stack)
          PROVE  /\ stack'[i].next <= Len(depsOf(stack'[i].entry))
                 /\ depsOf(stack'[i].entry)[stack'[i].next] = stack'[i + 1].entry
      <3>1. CASE i < Len(stack)
        BY <1>5, <1>6, <3>1 DEF IInv, WalkInv, PendingIsAPath
      <3>2. CASE i = Len(stack)
        BY <1>1, <1>5, <1>6, <1>8, <1>10, <3>2
           DEF IInv, WalkInv, CallsAreDependencies, subject, top
      <3> QED
        BY <1>6, <3>1, <3>2
    <2> QED
      BY <1>2, <1>3, <1>5, <1>6, <2>1, <2>2, <2>3, SameLinks DEF PendingIsAPath
  <1>12. CallsAreDependencies' /\ AnswersAreBuilt'
    BY <1>1 DEF CallsAreDependencies, AnswersAreBuilt
  <1>13. LoopIsAt'
    <2>1. stack'[1].entry = at
      <3>1. CASE stack = <<>>
        BY <1>5, <1>6, <1>8, <1>10, <3>1 DEF subject
      <3>2. CASE stack # <<>>
        BY <1>1, <1>5, <1>6, <3>2 DEF IInv, WalkInv, LoopIsAt, LinkedPhases
      <3> QED
        BY <3>1, <3>2
    <2> QED
      BY <1>1, <1>3, <1>5, <2>1 DEF IInv, WalkInv, LoopIsAt, LinkedPhases
  <1>14. DependenciesAreBuilt' /\ DependenciesAreNamed'
    <2>1. ASSUME NEW i \in 1 .. Len(stack) + 1, stack'[i].recok,
                 NEW k \in 1 .. stack'[i].next - 1
          PROVE  /\ depsOf(stack'[i].entry)[k] \in built
                 /\ fullname(depsOf(stack'[i].entry)[k]) \in DOMAIN named
      <3>1. CASE i \in 1 .. Len(stack)
        BY <1>5, <1>6, <2>1, <3>1
           DEF IInv, WalkInv, DependenciesAreBuilt, DependenciesAreNamed
      <3>2. CASE i = Len(stack) + 1
        BY <1>5, <1>8, <2>1, <3>2
      <3> QED
        BY <1>6, <3>1, <3>2
    <2> QED
      BY <1>1, <1>2, <1>3, <1>5, <2>1, SameLinks DEF DependenciesAreBuilt, DependenciesAreNamed
  <1>15. NamesAreBuilt'
    BY <1>1, <1>2, <1>3, SameLinks DEF IInv, WalkInv, NamesAreBuilt
  <1>16. FailuresHaveCauses'
    <2>1. (\E i \in DOMAIN stack' : ~stack'[i].recok) => \E i \in DOMAIN stack : ~stack[i].recok
      BY <1>5, <1>6, <1>8
    <2> QED
      BY <1>1, <1>2, <2>1, SameLinks DEF IInv, WalkInv, FailuresHaveCauses
  <1> QED
    BY <1>9, <1>11, <1>12, <1>13, <1>14, <1>15, <1>16 DEF IInv, WalkInv

LEMMA DependencyReturnsIInv ==
    ASSUME IInv, dependencyReturns
    PROVE  IInv'
  <1> DEFINE dep == depsOf(top.entry)[top.next]
             ok == result = "ok" /\ loadable(parsed[dep])
  <1>1. /\ pc = "compile" /\ stack # <<>> /\ callee = 0 /\ callee' = 0
        /\ result # "none" /\ result' = "none"
        /\ UNCHANGED <<executors, errors, pc, at>>
    BY DEF dependencyReturns, inCall
  <1>2. walking
    BY DEF walking, processRERecursive
  <1>3. built' = built
    BY <1>1 DEF built
  <1>4. /\ stack' \in Seq(Frames) /\ stack' # <<>>
        /\ Len(stack') = Len(stack) /\ DOMAIN stack' = 1 .. Len(stack)
        /\ \A i \in 1 .. Len(stack) - 1 : stack'[i] = stack[i]
        /\ stack'[Len(stack)].entry = top.entry
        /\ stack'[Len(stack)].next = top.next + 1
        /\ stack'[Len(stack)].recok = (top.recok /\ ok)
    <2>1. stack' = [stack EXCEPT ![Len(stack)] = advanced(@, ok)]
      BY DEF dependencyReturns
    <2>2. ok \in BOOLEAN
      OBVIOUS
    <2> HIDE DEF ok
    <2>3. /\ stack' \in Seq(Frames) /\ stack' # <<>>
          /\ Len(stack') = Len(stack) /\ DOMAIN stack' = 1 .. Len(stack)
          /\ \A i \in 1 .. Len(stack) - 1 : stack'[i] = stack[i]
          /\ top' = advanced(top, ok)
      BY <1>1, <2>1, <2>2, Advanced DEF IInv
    <2> QED
      BY <2>3 DEF top, advanced
  <1>5. IF result = "ok" THEN loadIntoNameMap(dep) ELSE named' = named
    BY DEF dependencyReturns
  <1>6. /\ Len(stack) \in Nat \ {0} /\ DOMAIN stack = 1 .. Len(stack)
        /\ top \in Frames /\ FrameOK(top) /\ top = stack[Len(stack)]
    BY <1>1, StackIsTyped DEF IInv, top
  <1>7. /\ top.entry \in Indexes /\ top.next \in Nat /\ top.next >= 1
        /\ top.next <= Len(depsOf(top.entry)) /\ Len(depsOf(top.entry)) \in Nat
        /\ DOMAIN depsOf(top.entry) = 1 .. Len(depsOf(top.entry))
    BY <1>1, <1>6, LinksAreTyped DEF IInv, WalkInv, CallsAreDependencies, FrameOK
  <1>8. dep = subject /\ (result = "ok" => dep \in built)
    BY <1>1 DEF IInv, WalkInv, AnswersAreBuilt, subject
  <1>9. /\ DOMAIN named \subseteq DOMAIN named'
        /\ ok => fullname(dep) \in DOMAIN named'
    BY <1>5 DEF loadIntoNameMap, put
  <1>10. \A n \in DOMAIN named' : \E i \in built :
            fullname(i) = n /\ named'[n] = parsed[i].re.entry.opt
    <2>1. \A n \in DOMAIN named : \E i \in built :
            fullname(i) = n /\ named[n] = parsed[i].re.entry.opt
      BY DEF IInv, WalkInv, NamesAreBuilt
    <2>2. CASE named' = named
      BY <2>1, <2>2
    <2>3. CASE result = "ok" /\ named' = put(named, fullname(dep), parsed[dep].re.entry.opt)
      BY <1>8, <2>1, <2>3 DEF put
    <2> QED
      BY <1>5, <2>2, <2>3 DEF loadIntoNameMap
  <1>11. ~ok => errors # <<>> \/ SomeUnloadable
    <2>1. CASE result = "failed"
      BY <2>1 DEF IInv, WalkInv, FailuresHaveCauses
    <2>2. CASE result = "ok" /\ ~loadable(parsed[dep])
      BY <1>7, <2>2 DEF SomeUnloadable
    <2> QED
      BY <1>1, <2>1, <2>2, WalkState
  <1> HIDE DEF ok, dep
  <1> ok \in BOOLEAN
    BY DEF ok
  <1>12. TypeInv' /\ PrepareInv'
    <2>1. FrameOK(stack'[Len(stack)])
      BY <1>4, <1>6, <1>7 DEF FrameOK, ok
    <2>2. \A i \in DOMAIN stack' : FrameOK(stack'[i])
      BY <1>1, <1>4, <1>6, <2>1, WalkState
    <2> QED
      BY <1>1, <1>2, <1>3, <1>4, <2>2, WalkState, WalkTypeInv DEF LinkedPhases
  <1>13. \A i \in 1 .. Len(stack) : stack'[i].entry = stack[i].entry
    BY <1>4, <1>6
  <1>14. PendingIsAPath'
    <2>1. ASSUME NEW i \in 1 .. Len(stack)
          PROVE  /\ stack[i].entry \notin built
                 /\ \A j \in 1 .. Len(stack) :
                       fullname(stack[i].entry) = fullname(stack[j].entry) => i = j
                 /\ i < Len(stack) =>
                       /\ stack[i].next <= Len(depsOf(stack[i].entry))
                       /\ depsOf(stack[i].entry)[stack[i].next] = stack[i + 1].entry
      BY <1>6 DEF IInv, WalkInv, PendingIsAPath
    <2>2. ASSUME NEW i \in 1 .. Len(stack), i < Len(stack)
          PROVE  stack'[i] = stack[i] /\ stack'[i + 1].entry = stack[i + 1].entry
      BY <1>4, <1>6, <1>13, <2>2
    <2> QED
      BY <1>2, <1>3, <1>4, <1>13, <2>1, <2>2, SameLinks DEF PendingIsAPath
  <1>15. CallsAreDependencies' /\ AnswersAreBuilt'
    BY <1>1 DEF CallsAreDependencies, AnswersAreBuilt
  <1>16. LoopIsAt'
    BY <1>1, <1>3, <1>4, <1>6, <1>13 DEF IInv, WalkInv, LoopIsAt, LinkedPhases
  <1>17. DependenciesAreBuilt' /\ DependenciesAreNamed'
    <2>1. ASSUME NEW i \in 1 .. Len(stack), stack'[i].recok,
                 NEW k \in 1 .. stack'[i].next - 1
          PROVE  /\ depsOf(stack'[i].entry)[k] \in built
                 /\ fullname(depsOf(stack'[i].entry)[k]) \in DOMAIN named'
      <3>1. ASSUME stack[i].recok, k \in 1 .. stack[i].next - 1
            PROVE  /\ depsOf(stack[i].entry)[k] \in built
                   /\ fullname(depsOf(stack[i].entry)[k]) \in DOMAIN named'
        BY <1>6, <1>9, <3>1 DEF IInv, WalkInv, DependenciesAreBuilt, DependenciesAreNamed
      <3>2. CASE i < Len(stack)
        BY <1>4, <1>6, <2>1, <3>1, <3>2
      <3>3. ASSUME i = Len(stack)
            PROVE  /\ stack'[i].entry = top.entry /\ stack[i] = top
                   /\ top.recok /\ ok /\ k \in 1 .. top.next
        <4>1. /\ stack'[i].entry = top.entry /\ stack[i] = top
              /\ stack'[i].next = top.next + 1
          BY <1>4, <1>6, <3>3
        <4>2. k \in 1 .. top.next
          BY <1>7, <4>1
        <4>3. top.recok /\ ok
          BY <1>4, <2>1, <3>3
        <4> QED
          BY <4>1, <4>2, <4>3
      <3>4. CASE i = Len(stack) /\ k < top.next
        <4>1. stack[i].recok /\ k \in 1 .. stack[i].next - 1
          BY <1>7, <3>3, <3>4
        <4> QED
          BY <3>1, <3>3, <3>4, <4>1
      <3>5. CASE i = Len(stack) /\ k = top.next
        BY <1>8, <1>9, <3>3, <3>5 DEF ok, dep
      <3>6. i = Len(stack) => k < top.next \/ k = top.next
        BY <1>7, <3>3
      <3> QED
        BY <1>6, <3>2, <3>4, <3>5, <3>6
    <2> QED
      BY <1>2, <1>3, <1>4, <2>1, SameLinks DEF DependenciesAreBuilt, DependenciesAreNamed
  <1>18. NamesAreBuilt'
    BY <1>2, <1>3, <1>10, SameLinks DEF NamesAreBuilt
  <1>19. FailuresHaveCauses'
    <2>1. ASSUME NEW i \in 1 .. Len(stack), ~stack'[i].recok
          PROVE  errors # <<>> \/ SomeUnloadable
      <3>1. ~stack[i].recok \/ ~ok
        BY <1>4, <1>6, <2>1
      <3> QED
        BY <1>6, <1>11, <3>1 DEF IInv, WalkInv, FailuresHaveCauses
    <2> QED
      BY <1>1, <1>2, <1>4, <2>1, SameLinks DEF FailuresHaveCauses
  <1> QED
    BY <1>12, <1>14, <1>15, <1>16, <1>17, <1>18, <1>19 DEF IInv, WalkInv

(* A call that returns: the entry it was about is answered for. *)
LEMMA PopIInv ==
    ASSUME IInv, walking, allDependencies, pop, callee' = 0,
           UNCHANGED <<pc, at, named>>, errors' \in Seq(Reports),
           \/ /\ result' = "failed" /\ built' = built
              /\ errors' # <<>> \/ (errors' = errors /\ SomeUnloadable)
           \/ result' = "ok" /\ built' = built \cup {top.entry} /\ errors' = errors
    PROVE  IInv'
  <1> DEFINE n == Len(stack) - 1
  <1>1. /\ pc = "compile" /\ stack # <<>> /\ callee = 0 /\ result = "none"
        /\ result' \in {"none", "ok", "failed"}
        /\ built' = built \/ (result' = "ok" /\ built' = built \cup {top.entry})
    BY DEF allDependencies, inCall
  <1>2. /\ stack' \in Seq(Frames)
        /\ Len(stack') = n /\ DOMAIN stack' = 1 .. n
        /\ \A i \in 1 .. n : stack'[i] = stack[i]
        /\ stack' = <<>> <=> n = 0
    <2>1. Len(stack) \in Nat
      BY StackIsTyped DEF IInv
    <2> QED
      BY <1>1, <2>1, Popped DEF IInv
  <1>3. /\ n \in Nat /\ Len(stack) = n + 1 /\ DOMAIN stack = 1 .. n + 1
        /\ top = stack[n + 1] /\ FrameOK(top) /\ top.entry \in Indexes
    BY <1>1, StackIsTyped DEF IInv, top, FrameOK
  <1> HIDE DEF n
  <1>4. ASSUME NEW i \in 1 .. n + 1
        PROVE  /\ stack[i].entry \notin built
               /\ \A j \in 1 .. n + 1 :
                     fullname(stack[i].entry) = fullname(stack[j].entry) => i = j
               /\ i \in 1 .. n =>
                     /\ stack[i].next <= Len(depsOf(stack[i].entry))
                     /\ depsOf(stack[i].entry)[stack[i].next] = stack[i + 1].entry
    BY <1>3 DEF IInv, WalkInv, PendingIsAPath
  <1>5. \A i \in 1 .. n : stack[i].entry # top.entry
    BY <1>3, <1>4
  <1>6. TypeInv' /\ PrepareInv'
    <2>1. \A i \in DOMAIN stack' : FrameOK(stack'[i])
      BY <1>1, <1>2, <1>3, WalkState
    <2>2. built' \subseteq Indexes
      BY <1>1, <1>3, WalkState
    <2> QED
      BY <1>1, <1>2, <2>1, <2>2, WalkState, WalkTypeInv DEF LinkedPhases
  <1>7. subject' = top.entry
    <2>1. CASE n = 0
      BY <1>1, <1>2, <1>3, <2>1 DEF subject, IInv, WalkInv, LoopIsAt, LinkedPhases
    <2>2. CASE n # 0
      <3>1. n \in 1 .. n /\ stack' # <<>>
        BY <1>2, <1>3, <2>2
      <3>2. top' = stack[n]
        BY <1>2, <3>1 DEF top
      <3>3. depsOf(stack[n].entry)[stack[n].next] = top.entry
        BY <1>3, <1>4, <3>1
      <3>4. \A e : depsOf(e)' = depsOf(e)
        BY SameLinks
      <3> QED
        BY <3>1, <3>2, <3>3, <3>4 DEF subject
    <2> QED
      BY <2>1, <2>2
  <1>8. PendingIsAPath'
    <2>1. \A i \in 1 .. n : stack[i].entry \notin built'
      BY <1>1, <1>3, <1>4, <1>5
    <2>2. ASSUME NEW i \in 1 .. n, i < n
          PROVE  stack'[i + 1] = stack[i + 1]
      BY <1>2, <1>3, <2>2
    <2>3. \A i \in 1 .. n : i \in 1 .. n + 1
      BY <1>3
    <2>4. ASSUME NEW i \in 1 .. n, i < n
          PROVE  /\ stack'[i].next <= Len(depsOf(stack'[i].entry))
                 /\ depsOf(stack'[i].entry)[stack'[i].next] = stack'[i + 1].entry
      BY <1>2, <1>4, <2>2, <2>3, <2>4
    <2>5. ASSUME NEW i \in 1 .. n, NEW j \in 1 .. n,
                 fullname(stack'[i].entry) = fullname(stack'[j].entry)
          PROVE  i = j
      BY <1>2, <1>4, <2>3, <2>5
    <2> QED
      BY <1>2, <2>1, <2>4, <2>5, SameLinks DEF PendingIsAPath
  <1>9. CallsAreDependencies'
    <2>1. CASE n = 0
      BY <1>2, <2>1 DEF CallsAreDependencies
    <2>2. CASE n # 0
      <3>1. n \in 1 .. n /\ n \in 1 .. n + 1
        BY <1>3, <2>2
      <3>2. top' = stack[n]
        BY <1>2, <3>1 DEF top
      <3>3. top'.next <= Len(depsOf(top'.entry))
        BY <1>4, <3>1, <3>2
      <3>4. \A e : depsOf(e)' = depsOf(e)
        BY SameLinks
      <3>5. (top.next <= Len(depsOf(top.entry)))'
        BY <3>3, <3>4
      <3> QED
        BY <3>5 DEF CallsAreDependencies
    <2> QED
      BY <2>1, <2>2
  <1>10. AnswersAreBuilt'
    BY <1>1, <1>7 DEF AnswersAreBuilt
  <1>11. built \subseteq built'
    BY <1>1
  <1>12. LoopIsAt'
    <2>1. stack' # <<>> => stack'[1].entry = at
      BY <1>1, <1>2, <1>3 DEF IInv, WalkInv, LoopIsAt, LinkedPhases
    <2>2. result' # "none"
      OBVIOUS
    <2> QED
      BY <1>1, <1>11, <2>1, <2>2 DEF IInv, WalkInv, LoopIsAt, LinkedPhases
  <1>13. DependenciesAreBuilt' /\ DependenciesAreNamed'
    <2>1. \A i \in 1 .. n : i \in DOMAIN stack
      BY <1>3
    <2> QED
      BY <1>2, <1>11, <2>1, SameLinks
         DEF IInv, WalkInv, DependenciesAreBuilt, DependenciesAreNamed
  <1>14. NamesAreBuilt'
    BY <1>11, SameLinks DEF IInv, WalkInv, NamesAreBuilt
  <1>15. FailuresHaveCauses'
    <2>1. SomeUnloadable' = SomeUnloadable
      BY SameLinks
    <2>2. ASSUME NEW i \in 1 .. n, ~stack'[i].recok
          PROVE  errors # <<>> \/ SomeUnloadable
      BY <1>2, <1>3, <2>2 DEF IInv, WalkInv, FailuresHaveCauses
    <2> QED
      BY <1>1, <1>2, <2>1, <2>2 DEF FailuresHaveCauses
  <1> QED
    BY <1>6, <1>8, <1>9, <1>10, <1>12, <1>13, <1>14, <1>15 DEF IInv, WalkInv

LEMMA DependenciesFailedIInv ==
    ASSUME IInv, dependenciesFailed
    PROVE  IInv'
  <1>1. /\ allDependencies /\ ~top.recok /\ pop /\ result' = "failed"
        /\ callee' = 0 /\ UNCHANGED <<named, executors, errors, pc, at>>
    BY DEF dependenciesFailed, allDependencies, inCall
  <1>2. walking /\ built' = built
    BY <1>1 DEF walking, processRERecursive, built
  <1>3. pc = "compile" /\ stack # <<>>
    BY <1>1 DEF allDependencies, inCall
  <1>4. errors # <<>> \/ SomeUnloadable
    <2>1. Len(stack) \in DOMAIN stack
      BY <1>3, StackIsTyped DEF IInv
    <2> QED
      BY <1>1, <2>1 DEF IInv, WalkInv, FailuresHaveCauses, top
  <1>5. errors \in Seq(Reports)
    BY DEF IInv, TypeInv
  <1> QED
    BY <1>1, <1>2, <1>4, <1>5, PopIInv

LEMMA CompileFailsIInv ==
    ASSUME IInv, compileFails
    PROVE  IInv'
  <1>1. /\ allDependencies /\ pop /\ result' = "failed" /\ callee' = 0
        /\ errors' = Append(errors, [kind |-> "compile", entry |-> top.entry])
        /\ UNCHANGED <<named, executors, pc, at>>
    BY DEF compileFails, allDependencies, inCall
  <1>2. walking /\ built' = built
    BY <1>1 DEF walking, processRERecursive, built
  <1>3. errors' \in Seq(Reports) /\ errors' # <<>>
    <2>1. top.entry \in Nat
      BY <1>1, StackIsTyped DEF IInv, allDependencies, inCall, top, Frames
    <2>2. "compile" \in Kinds /\ errors \in Seq(Reports)
      BY DEF Kinds, IInv, TypeInv
    <2> QED
      BY <1>1, <2>1, <2>2, ReportAdded
  <1> QED
    BY <1>1, <1>2, <1>3, PopIInv

LEMMA CompileEntryIInv ==
    ASSUME IInv, compileEntry
    PROVE  IInv'
  <1>1. /\ allDependencies /\ pop /\ result' = "ok" /\ callee' = 0
        /\ executors' = put(executors, top.entry, executorOf(top.entry))
        /\ UNCHANGED <<named, errors, pc, at>>
    BY DEF compileEntry, allDependencies, inCall
  <1>2. walking /\ built' = built \cup {top.entry}
    BY <1>1 DEF walking, processRERecursive, built, put
  <1>3. errors \in Seq(Reports)
    BY DEF IInv, TypeInv
  <1> QED
    BY <1>1, <1>2, <1>3, PopIInv

-----------------------------------------------------------------------------
LEMMA NextIInv == IInv /\ [Next]_vars => IInv'
  <1> SUFFICES ASSUME IInv, [Next]_vars
               PROVE  IInv'
    OBVIOUS
  <1>1. CASE prepare
    BY <1>1, LoadEntriesIInv, ParseEntryIInv, AllParsedIInv, LinkEntryIInv,
       LinkDependencyIInv, AllLinkedIInv DEF prepare
  <1>2. CASE processRERecursive
    BY <1>2, AlreadyCompiledIInv, DetectCycleIInv, EnterIInv, CallDependencyIInv,
       DependencyReturnsIInv, DependenciesFailedIInv, CompileFailsIInv, CompileEntryIInv
       DEF processRERecursive
  <1>3. CASE UNCHANGED vars
    <2>1. /\ UNCHANGED <<sinfo, entries, parsed, deps, depmap, named, errors, pc, at, todo>>
          /\ UNCHANGED <<stack, callee, result, built, Indexes, SomeUnloadable, top>>
          /\ \A e : fullname(e)' = fullname(e) /\ depsOf(e)' = depsOf(e)
      BY <1>3 DEF vars, built, Indexes, SomeUnloadable, top, fullname, depsOf
    <2>2. TypeInv'
      BY <2>1 DEF IInv, TypeInv, TypeOK, FrameOK
    <2>3. PrepareInv'
      BY <2>1 DEF IInv, PrepareInv, Loading, Parsing, Linking, idle
    <2>4. PendingIsAPath'
      BY <2>1 DEF IInv, WalkInv, PendingIsAPath
    <2>5. CallsAreDependencies' /\ AnswersAreBuilt' /\ LoopIsAt' /\ FailuresHaveCauses'
      BY <2>1 DEF IInv, WalkInv, CallsAreDependencies, AnswersAreBuilt, subject, LoopIsAt,
                  FailuresHaveCauses
    <2>6. DependenciesAreBuilt' /\ DependenciesAreNamed' /\ NamesAreBuilt'
      BY <2>1 DEF IInv, WalkInv, DependenciesAreBuilt, DependenciesAreNamed, NamesAreBuilt
    <2> QED
      BY <2>2, <2>3, <2>4, <2>5, <2>6 DEF IInv, WalkInv
  <1> QED
    BY <1>1, <1>2, <1>3, ProcessEntryIInv, ProcessSystemReturnsIInv DEF Next

LEMMA Invariance == Spec => []IInv
  BY InitIInv, NextIInv, PTL DEF Spec

(* The variables of ReSystem have their types: links and dependencies are  *)
(* indexes of entries, and every frame of processRERecursive has a cursor  *)
(* within its dependencies.                                                *)
THEOREM SystemIsTyped == Spec => []TypeOK
  <1>1. IInv => TypeOK
    BY DEF IInv, TypeInv
  <1> QED
    BY <1>1, Invariance, PTL

(* The calls of processRERecursive in progress follow dependencies, never  *)
(* the same full name twice, none of them compiled: its recursion is no    *)
(* deeper than there are names, whatever the cycles of a system.           *)
THEOREM RecursionIsAPath == Spec => []PendingIsAPath
  <1>1. IInv => PendingIsAPath
    BY DEF IInv, WalkInv
  <1> QED
    BY <1>1, Invariance, PTL

(* What loadIntoNameMap put in namedRegexes is the expression of an entry  *)
(* that is compiled.                                                       *)
THEOREM NamesComeFromExecutors == Spec => []NamesAreBuilt
  <1>1. IInv => NamesAreBuilt
    BY DEF IInv, WalkInv
  <1> QED
    BY <1>1, Invariance, PTL

(* An entry reaches the compiler with all its dependencies in namedRegexes *)
(* as long as none of them failed.                                         *)
THEOREM CompilerHasTheNames == Spec => []DependenciesAreNamed
  <1>1. IInv => DependenciesAreNamed
    BY DEF IInv, WalkInv
  <1> QED
    BY <1>1, Invariance, PTL

(* processSystem ends early only with an error reported, or on account of  *)
(* a dependency that loadIntoNameMap refuses without a word.               *)
THEOREM FailureIsExplained == Spec => []FailureIsReported
  <1>1. IInv => FailureIsReported
    BY DEF IInv, PrepareInv, WalkInv, FailuresHaveCauses, FailureIsReported
  <1> QED
    BY <1>1, Invariance, PTL

-----------------------------------------------------------------------------
(* Every step is a step of BuildOrder, or none. *)

LEMMA GraphOfLinks ==
    /\ pc \in {"load", "parse", "link", "refused"} => depGraph = Order!Unknown
    /\ pc \in LinkedPhases =>
          depGraph = [i \in Indexes |-> {depsOf(i)[k] : k \in DOMAIN depsOf(i)}]
  BY DEF depGraph, LinkedPhases, Order!Unknown

LEMMA OutcomeOfPhase ==
    /\ pc = "finished" => outcomeOf = "done"
    /\ pc \in {"refused", "stopped"} => outcomeOf = "failed"
    /\ pc \in {"load", "parse", "link", "compile"} => outcomeOf = "running"
  BY DEF outcomeOf

LEMMA PrepareRefines ==
    ASSUME IInv, prepare
    PROVE  [Order!Next]_(Order!vars)
  <1>1. built = {} /\ built' = {}
    BY StaysIdle DEF IInv, idle
  <1>2. CASE allLinked
    <2>1. /\ pc = "link" /\ pc' = (IF errors = <<>> THEN "compile" ELSE "refused")
          /\ UNCHANGED <<entries, depmap, parsed, errors>>
      BY <1>2 DEF allLinked
    <2>2. CASE errors = <<>>
      <3>1. depGraph = Order!Unknown /\ outcomeOf = "running"
        BY <2>1, GraphOfLinks, OutcomeOfPhase
      <3>2. pc' = "compile" /\ outcomeOf' = "running"
        BY <2>1, <2>2 DEF outcomeOf
      <3>3. TypeInv'
        BY <1>2, AllLinkedIInv DEF IInv
      <3>4. Indexes' \subseteq Nat /\ \A e \in Indexes' : \A k \in DOMAIN depsOf(e)' : depsOf(e)'[k] \in Indexes'
        <4>1. \A e \in Indexes' : depsOf(e)' \in Seq(Indexes')
          BY <3>2, <3>3 DEF TypeInv, TypeOK, LinkedPhases, depsOf
        <4>2. Indexes' \subseteq Nat
          BY <3>3 DEF TypeInv
        <4> QED
          BY <4>1, <4>2, ElementOfSeq, LenProperties
      <3>5. depGraph' = [i \in Indexes' |-> {depsOf(i)'[k] : k \in DOMAIN depsOf(i)'}]
        BY <3>2 DEF depGraph, LinkedPhases
      <3>6. /\ DOMAIN depGraph' = Indexes'
            /\ depGraph' \in [Indexes' -> SUBSET Indexes']
        BY <3>4, <3>5
      <3>7. Order!Link
        BY <1>1, <3>1, <3>2, <3>4, <3>6 DEF Order!Link
      <3> QED
        BY <3>7 DEF Order!Next
    <2>3. CASE errors # <<>>
      <3>1. depGraph' = depGraph /\ outcomeOf = "running" /\ outcomeOf' = "failed"
        BY <2>1, <2>3 DEF depGraph, outcomeOf, LinkedPhases
      <3>2. Order!GiveUp
        BY <1>1, <3>1 DEF Order!GiveUp
      <3> QED
        BY <3>2 DEF Order!Next
    <2> QED
      BY <2>2, <2>3
  <1>3. CASE ~allLinked
    <2>1. pc \in {"load", "parse", "link"} /\ pc' \in {"load", "parse", "link"}
      BY <1>3 DEF prepare, loadEntries, parseEntry, allParsed, linkEntry, linkDependency
    <2>2. depGraph' = depGraph /\ outcomeOf' = outcomeOf
      BY <2>1 DEF depGraph, outcomeOf, LinkedPhases
    <2> QED
      BY <1>1, <2>2 DEF Order!vars
  <1> QED
    BY <1>2, <1>3

LEMMA WalkRefines ==
    ASSUME IInv, walking
    PROVE  [Order!Next]_(Order!vars)
  <1>1. /\ pc = "compile" /\ outcomeOf = "running"
        /\ depGraph = [i \in Indexes |-> {depsOf(i)[k] : k \in DOMAIN depsOf(i)}]
        /\ DOMAIN depGraph = Indexes
    BY WalkKeepsLinks, GraphOfLinks, OutcomeOfPhase DEF LinkedPhases
  <1>2. pc' \in LinkedPhases => depGraph' = depGraph
    BY <1>1, WalkKeepsLinks DEF depGraph, depsOf, fullname, Indexes
  <1>3. CASE processSystemReturns
    <2>1. built' = built /\ pc' \in LinkedPhases
      BY <1>3 DEF processSystemReturns, built, LinkedPhases
    <2>2. CASE pc' = "stopped"
      <3>1. outcomeOf' = "failed"
        BY <2>2 DEF outcomeOf
      <3> QED
        BY <1>1, <1>2, <2>1, <3>1 DEF Order!Next, Order!GiveUp
    <2>3. CASE pc' = "finished"
      <3>1. outcomeOf' = "done"
        BY <2>3 DEF outcomeOf
      <3>2. (pc = "finished" => built = Indexes)'
        BY <1>3, <2>1, ProcessSystemReturnsIInv DEF IInv, WalkInv, LoopIsAt
      <3>3. built = Indexes
        BY <2>1, <2>3, <3>2, SameLinks
      <3> QED
        BY <1>1, <1>2, <2>1, <3>1, <3>3 DEF Order!Next, Order!Finish
    <2> QED
      BY <1>3, <2>2, <2>3 DEF processSystemReturns
  <1>4. CASE compileEntry
    <2>1. /\ stack # <<>> /\ top.recok /\ top.next > Len(depsOf(top.entry))
          /\ pc' = pc /\ executors' = put(executors, top.entry, executorOf(top.entry))
      BY <1>4 DEF compileEntry, allDependencies, inCall
    <2>2. built' = built \cup {top.entry} /\ outcomeOf' = outcomeOf
      BY <2>1 DEF built, put, outcomeOf
    <2>3. Len(stack) \in DOMAIN stack /\ FrameOK(top)
      BY <2>1, StackIsTyped DEF IInv, top
    <2>4. top.entry \in Indexes /\ top.entry \notin built
      BY <2>3 DEF FrameOK, top, IInv, WalkInv, PendingIsAPath
    <2>5. depGraph[top.entry] \subseteq built
      <3>1. \A k \in 1 .. top.next - 1 : depsOf(top.entry)[k] \in built
        BY <2>1, <2>3 DEF top, IInv, WalkInv, DependenciesAreBuilt
      <3>2. \A k \in DOMAIN depsOf(top.entry) : k \in 1 .. top.next - 1
        BY <1>1, <2>1, <2>3, <2>4, LinksAreTyped DEF IInv, FrameOK
      <3> QED
        BY <1>1, <2>4, <3>1, <3>2
    <2>6. Order!Build(top.entry)
      BY <1>1, <1>2, <2>1, <2>2, <2>4, <2>5 DEF Order!Build, LinkedPhases
    <2> QED
      BY <1>1, <2>4, <2>6 DEF Order!Next
  <1>5. CASE ~processSystemReturns /\ ~compileEntry
    <2>1. pc' = pc /\ executors' = executors
      BY <1>5 DEF walking, processRERecursive, processEntry, alreadyCompiled, detectCycle,
         enter, callDependency, dependencyReturns, dependenciesFailed, compileFails
    <2>2. built' = built /\ outcomeOf' = outcomeOf
      BY <2>1 DEF built, outcomeOf
    <2> QED
      BY <1>1, <1>2, <2>1, <2>2 DEF Order!vars, LinkedPhases
  <1> QED
    BY <1>3, <1>4, <1>5

(* Whatever the systems, processSystem builds every executor once, after   *)
(* those of all the entries it names, and goes through to the end only     *)
(* with all of them built.                                                 *)
THEOREM BuildsInOrder == Spec => Order!SafeSpec
  <1>1. Init => Order!Init
    BY DEF Init, Order!Init, Order!Unknown, depGraph, outcomeOf, built, LinkedPhases
  <1>2. IInv /\ [Next]_vars => [Order!Next]_(Order!vars)
    <2> SUFFICES ASSUME IInv, [Next]_vars
                 PROVE  [Order!Next]_(Order!vars)
      OBVIOUS
    <2>1. CASE UNCHANGED vars
      <3>1. UNCHANGED <<pc, entries, depmap, built>>
        BY <2>1 DEF vars, built
      <3>2. UNCHANGED <<depGraph, outcomeOf>>
        BY <3>1 DEF depGraph, outcomeOf, Indexes, depsOf, fullname, LinkedPhases
      <3> QED
        BY <3>1, <3>2 DEF Order!vars
    <2> QED
      BY <2>1, PrepareRefines, WalkRefines DEF Next, walking
  <1> QED
    BY <1>1, <1>2, Invariance, PTL DEF Spec, Order!SafeSpec

-----------------------------------------------------------------------------
(* What the errors say.  As long as nothing is renamed twice the links are *)
(* the names in the texts, so that what is compiled is on no cycle.        *)

EarlyErrors == pc \in {"load", "parse"} =>
    \A k \in DOMAIN errors : errors[k].kind \in {"parse", "dependencies"}

linksOf(i) == {depsOf(i)[k] : k \in DOMAIN depsOf(i)}
linkedNow == IF pc = "link" THEN 1 .. at ELSE Indexes
stillToLink(i) == IF pc = "link" /\ i = at THEN {j \in Indexes : fullname(j) \in todo} ELSE {}

LinksAreMentions == Plain /\ pc \in {"link"} \cup LinkedPhases =>
    \A i \in linkedNow :
        linksOf(i) \subseteq mentions(i) /\ mentions(i) \subseteq linksOf(i) \cup stillToLink(i)

BuiltIsClosed == \A i \in built : linksOf(i) \subseteq built

NoneBuiltIsCyclic == Plain => \A i \in built : ~onCycle(i)

CyclesAreReal == Plain =>
    \A k \in DOMAIN errors : errors[k].kind = "cycle" => onCycle(errors[k].entry)

MissingAreMissing == Plain =>
    \A k \in DOMAIN errors : errors[k].kind = "dependency" =>
        \E d \in deps[errors[k].entry] : \A i \in Indexes : fullname(i) # d

TruthInv ==
    /\ EarlyErrors
    /\ LinksAreMentions
    /\ BuiltIsClosed
    /\ NoneBuiltIsCyclic
    /\ CyclesAreReal
    /\ MissingAreMissing

LEMMA InitTruth == Init => TruthInv
  <1> SUFFICES ASSUME Init
               PROVE  TruthInv
    OBVIOUS
  <1>1. errors = <<>> /\ pc = "load" /\ built = {}
    BY DEF Init, built
  <1> QED
    BY <1>1 DEF TruthInv, EarlyErrors, LinksAreMentions, BuiltIsClosed, NoneBuiltIsCyclic,
                CyclesAreReal, MissingAreMissing, LinkedPhases

(* Once parsed, what the texts mention stays. *)
LEMMA SameTexts ==
    ASSUME UNCHANGED <<entries, deps, nsmap>>
    PROVE  /\ Indexes' = Indexes /\ (Plain' <=> Plain)
           /\ \A i : fullname(i)' = fullname(i) /\ mentions(i)' = mentions(i)
           /\ \A i : onCycle(i)' <=> onCycle(i)
  <1>1. Indexes' = Indexes /\ \A i : fullname(i)' = fullname(i)
    BY DEF Indexes, fullname
  <1>2. \A i : mentions(i)' = mentions(i)
    BY <1>1 DEF mentions
  <1>3. \A i : onCycle(i)' <=> onCycle(i)
    BY <1>1, <1>2 DEF onCycle
  <1>4. Plain' <=> Plain
    BY <1>1 DEF Plain, remapName, resolveNamespace
  <1> QED
    BY <1>1, <1>2, <1>3, <1>4

LEMMA DistinctNames ==
    ASSUME Plain, NEW i \in Indexes, NEW j \in Indexes, fullname(i) = fullname(j)
    PROVE  i = j
  BY DEF Plain

(* The errors an entry can have before links are looked at. *)
LEMMA ParseTruth ==
    ASSUME IInv, TruthInv, loadEntries \/ parseEntry
    PROVE  TruthInv'
  <1>1. pc' = "parse" /\ pc \in {"load", "parse"}
    BY DEF loadEntries, parseEntry
  <1>2. built' = {}
    BY StaysIdle DEF IInv, idle, prepare
  <1>3. \A k \in DOMAIN errors' : errors'[k].kind \in {"parse", "dependencies"}
    <2>1. \A k \in DOMAIN errors : errors[k].kind \in {"parse", "dependencies"}
      BY <1>1 DEF TruthInv, EarlyErrors
    <2>2. CASE errors' = errors
      BY <2>1, <2>2
    <2>3. ASSUME NEW r \in {"parse", "dependencies"},
                 errors' = Append(errors, [kind |-> r, entry |-> at])
          PROVE  \A k \in DOMAIN errors' : errors'[k].kind \in {"parse", "dependencies"}
      <3>1. errors \in Seq(Reports) /\ at \in Nat /\ r \in Kinds
        BY DEF IInv, TypeInv, TypeOK, Kinds
      <3>2. /\ Len(errors') = Len(errors) + 1
            /\ errors'[Len(errors) + 1] = [kind |-> r, entry |-> at]
            /\ \A i \in 1 .. Len(errors) : errors'[i] = errors[i]
            /\ errors' \in Seq(Reports)
        BY <2>3, <3>1, ReportAdded
      <3>3. DOMAIN errors' = 1 .. Len(errors) + 1 /\ DOMAIN errors = 1 .. Len(errors)
            /\ Len(errors) \in Nat
        BY <3>1, <3>2, LenProperties
      <3>4. ASSUME NEW k \in 1 .. Len(errors) + 1
            PROVE  errors'[k].kind \in {"parse", "dependencies"}
        <4>1. CASE k \in 1 .. Len(errors)
          BY <2>1, <3>2, <3>3, <4>1
        <4>2. CASE k = Len(errors) + 1
          BY <3>2, <4>2
        <4> QED
          BY <3>3, <4>1, <4>2
      <3> QED
        BY <3>3, <3>4
    <2>4. \/ errors' = errors
          \/ \E r \in {"parse", "dependencies"} :
                errors' = Append(errors, [kind |-> r, entry |-> at])
      BY DEF loadEntries, parseEntry
    <2> QED
      BY <2>2, <2>3, <2>4
  <1> QED
    BY <1>1, <1>2, <1>3
       DEF TruthInv, EarlyErrors, LinksAreMentions, BuiltIsClosed, NoneBuiltIsCyclic,
           CyclesAreReal, MissingAreMissing, LinkedPhases

(* The second loop, and the two steps around it. *)
LEMMA LinkTruth ==
    ASSUME IInv, TruthInv, allParsed \/ linkEntry \/ linkDependency \/ allLinked,
           LinksAreMentions', MissingAreMissing', CyclesAreReal'
    PROVE  TruthInv'
  <1>1. pc' \notin {"load", "parse"}
    BY DEF allParsed, linkEntry, linkDependency, allLinked
  <1>2. built' = {}
    BY StaysIdle DEF IInv, idle, prepare
  <1> QED
    BY <1>1, <1>2 DEF TruthInv, EarlyErrors, BuiltIsClosed, NoneBuiltIsCyclic

LEMMA SameErrors ==
    ASSUME TruthInv, UNCHANGED <<entries, deps, nsmap, errors>>
    PROVE  MissingAreMissing' /\ CyclesAreReal'
  BY SameTexts DEF TruthInv, MissingAreMissing, CyclesAreReal

LEMMA AllParsedTruth ==
    ASSUME IInv, TruthInv, allParsed
    PROVE  TruthInv'
  <1>1. pc' = "link" /\ at' = 0 /\ UNCHANGED <<entries, deps, nsmap, errors>>
    BY DEF allParsed
  <1>2. LinksAreMentions'
    BY <1>1 DEF LinksAreMentions, linkedNow
  <1> QED
    BY <1>1, <1>2, SameErrors, LinkTruth

LEMMA AllLinkedTruth ==
    ASSUME IInv, TruthInv, allLinked
    PROVE  TruthInv'
  <1>1. /\ pc = "link" /\ at = Len(entries) /\ todo = {} /\ pc' # "link"
        /\ UNCHANGED <<entries, deps, nsmap, errors, depmap>>
    BY DEF allLinked
  <1>2. Indexes = 1 .. Len(entries)
    BY DEF IInv, TypeInv
  <1>3. ASSUME Plain, NEW i \in Indexes
        PROVE  linksOf(i) = mentions(i)
    BY <1>1, <1>2, <1>3 DEF TruthInv, LinksAreMentions, linkedNow, stillToLink
  <1>4. \A i : linksOf(i)' = linksOf(i)
    BY <1>1 DEF linksOf, depsOf, fullname
  <1>5. LinksAreMentions'
    BY <1>1, <1>3, <1>4, SameTexts DEF LinksAreMentions, linkedNow
  <1> QED
    BY <1>1, <1>5, SameErrors, LinkTruth

LEMMA LinkEntryTruth ==
    ASSUME IInv, TruthInv, linkEntry
    PROVE  TruthInv'
  <1>1. /\ pc = "link" /\ pc' = "link" /\ at' = at + 1 /\ todo = {} /\ todo' = deps[at + 1]
        /\ at < Len(entries) /\ UNCHANGED <<entries, deps, nsmap, errors>>
        /\ depmap' = IF fullname(at + 1) \in DOMAIN depmap THEN depmap
                     ELSE put(depmap, fullname(at + 1), <<>>)
    BY DEF linkEntry
  <1>2. /\ Indexes = 1 .. Len(entries) /\ Len(entries) \in Nat /\ at \in Nat
        /\ DOMAIN depmap = {fullname(i) : i \in 1 .. at} /\ DOMAIN deps = Indexes
    BY <1>1 DEF IInv, TypeInv, PrepareInv, Linking
  <1>3. SUFFICES ASSUME Plain, NEW i \in 1 .. at + 1
        PROVE  /\ linksOf(i)' \subseteq mentions(i)
               /\ mentions(i) \subseteq linksOf(i)' \cup stillToLink(i)'
    <2>1. LinksAreMentions'
      BY <1>1, <1>3, SameTexts DEF LinksAreMentions, linkedNow
    <2> QED
      BY <1>1, <2>1, SameErrors, LinkTruth
  <1>4. ASSUME NEW e \in 1 .. at
        PROVE  fullname(e) # fullname(at + 1)
    <2>1. e \in Indexes /\ at + 1 \in Indexes /\ e # at + 1
      BY <1>1, <1>2
    <2> QED
      BY <1>3, <2>1, DistinctNames
  <1>5. CASE i \in 1 .. at
    <2>1. fullname(i) # fullname(at + 1) /\ fullname(i) \in DOMAIN depmap
      BY <1>2, <1>4, <1>5
    <2>2. fullname(i)' = fullname(i) /\ depmap'[fullname(i)] = depmap[fullname(i)]
      BY <1>1, <2>1 DEF put, fullname
    <2>3. linksOf(i)' = linksOf(i)
      BY <2>2 DEF linksOf, depsOf
    <2>4. /\ linksOf(i) \subseteq mentions(i)
          /\ mentions(i) \subseteq linksOf(i) \cup stillToLink(i)
      BY <1>1, <1>3, <1>5 DEF TruthInv, LinksAreMentions, linkedNow
    <2>5. stillToLink(i) = {}
      BY <1>1 DEF stillToLink
    <2> QED
      BY <2>3, <2>4, <2>5
  <1>6. CASE i = at + 1
    <2>1. depsOf(i)' = <<>>
      BY <1>1, <1>2, <1>4, <1>6 DEF put, depsOf, fullname
    <2>2. linksOf(i)' = {}
      BY <2>1 DEF linksOf
    <2>3. mentions(i) = stillToLink(i)'
      BY <1>1, <1>2, <1>6, SameTexts DEF mentions, stillToLink
    <2> QED
      BY <2>2, <2>3
  <1> QED
    BY <1>2, <1>5, <1>6

LEMMA LinkDependencyTruth ==
    ASSUME IInv, TruthInv, linkDependency
    PROVE  TruthInv'
  <1>1. PICK dep \in todo :
            LET rdep == remapName(entries[at].ns, dep)
            IN  /\ todo' = todo \ {dep}
                /\ \/ /\ entriesNamed(rdep) # {}
                      /\ depmap' = [depmap EXCEPT ![fullname(at)] = Append(@, findEntry(rdep))]
                      /\ errors' = errors
                   \/ /\ entriesNamed(rdep) = {}
                      /\ errors' = Append(errors, [kind |-> "dependency", entry |-> at])
                      /\ depmap' = depmap
    BY DEF linkDependency
  <1>2. /\ pc = "link" /\ pc' = "link" /\ at' = at
        /\ UNCHANGED <<nsmap, entries, deps>>
    BY DEF linkDependency
  <1>3. /\ Indexes = 1 .. Len(entries) /\ Len(entries) \in Nat /\ at \in 1 .. Len(entries)
        /\ DOMAIN depmap = {fullname(i) : i \in 1 .. at} /\ DOMAIN deps = Indexes
        /\ dep \in deps[at] /\ errors \in Seq(Reports)
    BY <1>1, <1>2 DEF IInv, TypeInv, PrepareInv, Linking
  <1>4. Plain => remapName(entries[at].ns, dep) = dep
    BY <1>3 DEF Plain
  <1>5. MissingAreMissing' /\ CyclesAreReal'
    <2>1. CASE errors' = errors
      BY <1>2, <2>1, SameErrors
    <2>2. CASE /\ entriesNamed(remapName(entries[at].ns, dep)) = {}
               /\ errors' = Append(errors, [kind |-> "dependency", entry |-> at])
      <3>1. "dependency" \in Kinds /\ at \in Nat
        BY <1>3 DEF Kinds
      <3>2. /\ errors' \in Seq(Reports) /\ Len(errors') = Len(errors) + 1
            /\ errors'[Len(errors) + 1] = [kind |-> "dependency", entry |-> at]
            /\ \A i \in 1 .. Len(errors) : errors'[i] = errors[i]
        BY <1>3, <2>2, <3>1, ReportAdded
      <3>3. DOMAIN errors' = 1 .. Len(errors) + 1 /\ DOMAIN errors = 1 .. Len(errors)
            /\ Len(errors) \in Nat
        BY <1>3, <3>2, LenProperties
      <3>4. ASSUME Plain, NEW k \in 1 .. Len(errors) + 1
            PROVE  /\ errors'[k].kind = "cycle" => onCycle(errors'[k].entry)
                   /\ errors'[k].kind = "dependency" =>
                         \E d \in deps[errors'[k].entry] : \A i \in Indexes : fullname(i) # d
        <4>1. CASE k \in 1 .. Len(errors)
          BY <3>2, <3>3, <3>4, <4>1 DEF TruthInv, CyclesAreReal, MissingAreMissing
        <4>2. CASE k = Len(errors) + 1
          <5>1. \A i \in Indexes : fullname(i) # dep
            BY <1>4, <2>2, <3>4 DEF entriesNamed, Indexes
          <5> QED
            BY <1>3, <3>2, <4>2, <5>1
        <4> QED
          BY <3>3, <4>1, <4>2
      <3> QED
        BY <1>2, <3>3, <3>4, SameTexts DEF CyclesAreReal, MissingAreMissing
    <2> QED
      BY <1>1, <2>1, <2>2
  <1>6. LinksAreMentions'
    <2>1. SUFFICES ASSUME Plain, NEW i \in 1 .. at
                   PROVE  /\ linksOf(i)' \subseteq mentions(i)
                          /\ mentions(i) \subseteq linksOf(i)' \cup stillToLink(i)'
      BY <1>2, SameTexts DEF LinksAreMentions, linkedNow
    <2>2. /\ linksOf(i) \subseteq mentions(i)
          /\ mentions(i) \subseteq linksOf(i) \cup stillToLink(i)
      BY <1>2, <2>1 DEF TruthInv, LinksAreMentions, linkedNow
    <2>3. i \in Indexes /\ at \in Indexes /\ fullname(i) \in DOMAIN depmap
      BY <1>3
    <2>4. ASSUME i # at
          PROVE  linksOf(i)' = linksOf(i) /\ stillToLink(i)' = stillToLink(i)
      <3>1. fullname(i) # fullname(at)
        BY <2>1, <2>3, <2>4, DistinctNames
      <3>2. depmap'[fullname(i)] = depmap[fullname(i)]
        BY <1>1, <2>3, <3>1
      <3>3. depsOf(i)' = depsOf(i)
        BY <1>2, <3>2 DEF depsOf, fullname
      <3> QED
        BY <1>2, <2>4, <3>3 DEF linksOf, stillToLink
    <2>5. ASSUME i = at, entriesNamed(dep) = {}, depmap' = depmap
          PROVE  linksOf(i)' = linksOf(i) /\ stillToLink(i)' = stillToLink(i)
      <3>1. linksOf(i)' = linksOf(i)
        BY <1>2, <2>5 DEF linksOf, depsOf, fullname
      <3>2. \A j \in Indexes : fullname(j) # dep
        BY <2>5 DEF entriesNamed, Indexes
      <3>3. \A j \in Indexes : fullname(j) \in todo' <=> fullname(j) \in todo
        BY <1>1, <3>2
      <3> QED
        BY <1>2, <3>1, <3>3, SameTexts DEF stillToLink
    <2>6. ASSUME i = at, entriesNamed(dep) # {},
                 depmap' = [depmap EXCEPT ![fullname(at)] = Append(@, findEntry(dep))]
          PROVE  /\ findEntry(dep) \in mentions(i)
                 /\ linksOf(i)' = linksOf(i) \cup {findEntry(dep)}
                 /\ stillToLink(i) \subseteq stillToLink(i)' \cup {findEntry(dep)}
      <3> DEFINE e == findEntry(dep)
      <3>1. e \in Indexes /\ fullname(e) = dep
        BY <2>6, FindEntry DEF IInv
      <3> HIDE DEF e
      <3>2. e \in mentions(i)
        BY <1>3, <2>6, <3>1 DEF mentions
      <3>3. linksOf(i)' = linksOf(i) \cup {e}
        <4>1. depsOf(i)' = Append(depsOf(i), e)
          BY <1>2, <2>3, <2>6 DEF depsOf, fullname, e
        <4>2. depsOf(i) \in Seq(Indexes)
          BY <2>3 DEF depsOf, IInv, TypeInv, TypeOK
        <4> DEFINE s == depsOf(i)
                   t == Append(s, e)
        <4>3. /\ Len(t) = Len(s) + 1 /\ t[Len(s) + 1] = e
              /\ \A k \in 1 .. Len(s) : t[k] = s[k]
              /\ DOMAIN t = 1 .. Len(s) + 1 /\ DOMAIN s = 1 .. Len(s) /\ Len(s) \in Nat
          BY <3>1, <4>2, AppendProperties, LenProperties
        <4> HIDE DEF s, t
        <4>4. {t[k] : k \in DOMAIN t} = {s[k] : k \in DOMAIN s} \cup {e}
          BY <4>3
        <4> QED
          BY <4>1, <4>4 DEF linksOf, s, t
      <3>4. \A j \in Indexes : fullname(j) = dep => j = e
        BY <2>1, <3>1, DistinctNames
      <3>5. \A j \in Indexes : fullname(j) \in todo => fullname(j) \in todo' \/ j = e
        BY <1>1, <3>4
      <3>6. stillToLink(i) \subseteq stillToLink(i)' \cup {e}
        BY <1>2, <2>6, <3>5, SameTexts DEF stillToLink
      <3> QED
        BY <3>2, <3>3, <3>6 DEF e
    <2>7. CASE i # at
      BY <2>2, <2>4, <2>7
    <2>8. CASE i = at /\ entriesNamed(dep) = {} /\ depmap' = depmap
      BY <2>2, <2>5, <2>8
    <2>9. CASE /\ i = at /\ entriesNamed(dep) # {}
               /\ depmap' = [depmap EXCEPT ![fullname(at)] = Append(@, findEntry(dep))]
      <3>1. /\ findEntry(dep) \in mentions(i)
            /\ linksOf(i)' = linksOf(i) \cup {findEntry(dep)}
            /\ stillToLink(i) \subseteq stillToLink(i)' \cup {findEntry(dep)}
        BY <2>6, <2>9
      <3> QED
        BY <2>2, <3>1
    <2>10. remapName(entries[at].ns, dep) = dep
      BY <1>4, <2>1
    <2> QED
      BY <1>1, <2>7, <2>8, <2>9, <2>10
  <1> QED
    BY <1>5, <1>6, LinkTruth

(* In the walk texts and links stay, and the links are the mentions. *)
LEMMA WalkLinks ==
    ASSUME IInv, TruthInv, pc = "compile"
    PROVE  /\ Plain => \A i \in Indexes : linksOf(i) = mentions(i)
           /\ \A i \in Indexes : \A k \in 1 .. Len(depsOf(i)) : depsOf(i)[k] \in linksOf(i)
           /\ \A i \in Indexes : linksOf(i) \subseteq Indexes
  <1>1. Plain => \A i \in Indexes : linksOf(i) = mentions(i)
    BY DEF TruthInv, LinksAreMentions, linkedNow, stillToLink, LinkedPhases
  <1> QED
    BY <1>1, LinksAreTyped DEF IInv, linksOf

LEMMA WalkTexts ==
    ASSUME walking
    PROVE  /\ UNCHANGED <<entries, deps, nsmap>>
           /\ \A i : linksOf(i)' = linksOf(i)
  BY WalkKeepsLinks DEF linksOf, depsOf, fullname

LEMMA WalkTruth ==
    ASSUME IInv, TruthInv, walking, BuiltIsClosed', NoneBuiltIsCyclic',
           CyclesAreReal', MissingAreMissing'
    PROVE  TruthInv'
  <1>1. pc = "compile" /\ pc' \in LinkedPhases
    BY DEF walking, processRERecursive, processEntry, processSystemReturns, alreadyCompiled,
         detectCycle, enter, callDependency, dependencyReturns, dependenciesFailed,
         compileFails, compileEntry, inCall, allDependencies, LinkedPhases
  <1>2. pc' \notin {"load", "parse", "link"}
    BY <1>1 DEF LinkedPhases
  <1>3. LinksAreMentions'
    BY <1>1, <1>2, WalkLinks, WalkTexts, SameTexts DEF LinksAreMentions, linkedNow
  <1> QED
    BY <1>2, <1>3 DEF TruthInv, EarlyErrors

LEMMA SameBuilt ==
    ASSUME TruthInv, walking, executors' = executors
    PROVE  BuiltIsClosed' /\ NoneBuiltIsCyclic'
  <1>1. built' = built
    BY DEF built
  <1> QED
    BY <1>1, WalkTexts, SameTexts DEF TruthInv, BuiltIsClosed, NoneBuiltIsCyclic

LEMMA WalkError ==
    ASSUME IInv, TruthInv, walking, NEW r \in {"cycle", "compile"}, NEW e \in Nat,
           r = "cycle" /\ Plain => onCycle(e),
           errors' = Append(errors, [kind |-> r, entry |-> e])
    PROVE  CyclesAreReal' /\ MissingAreMissing'
  <1>1. errors \in Seq(Reports) /\ r \in Kinds
    BY DEF IInv, TypeInv, Kinds
  <1>2. /\ errors' \in Seq(Reports) /\ Len(errors') = Len(errors) + 1
        /\ errors'[Len(errors) + 1] = [kind |-> r, entry |-> e]
        /\ \A i \in 1 .. Len(errors) : errors'[i] = errors[i]
    BY <1>1, ReportAdded
  <1>3. DOMAIN errors' = 1 .. Len(errors) + 1 /\ DOMAIN errors = 1 .. Len(errors)
        /\ Len(errors) \in Nat
    BY <1>1, <1>2, LenProperties
  <1>4. ASSUME Plain, NEW k \in 1 .. Len(errors) + 1
        PROVE  /\ errors'[k].kind = "cycle" => onCycle(errors'[k].entry)
               /\ errors'[k].kind = "dependency" =>
                     \E d \in deps[errors'[k].entry] : \A i \in Indexes : fullname(i) # d
    <2>1. CASE k \in 1 .. Len(errors)
      BY <1>2, <1>3, <1>4, <2>1 DEF TruthInv, CyclesAreReal, MissingAreMissing
    <2>2. CASE k = Len(errors) + 1
      BY <1>2, <1>4, <2>2
    <2> QED
      BY <1>3, <2>1, <2>2
  <1>5. /\ deps' = deps /\ Indexes' = Indexes /\ (Plain' <=> Plain)
        /\ \A i : fullname(i)' = fullname(i)
        /\ \A i : onCycle(i)' <=> onCycle(i)
    BY WalkTexts, SameTexts
  <1>6. CyclesAreReal'
    BY <1>3, <1>4, <1>5 DEF CyclesAreReal
  <1>7. MissingAreMissing'
    BY <1>3, <1>4, <1>5 DEF MissingAreMissing
  <1> QED
    BY <1>6, <1>7

(* What is mentioned along the calls in progress: from one of them on, a   *)
(* set closed under mentions has them all, and the call about to be made.  *)
LEMMA PathIsClosed ==
    ASSUME IInv, TruthInv, Plain, pc = "compile", callee # 0,
           NEW i \in DOMAIN stack, NEW S \in SUBSET Indexes,
           mentions(stack[i].entry) \subseteq S, \A j \in S : mentions(j) \subseteq S
    PROVE  callee \in S
  <1>1. /\ Len(stack) \in Nat /\ DOMAIN stack = 1 .. Len(stack)
        /\ \A j \in 1 .. Len(stack) : FrameOK(stack[j])
    BY StackIsTyped DEF IInv
  <1>2. ASSUME NEW j \in 1 .. Len(stack), j < Len(stack)
        PROVE  stack[j + 1].entry \in mentions(stack[j].entry)
    <2>1. /\ stack[j].next <= Len(depsOf(stack[j].entry))
          /\ depsOf(stack[j].entry)[stack[j].next] = stack[j + 1].entry
      BY <1>1, <1>2 DEF IInv, WalkInv, PendingIsAPath
    <2>2. /\ stack[j].entry \in Indexes /\ Len(depsOf(stack[j].entry)) \in Nat
          /\ stack[j].next \in 1 .. Len(depsOf(stack[j].entry)) + 1
      BY <1>1, LinksAreTyped DEF IInv, FrameOK
    <2>3. stack[j].next \in 1 .. Len(depsOf(stack[j].entry))
      BY <2>1, <2>2
    <2> QED
      BY <2>1, <2>2, <2>3, WalkLinks
  <1>3. \A j \in 1 .. Len(stack) : i < j => stack[j].entry \in S
    <2> DEFINE T == {j \in 1 .. Len(stack) : i < j /\ stack[j].entry \notin S}
    <2>1. SUFFICES ASSUME T # {}
                   PROVE  FALSE
      OBVIOUS
    <2>2. T \in SUBSET Nat
      BY <1>1
    <2>3. PICK j \in T : \A m \in T : j <= m
      BY <2>1, <2>2, LeastIndex
    <2>4. /\ j - 1 \in 1 .. Len(stack) /\ j - 1 < Len(stack) /\ j - 1 >= i /\ (j - 1) + 1 = j
          /\ j - 1 \notin T
      BY <1>1, <2>3
    <2>5. stack[j].entry \in mentions(stack[j - 1].entry)
      BY <1>2, <2>4
    <2>6. mentions(stack[j - 1].entry) \subseteq S
      BY <1>1, <2>4
    <2> QED
      BY <2>3, <2>5, <2>6
  <1>4. Len(stack) \in 1 .. Len(stack) /\ stack # <<>>
    BY <1>1
  <1>5. mentions(top.entry) \subseteq S
    BY <1>1, <1>3, <1>4 DEF top
  <1>6. callee \in mentions(top.entry)
    <2>1. top.next <= Len(depsOf(top.entry)) /\ callee = depsOf(top.entry)[top.next]
      BY <1>4 DEF IInv, WalkInv, CallsAreDependencies, subject
    <2>2. /\ top.entry \in Indexes /\ Len(depsOf(top.entry)) \in Nat
          /\ top.next \in 1 .. Len(depsOf(top.entry)) + 1
      BY <1>1, <1>4, LinksAreTyped DEF IInv, FrameOK, top
    <2>3. top.next \in 1 .. Len(depsOf(top.entry))
      BY <2>1, <2>2
    <2> QED
      BY <2>1, <2>2, <2>3, WalkLinks
  <1> QED
    BY <1>5, <1>6

LEMMA DetectCycleTruth ==
    ASSUME IInv, TruthInv, detectCycle
    PROVE  TruthInv'
  <1>1. /\ pc = "compile" /\ callee # 0 /\ fullname(callee) \in pending
        /\ errors' = Append(errors, [kind |-> "cycle", entry |-> callee])
        /\ executors' = executors
    BY DEF detectCycle
  <1>2. walking
    BY DEF walking, processRERecursive
  <1>3. callee \in Indexes /\ callee \in Nat
    BY <1>1, WalkState
  <1>4. ASSUME Plain
        PROVE  onCycle(callee)
    <2>1. PICK i \in DOMAIN stack : fullname(callee) = fullname(stack[i].entry)
      BY <1>1 DEF pending
    <2>2. stack[i].entry \in Indexes
      BY StackIsTyped DEF IInv, FrameOK
    <2>3. stack[i].entry = callee
      BY <1>3, <1>4, <2>1, <2>2, DistinctNames
    <2> QED
      BY <1>1, <1>4, <2>3, PathIsClosed DEF onCycle
  <1>5. CyclesAreReal' /\ MissingAreMissing'
    BY <1>1, <1>2, <1>3, <1>4, WalkError
  <1> QED
    BY <1>1, <1>2, <1>5, SameBuilt, WalkTruth

LEMMA CompileFailsTruth ==
    ASSUME IInv, TruthInv, compileFails
    PROVE  TruthInv'
  <1>1. /\ stack # <<>> /\ executors' = executors
        /\ errors' = Append(errors, [kind |-> "compile", entry |-> top.entry])
    BY DEF compileFails, allDependencies, inCall
  <1>2. walking
    BY DEF walking, processRERecursive
  <1>3. top.entry \in Nat
    BY <1>1, StackIsTyped DEF IInv, top, Frames
  <1>4. CyclesAreReal' /\ MissingAreMissing'
    BY <1>1, <1>2, <1>3, WalkError
  <1> QED
    BY <1>1, <1>2, <1>4, SameBuilt, WalkTruth

(* What is compiled was closed under mentions without the entry, and has   *)
(* all that it mentions: the entry is on no cycle.                         *)
LEMMA CompileEntryTruth ==
    ASSUME IInv, TruthInv, compileEntry
    PROVE  TruthInv'
  <1>1. /\ pc = "compile" /\ stack # <<>> /\ top.recok /\ top.next > Len(depsOf(top.entry))
        /\ executors' = put(executors, top.entry, executorOf(top.entry))
        /\ errors' = errors
    BY DEF compileEntry, allDependencies, inCall
  <1>2. walking
    BY DEF walking, processRERecursive
  <1>3. built' = built \cup {top.entry} /\ built \subseteq Indexes
    BY <1>1, WalkState DEF built, put
  <1>4. Len(stack) \in DOMAIN stack /\ FrameOK(top)
    BY <1>1, StackIsTyped DEF IInv, top
  <1>5. top.entry \in Indexes /\ top.entry \notin built
    BY <1>4 DEF FrameOK, top, IInv, WalkInv, PendingIsAPath
  <1>6. linksOf(top.entry) \subseteq built
    <2>1. \A k \in 1 .. top.next - 1 : depsOf(top.entry)[k] \in built
      BY <1>1, <1>4 DEF top, IInv, WalkInv, DependenciesAreBuilt
    <2>2. \A k \in DOMAIN depsOf(top.entry) : k \in 1 .. top.next - 1
      BY <1>1, <1>4, <1>5, LinksAreTyped DEF IInv, FrameOK
    <2> QED
      BY <2>1, <2>2 DEF linksOf
  <1>7. BuiltIsClosed'
    BY <1>2, <1>3, <1>6, WalkTexts DEF TruthInv, BuiltIsClosed
  <1>8. NoneBuiltIsCyclic'
    <2>1. ASSUME Plain
          PROVE  ~onCycle(top.entry)
      <3>1. mentions(top.entry) \subseteq built /\ \A j \in built : mentions(j) \subseteq built
        BY <1>1, <1>3, <1>5, <1>6, <2>1, WalkLinks DEF TruthInv, BuiltIsClosed
      <3> QED
        BY <1>3, <1>5, <3>1 DEF onCycle
    <2> QED
      BY <1>2, <1>3, <2>1, WalkTexts, SameTexts DEF TruthInv, NoneBuiltIsCyclic
  <1>9. CyclesAreReal' /\ MissingAreMissing'
    BY <1>1, <1>2, WalkTexts, SameErrors
  <1> QED
    BY <1>2, <1>7, <1>8, <1>9, WalkTruth

LEMMA NextTruth == IInv /\ TruthInv /\ [Next]_vars => TruthInv'
  <1> SUFFICES ASSUME IInv, TruthInv, [Next]_vars
               PROVE  TruthInv'
    OBVIOUS
  <1>1. CASE prepare
    BY <1>1, ParseTruth, AllParsedTruth, LinkEntryTruth, LinkDependencyTruth, AllLinkedTruth
       DEF prepare
  <1>2. CASE walking /\ errors' = errors /\ executors' = executors
    BY <1>2, WalkTexts, SameErrors, SameBuilt, WalkTruth
  <1>3. CASE walking /\ ~(errors' = errors /\ executors' = executors)
    <2>1. detectCycle \/ compileFails \/ compileEntry
      BY <1>3 DEF walking, processRERecursive, processEntry, processSystemReturns,
         alreadyCompiled, enter, callDependency, dependencyReturns, dependenciesFailed
    <2> QED
      BY <2>1, DetectCycleTruth, CompileFailsTruth, CompileEntryTruth
  <1>4. CASE UNCHANGED vars
    <2>1. /\ UNCHANGED <<pc, at, todo, errors, entries, deps, nsmap, built, linkedNow>>
          /\ \A i : linksOf(i)' = linksOf(i)
      BY <1>4 DEF vars, built, linksOf, depsOf, fullname, linkedNow, Indexes
    <2>2. \A i : stillToLink(i)' = stillToLink(i)
      BY <2>1, SameTexts DEF stillToLink
    <2> QED
      BY <2>1, <2>2, SameTexts, SameErrors
         DEF TruthInv, EarlyErrors, LinksAreMentions, BuiltIsClosed, NoneBuiltIsCyclic
  <1> QED
    BY <1>1, <1>2, <1>3, <1>4 DEF Next, walking

(* While nothing is renamed twice, every cycle reported is one of the      *)
(* texts, a system processed to its end has none, and a dependency is      *)
(* reported as missing only when no entry has its name.                    *)
THEOREM ErrorsSayTheTruth == Spec => []ErrorsAreTrue
  <1>1. IInv /\ TruthInv => ErrorsAreTrue
    BY DEF IInv, WalkInv, LoopIsAt, LinkedPhases, TruthInv, ErrorsAreTrue, NoneBuiltIsCyclic,
           CyclesAreReal, MissingAreMissing
  <1> QED
    BY <1>1, InitTruth, NextTruth, Invariance, PTL DEF Spec

(* processSystem ends without a word and without all executors only on     *)
(* account of a dependency that loadIntoNameMap refuses.                   *)
THEOREM OnlyUnloadableIsSilent ==
    Spec => [](pc \in Ended /\ errors = <<>> => built = Indexes \/ SomeUnloadable)
  <1>1. IInv => (pc \in Ended /\ errors = <<>> => built = Indexes \/ SomeUnloadable)
    BY DEF IInv, PrepareInv, WalkInv, FailuresHaveCauses, LoopIsAt, Ended, LinkedPhases
  <1> QED
    BY <1>1, Invariance, PTL

(* The recursion of processRERecursive is never deeper than there are      *)
(* entries, whatever they name.                                            *)
THEOREM RecursionIsBounded == Spec => [](Len(stack) <= Len(entries))
  <1>1. ASSUME IInv
        PROVE  Len(stack) <= Len(entries)
    <2> DEFINE n == Len(stack)
               m == Len(entries)
               f == [i \in 1 .. n |-> stack[i].entry]
    <2>1. n \in Nat /\ m \in Nat /\ DOMAIN stack = 1 .. n /\ Indexes = 1 .. m
      BY <1>1, StackIsTyped DEF IInv, TypeInv
    <2>2. \A i \in 1 .. n : stack[i].entry \in 1 .. m
      BY <1>1, <2>1, StackIsTyped DEF IInv, FrameOK
    <2>3. \A i, j \in 1 .. n : stack[i].entry = stack[j].entry => i = j
      BY <1>1, <2>1 DEF IInv, WalkInv, PendingIsAPath
    <2>4. f \in [1 .. n -> 1 .. m] /\ \A i, j \in 1 .. n : f[i] = f[j] => i = j
      BY <2>2, <2>3
    <2> HIDE DEF n, m, f
    <2>5. f \in Injection(1 .. n, 1 .. m)
      BY <2>4 DEF Injection, IsInjective
    <2>6. /\ IsFiniteSet(1 .. m)
          /\ Cardinality(1 .. m) = (IF 1 > m THEN 0 ELSE m - 1 + 1)
          /\ Cardinality(1 .. n) = (IF 1 > n THEN 0 ELSE n - 1 + 1)
      BY <2>1, FS_Interval
    <2>7. Cardinality(1 .. n) <= Cardinality(1 .. m)
      BY <2>5, <2>6, FS_Injection
    <2> QED
      BY <2>1, <2>6, <2>7 DEF n, m
  <1>2. IInv => Len(stack) <= Len(entries)
    BY <1>1
  <1> QED
    BY <1>2, Invariance, PTL

=============================================================================
