------------------------------ MODULE ReSystem ------------------------------
(***************************************************************************)
(* ReSystem::processSystem (src/src/regex/brex_system.h): a system of      *)
(* named expressions, spread over namespaces that may rename each other,   *)
(* is parsed, linked and compiled, each entry after those it names.        *)
(*                                                                         *)
(* The recursion of processRERecursive is explicit: a frame of stack is a  *)
(* call that is going through its dependencies, callee the entry a call is *)
(* about to be made on, result the answer of the call that just returned.  *)
(*                                                                         *)
(* A written name is [ns, base], with ns = "" when it is not qualified; a  *)
(* full name is one with a namespace.  The two levels of lists of the      *)
(* argument are flattened: [mappings, reinfos], in the order the loops     *)
(* visit them.  Names of one entry, a sorted std::set in the code, are     *)
(* visited in any order.                                                   *)
(***************************************************************************)
EXTENDS RegexComponents, Integers, Sequences, SequencesExt

CONSTANTS
    Systems,               \* what processSystem is called with
    Names,                 \* the names written in the texts
    NoRegex,               \* what parsing a text with an error gives
    Parse(_),              \* RegexParser on a text: a Regex or NoRegex
    ConstNames(_),         \* gatherNamedRegexKeys on a Regex: constant names
    EnvRequired(_),        \* ... and whether a name of the environment occurs
    CompileErrors(_,_,_),  \* the compiler on a Regex, namedRegexes and a name
    Executor(_,_,_)        \*   resolver: its errors, and what it builds

(* The entries are listed. *)
ASSUME SystemsAssumption ==
    \A s \in Systems : Len(s.reinfos) \in Nat /\ DOMAIN s.reinfos = 1 .. Len(s.reinfos)

VARIABLES
    sinfo,       \* the argument
    nsmap,       \* ReNSRemapper::nsmap
    entries,     \* ReSystem::entries: [ns, fullname, restr]
    parsed,      \* their re, with no value for nullptr
    deps,        \* their deps
    depmap,      \* ReSystem::depmap, from full names to indexes of entries
    named,       \* namedRegexes
    executors,   \* the executors, with no value for nullptr
    errors,      \* the errors reported
    pc,          \* the phase, and how it ended
    at,          \* the entry the loop of the phase is at
    todo,        \* the dependencies of it that are still to be linked
    stack, callee, result

vars == <<sinfo, nsmap, entries, parsed, deps, depmap, named, executors,
          errors, pc, at, todo, stack, callee, result>>

built == DOMAIN executors
fullname(e) == entries[e].fullname
depsOf(e) == depmap[fullname(e)]

(* A map, or the pointers of the entries, with one more. *)
put(f, x, v) == [y \in DOMAIN f \cup {x} |-> IF y = x THEN v ELSE f[y]]

-----------------------------------------------------------------------------
(* ReNSRemapper *)

(* The smallest index of a sequence whose element satisfies P. *)
firstWith(seq, P(_)) ==
    CHOOSE i \in DOMAIN seq : P(seq[i]) /\ \A j \in DOMAIN seq : P(seq[j]) => i <= j

(* addSingleNSMapping for every mapping: the first one of a namespace      *)
(* stays, and a namespace without mappings has no entry.                   *)
addSingleNSMapping(ms) ==
    [inns \in {ms[i].inns : i \in DOMAIN ms} |->
        [from \in {ms[i].from : i \in {j \in DOMAIN ms : ms[j].inns = inns}} |->
            ms[firstWith(ms, LAMBDA m : m.inns = inns /\ m.from = from)].to]]

resolveNamespace(inns, ns) ==
    IF inns \in DOMAIN nsmap /\ ns \in DOMAIN nsmap[inns] THEN nsmap[inns][ns] ELSE ns

(* A name without a namespace is one of the namespace it is written in. *)
remapName(inns, n) ==
    [n EXCEPT !.ns = IF n.ns = "" THEN inns ELSE resolveNamespace(inns, n.ns)]

(* resolveREName as the compiler of an entry of a namespace is given it.   *)
(* Mutant: a name is given a namespace, and its own is not mapped.         *)
resolveRENameUnmapped(inns) ==      \* mutant
    [n \in Names |-> [n EXCEPT !.ns = IF n.ns = "" THEN inns ELSE n.ns]]
resolveREName(inns) == [n \in Names |-> remapName(inns, n)]

-----------------------------------------------------------------------------
Init ==
    /\ sinfo \in Systems
    /\ nsmap = <<>> /\ entries = <<>> /\ parsed = <<>> /\ deps = <<>>
    /\ depmap = <<>> /\ named = <<>> /\ executors = <<>> /\ errors = <<>>
    /\ pc = "load" /\ at = 1 /\ todo = {}
    /\ stack = <<>> /\ callee = 0 /\ result = "none"

walkIdle == UNCHANGED <<stack, callee, result, named, executors>>

(* The mappings first, then the entries with their full names. *)
loadEntries ==
    /\ pc = "load" /\ pc' = "parse"
    /\ nsmap' = addSingleNSMapping(sinfo.mappings)
    /\ entries' = [i \in DOMAIN sinfo.reinfos |->
                     LET ri == sinfo.reinfos[i]
                     IN  [ns |-> ri.ns, fullname |-> [ns |-> ri.ns, base |-> ri.name],
                          restr |-> ri.restr]]
    /\ UNCHANGED <<sinfo, parsed, deps, depmap, errors, at, todo>> /\ walkIdle

(* computeDeps: the full names an entry mentions; an entry that reads the  *)
(* environment keeps none.                                                 *)
computeDeps(e, re) ==
    IF EnvRequired(re) THEN {} ELSE {remapName(entries[e].ns, n) : n \in ConstNames(re)}

(* First loop of computeDependencies: compileRegex and computeDeps. *)
parseEntry ==
    /\ pc = "parse" /\ at <= Len(entries)
    /\ LET re == Parse(entries[at].restr)
           err == IF re = NoRegex THEN "parse" ELSE "dependencies"
       IN  /\ parsed' = IF re = NoRegex THEN parsed ELSE put(parsed, at, re)
           /\ deps' = Append(deps, IF re = NoRegex THEN {} ELSE computeDeps(at, re))
           /\ errors' = IF re = NoRegex \/ EnvRequired(re)
                          THEN Append(errors, [kind |-> err, entry |-> at]) ELSE errors
    /\ at' = at + 1
    /\ UNCHANGED <<sinfo, nsmap, entries, depmap, pc, todo>> /\ walkIdle

allParsed ==
    /\ pc = "parse" /\ at > Len(entries)
    /\ pc' = "link" /\ at' = 0 /\ todo' = {}
    /\ UNCHANGED <<sinfo, nsmap, entries, parsed, deps, depmap, errors>> /\ walkIdle

(* Second loop: a dependency, remapped once more in the namespace of the   *)
(* entry, is looked for among the full names.                              *)
linkEntry ==
    /\ pc = "link" /\ todo = {} /\ at < Len(entries)
    /\ at' = at + 1 /\ todo' = deps[at + 1]
    /\ depmap' = IF fullname(at + 1) \in DOMAIN depmap THEN depmap
                 ELSE put(depmap, fullname(at + 1), <<>>)
    /\ UNCHANGED <<sinfo, nsmap, entries, parsed, deps, errors, pc>> /\ walkIdle

entriesNamed(n) == {i \in DOMAIN entries : fullname(i) = n}
findEntry(n) == firstWith(entries, LAMBDA x : x.fullname = n)

linkDependency ==
    /\ pc = "link"
    /\ \E dep \in todo :
          LET rdep == remapName(entries[at].ns, dep)
          IN  /\ todo' = todo \ {dep}
              /\ IF entriesNamed(rdep) # {}
                   THEN /\ depmap' = [depmap EXCEPT ![fullname(at)] = Append(@, findEntry(rdep))]
                        /\ UNCHANGED errors
                   ELSE /\ errors' = Append(errors, [kind |-> "dependency", entry |-> at])
                        /\ UNCHANGED depmap
    /\ UNCHANGED <<sinfo, nsmap, entries, parsed, deps, pc, at>> /\ walkIdle

(* Mutant: errors found so far do not keep the system from being compiled. *)
linkedAnyway ==
    /\ pc = "link" /\ todo = {} /\ at = Len(entries)
    /\ pc' = "compile" /\ at' = 0
    /\ UNCHANGED <<sinfo, nsmap, entries, parsed, deps, depmap, errors, todo>> /\ walkIdle

(* Nothing is compiled when there is any error so far. *)
allLinked ==
    /\ pc = "link" /\ todo = {} /\ at = Len(entries)
    /\ pc' = IF errors = <<>> THEN "compile" ELSE "refused"
    /\ at' = 0
    /\ UNCHANGED <<sinfo, nsmap, entries, parsed, deps, depmap, errors, todo>> /\ walkIdle

-----------------------------------------------------------------------------
linked == <<sinfo, nsmap, entries, parsed, deps, depmap, todo>>

(* The loop of processSystem over the entries, each with a new pending     *)
(* list; it returns at the first entry that could not be processed.        *)
processEntry ==
    /\ pc = "compile" /\ stack = <<>> /\ callee = 0
    /\ result # "failed" /\ at < Len(entries)
    /\ at' = at + 1 /\ callee' = at + 1 /\ result' = "none"
    /\ UNCHANGED <<linked, named, executors, errors, pc, stack>>

processSystemReturns ==
    /\ pc = "compile" /\ stack = <<>> /\ callee = 0
    /\ \/ result = "failed" /\ pc' = "stopped"
       \/ result # "failed" /\ at = Len(entries) /\ pc' = "finished"
    /\ UNCHANGED <<linked, named, executors, errors, at, stack, callee, result>>

top == stack[Len(stack)]
pendingBases ==      \* mutant
    {fullname(i) : i \in {j \in DOMAIN entries :
        \E k \in DOMAIN stack : fullname(j).base = fullname(stack[k].entry).base}}
pending == {fullname(stack[i].entry) : i \in DOMAIN stack}
answer(r) == callee' = 0 /\ result' = r

(* processRERecursive, from its start to the call for a dependency *)
alreadyCompiled ==
    /\ pc = "compile" /\ callee \in built
    /\ answer("ok")
    /\ UNCHANGED <<linked, named, executors, errors, pc, at, stack>>

(* Mutant: a cycle is not reported. *)
detectCycleSilently ==
    /\ pc = "compile" /\ callee # 0 /\ callee \notin built
    /\ fullname(callee) \in pending
    /\ answer("failed")
    /\ UNCHANGED <<linked, named, executors, errors, pc, at, stack>>

detectCycle ==
    /\ pc = "compile" /\ callee # 0 /\ callee \notin built
    /\ fullname(callee) \in pending
    /\ errors' = Append(errors, [kind |-> "cycle", entry |-> callee])
    /\ answer("failed")
    /\ UNCHANGED <<linked, named, executors, pc, at, stack>>

(* Mutant: only the caller is looked at for a cycle. *)
enterUnlessCaller ==
    /\ pc = "compile" /\ callee # 0 /\ callee \notin built
    /\ IF stack = <<>> THEN TRUE ELSE fullname(callee) # fullname(top.entry)
    /\ stack' = Append(stack, [entry |-> callee, next |-> 1, recok |-> TRUE])
    /\ answer("none")
    /\ UNCHANGED <<linked, named, executors, errors, pc, at>>

enter ==
    /\ pc = "compile" /\ callee # 0 /\ callee \notin built
    /\ fullname(callee) \notin pending
    /\ stack' = Append(stack, [entry |-> callee, next |-> 1, recok |-> TRUE])
    /\ answer("none")
    /\ UNCHANGED <<linked, named, executors, errors, pc, at>>

inCall == pc = "compile" /\ stack # <<>> /\ callee = 0

callDependency ==
    /\ inCall /\ result = "none" /\ top.next <= Len(depsOf(top.entry))
    /\ callee' = depsOf(top.entry)[top.next]
    /\ UNCHANGED <<linked, named, executors, errors, pc, at, stack, result>>

(* loadIntoNameMap refuses what is not one plain expression, silently; of  *)
(* two entries with one full name the first loaded stays.                  *)
loadable(re) ==
    /\ re.preanchor = NoComponent /\ re.postanchor = NoComponent
    /\ re.re.tag = "Single"
    /\ ~re.re.entry.isFrontCheck /\ ~re.re.entry.isBackCheck /\ ~re.re.entry.isNegated

loadIntoNameMap(dep) ==
    named' = IF ~loadable(parsed[dep]) \/ fullname(dep) \in DOMAIN named THEN named
             ELSE put(named, fullname(dep), parsed[dep].re.entry.opt)

(* One step of the accumulation. *)
advanced(f, ok) == [entry |-> f.entry, next |-> f.next + 1, recok |-> f.recok /\ ok]

(* Mutants: a dependency that failed is loaded too; one that cannot be     *)
(* loaded is no failure.                                                   *)
loadsAlways ==
    /\ inCall /\ result # "none"
    /\ LET dep == depsOf(top.entry)[top.next]
           ok == result = "ok" /\ loadable(parsed[dep])
       IN  /\ loadIntoNameMap(dep)
           /\ stack' = [stack EXCEPT ![Len(stack)] = advanced(@, ok)]
    /\ result' = "none"
    /\ UNCHANGED <<linked, executors, errors, pc, at, callee>>

loadIgnored ==
    /\ inCall /\ result # "none"
    /\ LET dep == depsOf(top.entry)[top.next]
       IN  /\ IF result = "ok" THEN loadIntoNameMap(dep) ELSE UNCHANGED named
           /\ stack' = [stack EXCEPT ![Len(stack)] = advanced(@, result = "ok")]
    /\ result' = "none"
    /\ UNCHANGED <<linked, executors, errors, pc, at, callee>>

(* The accumulation goes on after a dependency that failed. *)
dependencyReturns ==
    /\ inCall /\ result # "none"
    /\ LET dep == depsOf(top.entry)[top.next]
           ok == result = "ok" /\ loadable(parsed[dep])
       IN  /\ IF result = "ok" THEN loadIntoNameMap(dep) ELSE UNCHANGED named
           /\ stack' = [stack EXCEPT ![Len(stack)] = advanced(@, ok)]
    /\ result' = "none"
    /\ UNCHANGED <<linked, executors, errors, pc, at, callee>>

allDependencies == inCall /\ result = "none" /\ top.next > Len(depsOf(top.entry))
pop == stack' = SubSeq(stack, 1, Len(stack) - 1)

dependenciesFailed ==
    /\ allDependencies /\ ~top.recok
    /\ pop /\ result' = "failed"
    /\ UNCHANGED <<linked, named, executors, errors, pc, at, callee>>

(* The compiler reports the entry, or builds its executor.  Every name is  *)
(* resolved in the namespace of this entry, those in the bodies of its     *)
(* dependencies too.                                                       *)
compileErrorsOf(e) == CompileErrors(parsed[e], named, resolveREName(entries[e].ns))
executorUnnamed(e) ==      \* mutant
    Executor(parsed[e], <<>>, resolveREName(entries[e].ns))
executorOf(e) == Executor(parsed[e], named, resolveREName(entries[e].ns))

compileFails ==
    /\ allDependencies /\ top.recok /\ compileErrorsOf(top.entry) # {}
    /\ errors' = Append(errors, [kind |-> "compile", entry |-> top.entry])
    /\ pop /\ result' = "failed"
    /\ UNCHANGED <<linked, named, executors, pc, at, callee>>

(* Mutant: an entry is compiled although a dependency failed. *)
compileAnyway ==
    /\ allDependencies /\ compileErrorsOf(top.entry) = {}
    /\ executors' = put(executors, top.entry, executorOf(top.entry))
    /\ pop /\ result' = "ok"
    /\ UNCHANGED <<linked, named, errors, pc, at, callee>>

compileEntry ==
    /\ allDependencies /\ top.recok /\ compileErrorsOf(top.entry) = {}
    /\ executors' = put(executors, top.entry, executorOf(top.entry))
    /\ pop /\ result' = "ok"
    /\ UNCHANGED <<linked, named, errors, pc, at, callee>>

prepare == loadEntries \/ parseEntry \/ allParsed \/ linkEntry \/ linkDependency \/ allLinked

processRERecursive ==
    \/ alreadyCompiled \/ detectCycle \/ enter
    \/ callDependency \/ dependencyReturns \/ dependenciesFailed
    \/ compileFails \/ compileEntry

Next == prepare \/ processEntry \/ processSystemReturns \/ processRERecursive

Spec == Init /\ [][Next]_vars /\ WF_vars(Next)

-----------------------------------------------------------------------------
(* Properties *)

Phases == {"load", "parse", "link", "compile", "refused", "stopped", "finished"}
Ended == {"refused", "stopped", "finished"}
Indexes == DOMAIN entries
LinkedPhases == {"compile", "stopped", "finished"}

FrameOK(f) ==
    /\ f.entry \in Indexes /\ f.recok \in BOOLEAN
    /\ f.next \in 1 .. Len(depsOf(f.entry)) + 1

TypeOK ==
    /\ pc \in Phases
    /\ at \in Nat /\ result \in {"none", "ok", "failed"}
    /\ at <= Len(entries) + 1
    /\ DOMAIN parsed \subseteq Indexes /\ built \subseteq Indexes
    /\ \A n \in DOMAIN depmap : depmap[n] \in Seq(Indexes)
    /\ pc \in LinkedPhases =>
          DOMAIN parsed = Indexes /\ \A i \in Indexes : fullname(i) \in DOMAIN depmap
    /\ callee \in Indexes \cup {0}
    /\ \A i \in DOMAIN stack : FrameOK(stack[i])

(* The calls in progress follow dependencies, never the same full name     *)
(* twice, and nothing on the way is compiled yet: the recursion is bounded *)
(* by the number of full names and no executor is built twice.             *)
PendingIsAPath ==
    \A i \in DOMAIN stack :
        /\ stack[i].entry \notin built
        /\ \A j \in DOMAIN stack : fullname(stack[i].entry) = fullname(stack[j].entry) => i = j
        /\ i < Len(stack) =>
              /\ stack[i].next <= Len(depsOf(stack[i].entry))
              /\ depsOf(stack[i].entry)[stack[i].next] = stack[i + 1].entry

(* The compiler is only ever given names whose entries are compiled, with  *)
(* the expression of such an entry: what it expands is known to be good.   *)
NamesAreBuilt ==
    \A n \in DOMAIN named : \E i \in built :
        fullname(i) = n /\ named[n] = parsed[i].re.entry.opt

(* When an entry reaches the compiler all its dependencies are in          *)
(* namedRegexes, the ones refused along the way notwithstanding.           *)
DependenciesAreNamed ==
    \A i \in DOMAIN stack : stack[i].recok =>
        \A k \in 1 .. stack[i].next - 1 :
            fullname(depsOf(stack[i].entry)[k]) \in DOMAIN named

(* BuildOrder, with the entries by their index: the references are settled *)
(* once computeDependencies found no error.                                *)
depGraph == IF pc \in LinkedPhases
              THEN [i \in Indexes |-> {depsOf(i)[k] : k \in DOMAIN depsOf(i)}]
              ELSE [e \in {} |-> {}]
outcomeOf == CASE pc = "finished" -> "done"
               [] pc \in {"refused", "stopped"} -> "failed"
               [] OTHER -> "running"
Order == INSTANCE BuildOrder WITH
            Entry <- Nat, deps <- depGraph, built <- built, outcome <- outcomeOf

(* The system is built in an order of its references, every executor is    *)
(* there when processSystem went through all entries, and it returns.      *)
Implements == Order!Spec

(* A failure that is not reported is a dependency loadIntoNameMap refuses: *)
(* every other way to end without all executors leaves an error.           *)
SomeUnloadable == \E i \in Indexes : \E k \in DOMAIN depsOf(i) : ~loadable(parsed[depsOf(i)[k]])
FailureIsReported ==
    /\ pc = "refused" => errors # <<>>
    /\ pc = "stopped" => errors # <<>> \/ SomeUnloadable

(* Nothing is renamed twice, and full names differ. *)
Plain ==
    /\ \A i, j \in Indexes : fullname(i) = fullname(j) => i = j
    /\ \A i \in DOMAIN deps : \A d \in deps[i] : remapName(entries[i].ns, d) = d

mentions(i) == {j \in Indexes : i \in DOMAIN deps /\ fullname(j) \in deps[i]}
onCycle(i) ==
    \A S \in SUBSET Indexes :
        mentions(i) \subseteq S /\ (\A j \in S : mentions(j) \subseteq S) => i \in S

(* The cycles reported are cycles of the texts and none is missed, and a   *)
(* dependency reported as missing is a name no entry has.                  *)
ErrorsAreTrue ==
    Plain =>
        /\ \A k \in DOMAIN errors : errors[k].kind = "cycle" => onCycle(errors[k].entry)
        /\ pc = "finished" => ~\E i \in Indexes : onCycle(i)
        /\ \A k \in DOMAIN errors : errors[k].kind = "dependency" =>
              \E d \in deps[errors[k].entry] : \A i \in Indexes : fullname(i) # d

(* What the tests of the repository take for granted: without errors every *)
(* name has an executor.                                                   *)
NoErrorsMeansExecutors == pc \in Ended /\ errors = <<>> => built = Indexes

=============================================================================
