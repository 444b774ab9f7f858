----------------------------- MODULE BuildOrder -----------------------------
(***************************************************************************)
(* LibraryRegistry (builder/config.py:356-475) and the part of build.py    *)
(* main that turns the command line into the list of libraries to build    *)
(* (build.py:308-334).                                                     *)
(*                                                                         *)
(* Both recursions of the registry, collect_deps and visit, are modelled   *)
(* with their call stack: one action per iteration of their loops, so that *)
(* cycles, diamonds and early returns go through the marks exactly as in   *)
(* the code.  The registry itself (the YAML files of libraries/) and the   *)
(* request are chosen in Init and never change.                            *)
(***************************************************************************)
EXTENDS Naturals, Sequences

CONSTANTS
  Name,            \* the names a YAML file can mention
  NoLibrary,       \* no --library on the command line
  Alphabet,        \* Name in the order of sorted()
  Registries,      \* the registries considered
  RecursionLimit   \* calls the interpreter allows on its stack

Registry == [libs       : SUBSET Name,          \* _libraries.keys()
             disabled   : SUBSET Name,          \* disabled on this platform
             depends_on : [Name -> Seq(Name)],  \* YAML depends_on, in order
             order      : Seq(Name)]            \* _build_order.yaml

ASSUME RegistriesAssumption == Registries \subseteq Registry

ASSUME AlphabetAssumption ==
  /\ Alphabet \in Seq(Name)
  /\ {Alphabet[i] : i \in DOMAIN Alphabet} = Name

ASSUME NoLibraryAssumption == NoLibrary \notin Name

ASSUME RecursionLimitAssumption == RecursionLimit \in Nat \ {0}

VARIABLES
  registry,   \* what _load_libraries and _load_build_order have read
  request,    \* the --library and --no-deps arguments
  pc,         \* where main is
  stack,      \* pending calls of collect_deps, then of visit
  deps,       \* deps of get_with_dependencies
  todo,       \* what the loop over base_order, then over all_ordered, has left
  temp_mark, visited, ordered,   \* the locals of get_build_order
  plan,       \* the list of libraries main goes on with
  outcome     \* how the selection ended

vars == <<registry, request, pc, stack, deps, todo, temp_mark, visited,
          ordered, plan, outcome>>

-----------------------------------------------------------------------------
(* The registry as the code sees it on one platform.                       *)

(* Library.is_enabled_for_platform of the registered libraries: the dict   *)
(* `enabled` of get_build_order.                                           *)
Enabled == registry.libs \ registry.disabled

DependsOn(l) == registry.depends_on[l]

(* The dependencies either recursion follows: names that are not registered*)
(* or are disabled on the platform are passed over.                        *)
EnabledDeps(l) ==
  {DependsOn(l)[i] : i \in DOMAIN DependsOn(l)} \cap Enabled

(* A call in progress: the library and the dependency its loop is at.      *)
Call(l, n) == [lib |-> l, next |-> n]
Top == stack[Len(stack)]
Pop == SubSeq(stack, 1, Len(stack) - 1)
Push(s, l) == Append(s, Call(l, 1))
Advance(s) == [s EXCEPT ![Len(s)].next = @ + 1]

AtDep == stack # << >> /\ Top.next \in DOMAIN DependsOn(Top.lib)
AtReturn == stack # << >> /\ Top.next \notin DOMAIN DependsOn(Top.lib)
Dep == DependsOn(Top.lib)[Top.next]

(* Mutant of Return: the caller looks at the same dependency again. *)
ReturnInPlace == IF Len(stack) = 1 THEN << >> ELSE Pop

(* A caller whose callee has just returned moves on to its next dependency.*)
Return == IF Len(stack) = 1 THEN << >> ELSE Advance(Pop)

(* Mutants of Candidates: the configured order alone; the two halves       *)
(* swapped.                                                                *)
ConfiguredOnly == registry.order
AlphabetFirst == Alphabet \o registry.order

(* base_order is the configured order and then every name alphabetically.  *)
(* The code filters it to enabled names without repetition before the loop;*)
(* here the loop passes over the same names when it reaches them.          *)
Candidates == registry.order \o Alphabet

-----------------------------------------------------------------------------
Init ==
  /\ registry \in Registries
  /\ request \in [library : Name \cup {NoLibrary}, no_deps : BOOLEAN]
  /\ pc = "select"
  /\ stack = << >>
  /\ deps = {}
  /\ todo = << >>
  /\ temp_mark = {} /\ visited = {} /\ ordered = << >>
  /\ plan = << >>
  /\ outcome = "none"

End(o) == pc' = "done" /\ outcome' = o

Locals == <<registry, request, temp_mark, visited, ordered>>

(* build.py:310-321: --library X --no-deps asks the registry for X alone.  *)
SelectAlone ==
  /\ pc = "select" /\ request.library # NoLibrary /\ request.no_deps
  /\ \/ /\ request.library \notin registry.libs
        /\ End("unknown") /\ UNCHANGED plan
     \/ /\ request.library \in registry.disabled \cap registry.libs
        /\ End("unavailable") /\ UNCHANGED plan
     \/ /\ request.library \in Enabled
        /\ plan' = <<request.library>> /\ End("planned")
  /\ UNCHANGED <<Locals, stack, deps, todo>>

(* get_with_dependencies: an unknown name gives [], which main reports.    *)
SelectUnknown ==
  /\ pc = "select" /\ request.library # NoLibrary /\ ~request.no_deps
  /\ request.library \notin registry.libs
  /\ End("unknown")
  /\ UNCHANGED <<Locals, stack, deps, todo, plan>>

(* get_with_dependencies: collect_deps(lib).  Whether the library itself   *)
(* is enabled is not asked.                                                *)
SelectWithDeps ==
  /\ pc = "select" /\ request.library # NoLibrary /\ ~request.no_deps
  /\ request.library \in registry.libs
  /\ pc' = "collect"
  /\ stack' = Push(<< >>, request.library)
  /\ UNCHANGED <<Locals, deps, todo, plan, outcome>>

(* No --library: get_build_order over the whole platform.                  *)
SelectAll ==
  /\ pc = "select" /\ request.library = NoLibrary
  /\ pc' = "order" /\ todo' = Candidates
  /\ UNCHANGED <<Locals, stack, deps, plan, outcome>>

(* Mutants of CollectDep: any registered dependency is followed; only the  *)
(* direct dependencies are collected.                                      *)
CollectAnyDep ==
  /\ pc = "collect" /\ AtDep
  /\ IF Dep \notin registry.libs
     THEN stack' = Advance(stack) /\ UNCHANGED <<deps, pc, outcome>>
     ELSE /\ deps' = deps \cup {Dep}
          /\ \/ /\ Len(stack) < RecursionLimit
                /\ stack' = Push(stack, Dep) /\ UNCHANGED <<pc, outcome>>
             \/ /\ Len(stack) >= RecursionLimit
                /\ End("recursion") /\ UNCHANGED stack
  /\ UNCHANGED <<Locals, todo, plan>>

CollectDirectDep ==
  /\ pc = "collect" /\ AtDep
  /\ stack' = Advance(stack)
  /\ deps' = IF Dep \in Enabled THEN deps \cup {Dep} ELSE deps
  /\ UNCHANGED <<Locals, pc, outcome, todo, plan>>

(* One iteration of the loop of collect_deps.  There is no visited set: a  *)
(* library reached along two paths is collected twice, and a cycle recurses*)
(* until the interpreter raises RecursionError, which nothing catches.     *)
CollectDep ==
  /\ pc = "collect" /\ AtDep
  /\ IF Dep \notin Enabled
     THEN stack' = Advance(stack) /\ UNCHANGED <<deps, pc, outcome>>
     ELSE /\ deps' = deps \cup {Dep}
          /\ \/ /\ Len(stack) < RecursionLimit
                /\ stack' = Push(stack, Dep) /\ UNCHANGED <<pc, outcome>>
             \/ /\ Len(stack) >= RecursionLimit
                /\ End("recursion") /\ UNCHANGED stack
  /\ UNCHANGED <<Locals, todo, plan>>

(* A call of collect_deps returns; after the first one, get_build_order.   *)
CollectReturn ==
  /\ pc = "collect" /\ AtReturn
  /\ stack' = Return
  /\ IF Len(stack) = 1
     THEN pc' = "order" /\ todo' = Candidates
     ELSE UNCHANGED <<pc, todo>>
  /\ UNCHANGED <<Locals, deps, plan, outcome>>

(* The outer loop of get_build_order takes the next name of base_order.    *)
VisitNext ==
  /\ pc = "order" /\ stack = << >> /\ todo # << >>
  /\ todo' = Tail(todo)
  /\ IF Head(todo) \in Enabled \ visited
     THEN /\ stack' = Push(<< >>, Head(todo))
          /\ temp_mark' = temp_mark \cup {Head(todo)}
     ELSE UNCHANGED <<stack, temp_mark>>
  /\ UNCHANGED <<registry, request, pc, deps, visited, ordered, plan, outcome>>

(* Mutant of VisitDep: a dependency is left to its own turn in base_order. *)
VisitNoDep ==
  /\ pc = "order" /\ AtDep
  /\ stack' = Advance(stack)
  /\ UNCHANGED <<registry, request, pc, deps, todo, temp_mark, visited,
                 ordered, plan, outcome>>

(* One iteration of the loop of visit: the guards of the recursive call    *)
(* and the early returns of the callee, in the callee's order.             *)
VisitDep ==
  /\ pc = "order" /\ AtDep
  /\ \/ /\ Dep \notin Enabled
        /\ stack' = Advance(stack) /\ UNCHANGED <<temp_mark, pc, outcome>>
     \/ /\ Dep \in Enabled /\ Dep \in temp_mark
        /\ End("circular") /\ UNCHANGED <<stack, temp_mark>>
     \/ /\ Dep \in Enabled \ temp_mark /\ Dep \in visited
        /\ stack' = Advance(stack) /\ UNCHANGED <<temp_mark, pc, outcome>>
     \/ /\ Dep \in Enabled \ temp_mark /\ Dep \notin visited
        /\ stack' = Push(stack, Dep)
        /\ temp_mark' = temp_mark \cup {Dep}
        /\ UNCHANGED <<pc, outcome>>
  /\ UNCHANGED <<registry, request, deps, todo, visited, ordered, plan>>

(* Mutant of VisitReturn: the temporary mark stays.                        *)
VisitReturnMarked ==
  /\ pc = "order" /\ AtReturn
  /\ visited' = visited \cup {Top.lib}
  /\ ordered' = Append(ordered, Top.lib)
  /\ stack' = Return
  /\ UNCHANGED <<registry, request, pc, deps, todo, temp_mark, plan, outcome>>

(* The loop of visit is over: the library is marked and appended.          *)
VisitReturn ==
  /\ pc = "order" /\ AtReturn
  /\ temp_mark' = temp_mark \ {Top.lib}
  /\ visited' = visited \cup {Top.lib}
  /\ ordered' = Append(ordered, Top.lib)
  /\ stack' = Return
  /\ UNCHANGED <<registry, request, pc, deps, todo, plan, outcome>>

(* Mutants of Chosen: the list is not filtered; the library itself is not  *)
(* in the set returned by collect_deps and is forgotten.                   *)
ChosenAll(l) == l \in visited
ChosenDeps(l) == request.library = NoLibrary \/ l \in deps

(* get_build_order returns; its caller filters the list (for a request) or *)
(* takes it whole.                                                         *)
Chosen(l) == request.library = NoLibrary \/ l \in deps \/ l = request.library

OrderDone ==
  /\ pc = "order" /\ stack = << >> /\ todo = << >>
  /\ pc' = "filter" /\ todo' = ordered
  /\ UNCHANGED <<Locals, stack, deps, plan, outcome>>

FilterNext ==
  /\ pc = "filter" /\ todo # << >>
  /\ todo' = Tail(todo)
  /\ plan' = IF Chosen(Head(todo)) THEN Append(plan, Head(todo)) ELSE plan
  /\ UNCHANGED <<Locals, pc, stack, deps, outcome>>

(* build.py:326-334: an empty list is an error, with a message that depends*)
(* on the request.                                                         *)
FilterDone ==
  /\ pc = "filter" /\ todo = << >>
  /\ End(IF plan # << >> THEN "planned"
         ELSE IF request.library = NoLibrary THEN "nothing" ELSE "unknown")
  /\ UNCHANGED <<Locals, stack, deps, todo, plan>>

Next ==
  \/ SelectAlone \/ SelectUnknown \/ SelectWithDeps \/ SelectAll
  \/ CollectDep \/ CollectReturn
  \/ VisitNext \/ VisitDep \/ VisitReturn \/ OrderDone
  \/ FilterNext \/ FilterDone

Spec == Init /\ [][Next]_vars

(* The selection is one sequential computation of one process: it takes    *)
(* its next step as long as there is one.                                  *)
FairSpec == Spec /\ WF_vars(Next)

-----------------------------------------------------------------------------
(* Properties.                                                             *)

(* Every variable keeps its type; in particular get_with_dependencies only *)
(* ever collects enabled libraries.                                        *)
TypeOK ==
  /\ registry \in Registry
  /\ request \in [library : Name \cup {NoLibrary}, no_deps : BOOLEAN]
  /\ pc \in {"select", "collect", "order", "filter", "done"}
  /\ stack \in Seq([lib : Name, next : Nat \ {0}])
  /\ deps \in SUBSET Enabled
  /\ todo \in Seq(Name)
  /\ temp_mark \in SUBSET Name /\ visited \in SUBSET Name
  /\ ordered \in Seq(Name) /\ plan \in Seq(Name)
  /\ outcome \in {"none", "planned", "unknown", "unavailable", "nothing",
                  "circular", "recursion"}

(* The abstract registry this one implements.                              *)
Abs == INSTANCE BuildOrderSpec WITH
         needs     <- [l \in Name |-> EnabledDeps(l)],
         available <- Enabled,
         emitted   <- ordered

(* get_build_order implements BuildOrderSpec (config.py:399-403): whatever *)
(* the configured order says, a library is appended once, and only after   *)
(* all the enabled libraries it depends on.                                *)
ImplementsBuildOrderSpec == Abs!ASpec

(* A registry is cyclic when some enabled libraries all wait for another   *)
(* one among them.                                                         *)
Cyclic == \E S \in SUBSET Enabled :
            S # {} /\ \A l \in S : EnabledDeps(l) \cap S # {}

(* "Circular dependency detected" (config.py:430) is raised for a real     *)
(* cycle, a diamond never sets it off, and the order is never returned for *)
(* a cyclic registry: temp_mark holds exactly the calls in progress.       *)
CycleVerdict ==
  /\ outcome = "circular" => Cyclic
  /\ pc = "filter" => ~Cyclic

(* When the list is final, every library in it that was not asked for with *)
(* --no-deps has its enabled dependencies in the list, before it: what     *)
(* build.py:367-382 relies on when it builds the list from left to right.  *)
PlanClosed ==
  outcome = "planned" /\ ~(request.library # NoLibrary /\ request.no_deps) =>
    \A i \in DOMAIN plan :
      EnabledDeps(plan[i]) \subseteq {plan[j] : j \in 1 .. (i - 1)}

(* Without --library the list is the whole platform: no enabled library is *)
(* lost, whether _build_order.yaml lists it, repeats it or leaves it out.  *)
PlanComplete ==
  outcome = "planned" /\ request.library = NoLibrary =>
    {plan[i] : i \in DOMAIN plan} = Enabled

(***************************************************************************)
(* The inductive invariant: why the marks and the recursion are enough.    *)
(***************************************************************************)

Calls == 1 .. Len(stack)

(* The enabled dependencies the loop of call c has dealt with.             *)
Passed(c) == {DependsOn(c.lib)[k] :
                k \in {n \in DOMAIN DependsOn(c.lib) : n < c.next}} \cap Enabled

AllPassed(s, V) == \A i \in 1 .. Len(s) : Passed(s[i]) \subseteq V

(* Each call was made for the dependency its caller is at.                 *)
Chained(s) == \A i \in 1 .. (Len(s) - 1) :
                /\ s[i].next \in DOMAIN DependsOn(s[i].lib)
                /\ DependsOn(s[i].lib)[s[i].next] = s[i + 1].lib

(* temp_mark is the set of libraries whose visit is in progress, each of   *)
(* them once, and none of them is marked visited yet.                      *)
MarksInv ==
  /\ pc \in {"select", "collect"} =>
       temp_mark = {} /\ visited = {} /\ ordered = << >>
  /\ pc = "select" => stack = << >> /\ deps = {}
  /\ pc = "filter" => stack = << >> /\ temp_mark = {}
  /\ pc = "order" =>
       /\ temp_mark = {stack[i].lib : i \in Calls}
       /\ \A i, j \in Calls : stack[i].lib = stack[j].lib => i = j
  /\ temp_mark \cap visited = {}
  /\ temp_mark \subseteq Enabled /\ visited \subseteq Enabled
  /\ outcome = "none" <=> pc # "done"

(* A visit in progress has its passed dependencies in the order already.   *)
VisitInv ==
  pc = "order" => Chained(stack) /\ AllPassed(stack, visited)

(* What is visited is what has been appended, dependencies first.          *)
OrderedInv ==
  /\ visited = {ordered[i] : i \in DOMAIN ordered}
  /\ \A i \in DOMAIN ordered :
       EnabledDeps(ordered[i]) \subseteq {ordered[j] : j \in 1 .. (i - 1)}

(* No enabled name is lost: it is ordered, in progress or still to come.   *)
CoverInv ==
  /\ pc = "order" =>
       Enabled \subseteq visited \cup temp_mark \cup {todo[i] : i \in DOMAIN todo}
  /\ pc = "filter" => visited = Enabled

(* What get_with_dependencies has collected is closed under dependencies,  *)
(* except for the libraries whose collection is still in progress.         *)
Wanted == deps \cup {request.library}

CollectInv ==
  /\ pc = "collect" =>
       /\ request.library \in Name
       /\ Chained(stack) /\ AllPassed(stack, deps)
       /\ \A i \in Calls : stack[i].lib \in (IF i = 1 THEN {request.library}
                                             ELSE deps)
       /\ \A l \in Wanted :
            EnabledDeps(l) \subseteq deps \/ \E i \in Calls : stack[i].lib = l
  /\ pc \in {"order", "filter"} /\ request.library # NoLibrary =>
       \A l \in Wanted : EnabledDeps(l) \subseteq deps
  /\ pc \in {"collect", "order", "filter"} =>
       ~(request.library # NoLibrary /\ request.no_deps)

(* The filtered list holds the chosen libraries of the part of the order   *)
(* already gone through, dependencies first.                               *)
Kept == Len(ordered) - Len(todo)

FilterInv ==
  /\ pc \in {"select", "collect", "order"} => plan = << >>
  /\ pc = "filter" =>
       /\ Kept \in Nat
       /\ \A i \in DOMAIN todo : todo[i] = ordered[Kept + i]
       /\ {plan[i] : i \in DOMAIN plan}
            = {l \in {ordered[i] : i \in 1 .. Kept} : Chosen(l)}
       /\ \A i \in DOMAIN plan :
            EnabledDeps(plan[i]) \subseteq {plan[j] : j \in 1 .. (i - 1)}

IInv ==
  /\ TypeOK /\ MarksInv /\ VisitInv /\ OrderedInv /\ CoverInv
  /\ CollectInv /\ FilterInv /\ CycleVerdict /\ PlanClosed /\ PlanComplete

-----------------------------------------------------------------------------
(* Further properties, checked by TLC.                                     *)

(* The enabled libraries reachable from R along depends_on.                *)
Reach(R) == {m \in Enabled : \A S \in SUBSET Enabled :
               R \subseteq S /\ (\A l \in S : EnabledDeps(l) \subseteq S)
                 => m \in S}

(* --library X builds X and what X needs, and nothing else.                *)
PlanMinimal ==
  outcome = "planned" /\ request.library # NoLibrary =>
    {plan[i] : i \in DOMAIN plan}
      \subseteq {request.library} \cup Reach(EnabledDeps(request.library))

(* r comes in s no later than l does.                                      *)
NoLater(s, r, l) ==
  \E a \in DOMAIN s : s[a] = r /\ \A b \in 1 .. (a - 1) : s[b] # l

(* base_order puts r before l, or r is l: the configured libraries come    *)
(* first, in their order, and then the others alphabetically.              *)
AtOrBefore(r, l) ==
  \/ NoLater(registry.order, r, l)
  \/ /\ \A a \in DOMAIN registry.order : registry.order[a] # l
     /\ NoLater(Alphabet, r, l)

(* A library overtakes one that base_order puts before it only when that   *)
(* one, or one listed even earlier, needs it (_build_order.yaml:1-7: the   *)
(* file "controls the order within groups of libraries that have no        *)
(* dependencies on each other").                                           *)
OrderRespectsBase ==
  \A i, j \in DOMAIN ordered :
    i < j => \E r \in Enabled : /\ AtOrBefore(r, ordered[j])
                                /\ ordered[i] \in Reach({r})

(* Every enabled library comes after what it depends on in base_order.     *)
ListsDependenciesFirst ==
  \A l \in Enabled : \A d \in EnabledDeps(l) : AtOrBefore(d, l)

(* _build_order.yaml:1-3: "Libraries are built in this order.  Libraries   *)
(* not listed here will be built after the listed ones, sorted             *)
(* alphabetically."  The sort overrides it, except for a registry that     *)
(* lists dependencies first (ShippedRegistry is one): then get_build_order *)
(* returns base_order, the enabled libraries, each once, and moves nothing.*)
ListedOrderHolds ==
  ListsDependenciesFirst /\ pc = "filter" =>
    /\ {ordered[i] : i \in DOMAIN ordered} = Enabled
    /\ \A i, j \in DOMAIN ordered :
         i < j => /\ ordered[i] # ordered[j]
                  /\ AtOrBefore(ordered[i], ordered[j])

(* The recursion of get_with_dependencies, which has no visited set, runs  *)
(* away on a cyclic registry only (with a stack deeper than the registry). *)
RecursionErrorOnlyIfCyclic == outcome = "recursion" => Cyclic

(* The selection always ends, cyclic registries included: every pass of    *)
(* either recursion is cut off by a mark, by a missing name or by the      *)
(* interpreter's stack.                                                    *)
Terminates == <>(pc = "done")

(* No library that is disabled needs one that is enabled (so it is in      *)
(* ShippedRegistry).                                                       *)
DisabledNeedNothing ==
  \A l \in registry.libs \cap registry.disabled : EnabledDeps(l) = {}

(* build.py:322-328 treats a request as failed only when the list is empty,*)
(* and get_with_dependencies (config.py:457), which is to return "a        *)
(* library and all its dependencies", never asks whether the library       *)
(* itself is enabled.  A planned build still contains what was asked for,  *)
(* when nothing is left of a disabled request.                             *)
RequestIsPlanned ==
  outcome = "planned" /\ request.library # NoLibrary /\ DisabledNeedNothing =>
    request.library \in {plan[i] : i \in DOMAIN plan}

=============================================================================
