------------------------- MODULE BuildOrder_proofs -------------------------
(***************************************************************************)
(* Theorems about BuildOrder, for every registry, request, alphabet and    *)
(* recursion limit.  The inductive invariant is built in layers: types,    *)
(* then the marks and the stack of visit, then what has been ordered; then *)
(* what a request asks for, the depth of its recursion, and base_order.    *)
(***************************************************************************)
EXTENDS BuildOrder, SequenceTheorems, FiniteSetTheorems,
        WellFoundedInduction, TLAPS

Frame == [lib : Name, next : Nat \ {0}]

-----------------------------------------------------------------------------
(* Lemmas about the call stack.                                            *)

(* Calling pushes one frame and leaves the pending ones alone.             *)
LEMMA PushFacts ==
  ASSUME NEW s \in Seq(Frame), NEW l \in Name
  PROVE  /\ Push(s, l) \in Seq(Frame)
         /\ Len(Push(s, l)) = Len(s) + 1
         /\ \A i \in 1 .. Len(s) : Push(s, l)[i] = s[i]
         /\ Push(s, l)[Len(s) + 1].lib = l
         /\ Push(s, l)[Len(s) + 1].next = 1
  BY DEF Push, Call, Frame

(* Advancing touches the dependency index of the top frame only.           *)
LEMMA AdvanceFacts ==
  ASSUME NEW s \in Seq(Frame), s # << >>
  PROVE  /\ Advance(s) \in Seq(Frame)
         /\ Len(Advance(s)) = Len(s)
         /\ \A i \in 1 .. (Len(s) - 1) : Advance(s)[i] = s[i]
         /\ \A i \in 1 .. Len(s) : Advance(s)[i].lib = s[i].lib
         /\ Advance(s)[Len(s)].next = s[Len(s)].next + 1
<1>1. Len(s) \in 1 .. Len(s) /\ s[Len(s)] \in Frame
  OBVIOUS
<1>2. [s[Len(s)] EXCEPT !.next = @ + 1] \in Frame
  BY <1>1 DEF Frame
<1>3. Advance(s) = [s EXCEPT ![Len(s)] = [s[Len(s)] EXCEPT !.next = @ + 1]]
  BY DEF Advance
<1>4. /\ Advance(s) \in Seq(Frame) /\ Len(Advance(s)) = Len(s)
      /\ \A i \in 1 .. Len(s) :
           Advance(s)[i] = IF i = Len(s) THEN [s[Len(s)] EXCEPT !.next = @ + 1]
                           ELSE s[i]
  BY <1>1, <1>2, <1>3, ExceptSeq
<1>5. Advance(s)[Len(s)] = [s[Len(s)] EXCEPT !.next = @ + 1]
  BY <1>1, <1>4
<1>6. \A i \in 1 .. Len(s) : Advance(s)[i].lib = s[i].lib
  BY <1>1, <1>4 DEF Frame
<1>7. QED
  BY <1>1, <1>4, <1>5, <1>6 DEF Frame

(* Returning drops the top frame; its caller, if any, moves on.            *)
LEMMA ReturnFacts ==
  ASSUME stack \in Seq(Frame), stack # << >>
  PROVE  /\ Return \in Seq(Frame)
         /\ Len(Return) = Len(stack) - 1
         /\ \A i \in 1 .. (Len(stack) - 2) : Return[i] = stack[i]
         /\ \A i \in 1 .. (Len(stack) - 1) : Return[i].lib = stack[i].lib
         /\ Len(stack) > 1 =>
              Return[Len(stack) - 1].next = stack[Len(stack) - 1].next + 1
<1>1. CASE Len(stack) = 1
  BY <1>1 DEF Return
<1>2. CASE Len(stack) > 1
  <2>1. /\ Pop \in Seq(Frame) /\ Len(Pop) = Len(stack) - 1
        /\ \A i \in 1 .. (Len(stack) - 1) : Pop[i] = stack[i]
    BY <1>2 DEF Pop
  <2>2. Return = Advance(Pop) /\ Pop # << >>
    BY <1>2, <2>1 DEF Return
  <2>3. /\ Return \in Seq(Frame) /\ Len(Return) = Len(Pop)
        /\ \A i \in 1 .. (Len(Pop) - 1) : Return[i] = Pop[i]
        /\ \A i \in 1 .. Len(Pop) : Return[i].lib = Pop[i].lib
        /\ Return[Len(Pop)].next = Pop[Len(Pop)].next + 1
    BY <2>1, <2>2, AdvanceFacts
  <2>4. Len(stack) - 1 \in 1 .. (Len(stack) - 1)
    BY <1>2, LenProperties
  <2>5. Pop[Len(stack) - 1] = stack[Len(stack) - 1]
    BY <2>1, <2>4
  <2>6. \A i \in 1 .. (Len(stack) - 2) : Return[i] = stack[i]
    <3> SUFFICES ASSUME NEW i \in 1 .. (Len(stack) - 2)
                 PROVE  Return[i] = stack[i]
      OBVIOUS
    <3>1. i \in 1 .. (Len(Pop) - 1) /\ i \in 1 .. (Len(stack) - 1)
      BY <2>1, <2>4
    <3>2. QED
      BY <2>1, <2>3, <3>1
  <2>7. \A i \in 1 .. (Len(stack) - 1) : Return[i].lib = stack[i].lib
    BY <2>1, <2>3
  <2>8. QED
    BY <2>1, <2>3, <2>5, <2>6, <2>7
<1>3. Len(stack) \in Nat \ {0}
  BY EmptySeq
<1>4. \A n \in Nat \ {0} : n = 1 \/ n > 1
  OBVIOUS
<1>5. QED
  BY <1>1, <1>2, <1>3, <1>4

(* There is a top frame whenever a call is in progress.                    *)
LEMMA TopFacts ==
  ASSUME stack \in Seq(Frame), stack # << >>
  PROVE  /\ Len(stack) \in Nat \ {0}
         /\ Len(stack) \in 1 .. Len(stack)
         /\ Top \in Frame /\ Top.lib \in Name /\ Top.next \in Nat \ {0}
<1>1. Len(stack) \in Nat \ {0}
  BY EmptySeq
<1>2. Len(stack) \in 1 .. Len(stack)
  BY <1>1
<1>3. Top \in Frame
  BY <1>2 DEF Top
<1>4. QED
  BY <1>1, <1>2, <1>3 DEF Frame

-----------------------------------------------------------------------------
(* The registry does not change, and neither does what is derived from it. *)
LEMMA RegistryFixed ==
  ASSUME [Next]_vars
  PROVE  /\ registry' = registry /\ request' = request
         /\ Enabled' = Enabled
         /\ \A l : DependsOn(l)' = DependsOn(l)
         /\ \A l : EnabledDeps(l)' = EnabledDeps(l)
<1>1. registry' = registry /\ request' = request
  BY DEF Next, vars, Locals, SelectAlone, SelectUnknown, SelectWithDeps,
         SelectAll, CollectDep, CollectReturn, VisitNext, VisitDep,
         VisitReturn, OrderDone, FilterNext, FilterDone
<1>2. QED
  BY <1>1 DEF Enabled, DependsOn, EnabledDeps

(* What the list of names to try is made of.                               *)
LEMMA CandidatesFacts ==
  ASSUME registry \in Registry
  PROVE  /\ Candidates \in Seq(Name)
         /\ Name \subseteq {Candidates[i] : i \in 1 .. Len(Candidates)}
<1>1. registry.order \in Seq(Name) /\ Alphabet \in Seq(Name)
  BY AlphabetAssumption DEF Registry
<1>2. /\ Candidates \in Seq(Name)
      /\ Len(Candidates) = Len(registry.order) + Len(Alphabet)
      /\ \A i \in 1 .. Len(Candidates) :
           Candidates[i] = IF i <= Len(registry.order) THEN registry.order[i]
                           ELSE Alphabet[i - Len(registry.order)]
  BY <1>1, ConcatProperties DEF Candidates
<1>3. ASSUME NEW n \in Name
      PROVE  \E i \in 1 .. Len(Candidates) : Candidates[i] = n
  <2>1. PICK k \in 1 .. Len(Alphabet) : Alphabet[k] = n
    BY AlphabetAssumption, <1>1
  <2>2. /\ Len(registry.order) \in Nat /\ Len(Alphabet) \in Nat
        /\ k + Len(registry.order) \in 1 .. Len(Candidates)
        /\ ~(k + Len(registry.order) <= Len(registry.order))
        /\ (k + Len(registry.order)) - Len(registry.order) = k
    BY <1>1, <1>2
  <2>3. QED
    BY <1>2, <2>1, <2>2
<1>4. QED
  BY <1>2, <1>3

(* Every variable keeps its type (LibraryRegistry and main's selection).   *)
LEMMA TypeInit == Init => TypeOK
  BY RegistriesAssumption DEF Init, TypeOK

LEMMA TypeStep == TypeOK /\ [Next]_vars => TypeOK'
<1> SUFFICES ASSUME TypeOK, [Next]_vars PROVE TypeOK'
  OBVIOUS
<1> USE DEF TypeOK
<1>0. /\ registry' = registry /\ request' = request /\ Enabled' = Enabled
      /\ stack \in Seq(Frame) /\ Enabled \subseteq Name
  BY RegistryFixed DEF Frame, Enabled, Registry
<1>1. CASE SelectAlone
  <2>1. plan' \in Seq(Name)
    <3>1. CASE UNCHANGED plan
      BY <3>1
    <3>2. CASE request.library \in Enabled /\ plan' = <<request.library>>
      BY <1>0, <3>2
    <3>3. QED
      BY <1>1, <3>1, <3>2 DEF SelectAlone
  <2>2. outcome' \in {"unknown", "unavailable", "planned"} /\ pc' = "done"
    BY <1>1 DEF SelectAlone, End
  <2>3. QED
    BY <1>0, <1>1, <2>1, <2>2 DEF SelectAlone, Locals
<1>2. CASE SelectUnknown
  BY <1>0, <1>2 DEF SelectUnknown, Locals, End
<1>3. CASE SelectWithDeps
  <2>1. request.library \in Name /\ << >> \in Seq(Frame)
    BY <1>0, <1>3 DEF SelectWithDeps, Registry
  <2>2. stack' \in Seq(Frame)
    BY <1>3, <2>1, PushFacts DEF SelectWithDeps
  <2>3. QED
    BY <1>0, <1>3, <2>2 DEF SelectWithDeps, Locals, Frame
<1>4. CASE SelectAll
  BY <1>0, <1>4, CandidatesFacts DEF SelectAll, Locals
<1>5. CASE CollectDep
  <2>1. stack # << >> BY <1>5 DEF CollectDep, AtDep
  <2>2. stack' \in Seq(Frame)
    <3>1. CASE Dep \notin Enabled
      BY <1>0, <1>5, <2>1, <3>1, AdvanceFacts DEF CollectDep
    <3>2. CASE Dep \in Enabled
      <4>1. Push(stack, Dep) \in Seq(Frame)
        BY <1>0, <3>2, PushFacts
      <4>2. QED
        BY <1>0, <1>5, <3>2, <4>1 DEF CollectDep
    <3>3. QED
      BY <3>1, <3>2
  <2>3. deps' \in SUBSET Enabled
    BY <1>5 DEF CollectDep
  <2>4. QED
    BY <1>0, <1>5, <2>2, <2>3 DEF CollectDep, Locals, Frame, End
<1>6. CASE CollectReturn
  <2>1. stack' \in Seq(Frame)
    BY <1>0, <1>6, ReturnFacts DEF CollectReturn, AtReturn
  <2>2. QED
    BY <1>0, <1>6, <2>1, CandidatesFacts DEF CollectReturn, Locals, Frame
<1>7. CASE VisitNext
  <2>1. Head(todo) \in Name /\ Tail(todo) \in Seq(Name)
    BY <1>7, HeadTailProperties DEF VisitNext
  <2>2. << >> \in Seq(Frame)
    OBVIOUS
  <2>3. stack' \in Seq(Frame)
    BY <1>0, <1>7, <2>1, <2>2, PushFacts DEF VisitNext
  <2>4. QED
    BY <1>0, <1>7, <2>1, <2>3 DEF VisitNext, Frame
<1>8. CASE VisitDep
  <2>1. stack # << >> BY <1>8 DEF VisitDep, AtDep
  <2>2. stack' \in Seq(Frame)
    <3>1. CASE Dep \in Enabled /\ stack' = Push(stack, Dep)
      BY <1>0, <3>1, PushFacts
    <3>2. CASE stack' = Advance(stack)
      BY <1>0, <2>1, <3>2, AdvanceFacts
    <3>3. QED
      BY <1>0, <1>8, <3>1, <3>2 DEF VisitDep
  <2>3. temp_mark' \in SUBSET Name
    BY <1>0, <1>8 DEF VisitDep
  <2>4. QED
    BY <1>0, <1>8, <2>2, <2>3 DEF VisitDep, Frame, End
<1>11. CASE OrderDone
  BY <1>0, <1>11 DEF OrderDone, Locals
<1>12. CASE FilterNext
  BY <1>0, <1>12, HeadTailProperties DEF FilterNext, Locals
<1>13. CASE FilterDone
  BY <1>0, <1>13 DEF FilterDone, Locals, End
<1>14. CASE UNCHANGED vars
  BY <1>0, <1>14 DEF vars
<1>9. CASE VisitReturn
  <2>1. stack # << >> /\ Top.lib \in Name
    BY <1>0, <1>9, TopFacts DEF VisitReturn, AtReturn
  <2>2. stack' \in Seq(Frame) /\ ordered' \in Seq(Name)
    BY <1>0, <1>9, <2>1, ReturnFacts DEF VisitReturn
  <2>3. QED
    BY <1>0, <1>9, <2>2 DEF VisitReturn, Frame
<1>15. QED
  BY <1>1, <1>2, <1>3, <1>4, <1>5, <1>6, <1>7, <1>8, <1>9, <1>11, <1>12,
     <1>13, <1>14 DEF Next

(* Every variable of the selection keeps its type; in particular only      *)
(* enabled libraries are ever collected for a request.                     *)
THEOREM TypeCorrect == Spec => []TypeOK
  BY TypeInit, TypeStep, PTL DEF Spec


-----------------------------------------------------------------------------
(* The marks: temp_mark is the set of libraries whose visit is in progress.*)

LEMMA MarksStep ==
  TypeOK /\ MarksInv /\ [Next]_vars => MarksInv'
<1> SUFFICES ASSUME TypeOK, MarksInv, [Next]_vars PROVE MarksInv'
  OBVIOUS
<1>0. /\ Enabled' = Enabled /\ Enabled \subseteq Name
      /\ stack \in Seq(Frame) /\ todo \in Seq(Name)
  BY RegistryFixed DEF TypeOK, Frame, Enabled, Registry
<1>1. CASE SelectAlone \/ SelectUnknown
  BY <1>0, <1>1 DEF MarksInv, SelectAlone, SelectUnknown, Locals, End
<1>2. CASE SelectWithDeps
  BY <1>0, <1>2 DEF MarksInv, SelectWithDeps, Locals
<1>3. CASE SelectAll
  <2>1. stack' = << >> /\ temp_mark' = {} /\ pc' = "order"
    BY <1>3 DEF MarksInv, SelectAll, Locals
  <2>2. QED
    BY <1>0, <1>3, <2>1 DEF MarksInv, SelectAll, Locals, Calls
<1>4. CASE CollectDep
  BY <1>0, <1>4 DEF MarksInv, CollectDep, Locals, End
<1>5. CASE CollectReturn
  <2>1. CASE Len(stack) = 1
    <3>1. stack' = << >> /\ temp_mark' = {} /\ pc' = "order"
      BY <1>5, <2>1 DEF MarksInv, CollectReturn, Return, Locals
    <3>2. QED
      BY <1>0, <1>5, <3>1 DEF MarksInv, CollectReturn, Locals, Calls
  <2>2. CASE Len(stack) # 1
    BY <1>0, <1>5, <2>2 DEF MarksInv, CollectReturn, Locals
  <2>3. QED
    BY <2>1, <2>2
<1>6. CASE VisitNext
  <2>1. CASE Head(todo) \in Enabled \ visited
    <3>1. stack' = Push(<< >>, Head(todo)) /\ temp_mark' = {Head(todo)}
      BY <1>6, <2>1 DEF MarksInv, VisitNext, Calls
    <3>2. Len(stack') = 1 /\ stack'[1].lib = Head(todo)
      BY <3>1 DEF Push, Call
    <3>3. QED
      BY <1>0, <1>6, <2>1, <3>1, <3>2 DEF MarksInv, VisitNext, Calls
  <2>2. CASE Head(todo) \notin Enabled \ visited
    BY <1>0, <1>6, <2>2 DEF MarksInv, VisitNext, Calls
  <2>3. QED
    BY <2>1, <2>2
<1>7. CASE VisitDep
  <2>0. stack # << >> /\ pc = "order"
    BY <1>7 DEF VisitDep, AtDep
  <2>1. CASE UNCHANGED <<stack, temp_mark>> /\ End("circular")
    BY <1>0, <1>7, <2>0, <2>1 DEF MarksInv, VisitDep, End
  <2>2. CASE stack' = Advance(stack) /\ UNCHANGED <<temp_mark, pc, outcome>>
    <3>1. Calls' = Calls /\ \A i \in Calls : stack'[i].lib = stack[i].lib
      BY <1>0, <2>0, <2>2, AdvanceFacts DEF Calls
    <3>2. QED
      BY <1>0, <1>7, <2>0, <2>2, <3>1 DEF MarksInv, VisitDep
  <2>3. CASE /\ Dep \in Enabled \ temp_mark /\ Dep \notin visited
             /\ stack' = Push(stack, Dep) /\ temp_mark' = temp_mark \cup {Dep}
             /\ UNCHANGED <<pc, outcome>>
    <3>1. /\ Len(stack') = Len(stack) + 1 /\ Len(stack) \in Nat
          /\ \A i \in Calls : stack'[i].lib = stack[i].lib
          /\ stack'[Len(stack) + 1].lib = Dep
      BY <1>0, <2>3, PushFacts DEF Calls
    <3>2. Calls' = Calls \cup {Len(stack) + 1}
      BY <3>1 DEF Calls
    <3>3. temp_mark' = {stack'[i].lib : i \in Calls'}
      BY <2>0, <2>3, <3>1, <3>2 DEF MarksInv
    <3>4. \A i, j \in Calls' : stack'[i].lib = stack'[j].lib => i = j
      BY <2>0, <2>3, <3>1, <3>2 DEF MarksInv
    <3>5. QED
      BY <1>0, <1>7, <2>0, <2>3, <3>3, <3>4 DEF MarksInv, VisitDep
  <2>4. QED
    BY <1>7, <2>1, <2>2, <2>3 DEF VisitDep
<1>8. CASE VisitReturn
  <2>0. stack # << >> /\ pc = "order" /\ pc' = "order"
    BY <1>8 DEF VisitReturn, AtReturn
  <2>1. /\ Len(stack) \in Nat \ {0} /\ Len(stack') = Len(stack) - 1
        /\ \A i \in 1 .. (Len(stack) - 1) : stack'[i].lib = stack[i].lib
    BY <1>0, <1>8, <2>0, ReturnFacts, TopFacts DEF VisitReturn
  <2>2. Calls' = Calls \ {Len(stack)} /\ Len(stack) \in Calls
    BY <2>1 DEF Calls
  <2>3. \A i \in Calls' : stack'[i].lib = stack[i].lib
    BY <2>1, <2>2 DEF Calls
  <2>4. Top.lib \in temp_mark /\ Top = stack[Len(stack)]
    BY <2>0, <2>2 DEF MarksInv, Top
  <2>5. temp_mark' = {stack'[i].lib : i \in Calls'}
    BY <1>8, <2>0, <2>2, <2>3, <2>4 DEF MarksInv, VisitReturn
  <2>6. \A i, j \in Calls' : stack'[i].lib = stack'[j].lib => i = j
    BY <2>0, <2>2, <2>3 DEF MarksInv
  <2>7. QED
    BY <1>0, <1>8, <2>0, <2>4, <2>5, <2>6 DEF MarksInv, VisitReturn
<1>9. CASE OrderDone
  BY <1>0, <1>9 DEF MarksInv, OrderDone, Locals, Calls
<1>10. CASE FilterNext \/ FilterDone
  BY <1>0, <1>10 DEF MarksInv, FilterNext, FilterDone, Locals, End
<1>11. CASE UNCHANGED vars
  BY <1>0, <1>11 DEF MarksInv, vars, Calls
<1>12. QED
  BY <1>1, <1>2, <1>3, <1>4, <1>5, <1>6, <1>7, <1>8, <1>9, <1>10, <1>11
     DEF Next


-----------------------------------------------------------------------------
(* What a pending call has passed, and how the stack carries it.           *)

LEMMA DependsOnType ==
  ASSUME registry \in Registry, NEW l \in Name
  PROVE  /\ DependsOn(l) \in Seq(Name)
         /\ DOMAIN DependsOn(l) = 1 .. Len(DependsOn(l))
         /\ Len(DependsOn(l)) \in Nat
  BY DEF DependsOn, Registry

(* A new call has passed nothing; one whose loop is over has passed every  *)
(* enabled dependency; one step of the loop passes one dependency.         *)
LEMMA PassedFirst ==
  ASSUME registry \in Registry, NEW c \in Frame, c.next = 1
  PROVE  Passed(c) = {}
  BY DependsOnType DEF Passed, Frame

LEMMA PassedAll ==
  ASSUME registry \in Registry, NEW c \in Frame,
         c.next \notin DOMAIN DependsOn(c.lib)
  PROVE  Passed(c) = EnabledDeps(c.lib)
<1>1. \A n \in DOMAIN DependsOn(c.lib) : n < c.next
  BY DependsOnType DEF Frame
<1>2. QED
  BY <1>1 DEF Passed, EnabledDeps

LEMMA PassedNext ==
  ASSUME registry \in Registry, NEW c \in Frame, NEW d \in Frame,
         d.lib = c.lib, d.next = c.next + 1, NEW x \in Passed(d)
  PROVE  \/ x \in Passed(c)
         \/ /\ c.next \in DOMAIN DependsOn(c.lib)
            /\ x = DependsOn(c.lib)[c.next] /\ x \in Enabled
<1>1. PICK k \in DOMAIN DependsOn(c.lib) :
        k < c.next + 1 /\ x = DependsOn(c.lib)[k]
  BY DEF Passed
<1>2. x \in Enabled
  BY DEF Passed
<1>3. CASE k < c.next
  BY <1>1, <1>2, <1>3 DEF Passed
<1>4. CASE k = c.next
  BY <1>1, <1>2, <1>4
<1>5. k < c.next \/ k = c.next
  BY <1>1, DependsOnType DEF Frame
<1>6. QED
  BY <1>3, <1>4, <1>5

LEMMA PushKeeps ==
  ASSUME registry \in Registry, NEW s \in Seq(Frame), NEW l \in Name, NEW V,
         Chained(s), AllPassed(s, V),
         s # << >> =>
           /\ s[Len(s)].next \in DOMAIN DependsOn(s[Len(s)].lib)
           /\ DependsOn(s[Len(s)].lib)[s[Len(s)].next] = l
  PROVE  Chained(Push(s, l)) /\ AllPassed(Push(s, l), V)
<1> DEFINE t == Push(s, l)
<1>1. /\ t \in Seq(Frame) /\ Len(t) = Len(s) + 1 /\ Len(s) \in Nat
      /\ \A i \in 1 .. Len(s) : t[i] = s[i]
      /\ t[Len(s) + 1].lib = l /\ t[Len(s) + 1].next = 1
  BY PushFacts
<1> HIDE DEF t
<1>2. ASSUME NEW i \in 1 .. Len(s)
      PROVE  /\ t[i].next \in DOMAIN DependsOn(t[i].lib)
             /\ DependsOn(t[i].lib)[t[i].next] = t[i + 1].lib
  <2>1. CASE i = Len(s)
    BY <1>1, <2>1, EmptySeq
  <2>2. CASE i # Len(s)
    <3>1. i \in 1 .. (Len(s) - 1) /\ i + 1 \in 1 .. Len(s)
      BY <1>1, <2>2
    <3>2. QED
      BY <1>1, <3>1 DEF Chained
  <2>3. QED
    BY <2>1, <2>2
<1>3. Chained(t)
  BY <1>1, <1>2 DEF Chained
<1>4. ASSUME NEW i \in 1 .. Len(t)
      PROVE  Passed(t[i]) \subseteq V
  <2>1. CASE i = Len(s) + 1
    <3>1. t[i] \in Frame /\ t[i].next = 1
      BY <1>1, <2>1
    <3>2. QED
      BY <3>1, PassedFirst
  <2>2. CASE i # Len(s) + 1
    <3>1. i \in 1 .. Len(s)
      BY <1>1, <2>2
    <3>2. QED
      BY <1>1, <3>1 DEF AllPassed
  <2>3. QED
    BY <2>1, <2>2
<1>5. QED
  BY <1>3, <1>4 DEF AllPassed, t

LEMMA AdvanceKeeps ==
  ASSUME registry \in Registry, NEW s \in Seq(Frame), s # << >>, NEW V,
         Chained(s), AllPassed(s, V),
         s[Len(s)].next \in DOMAIN DependsOn(s[Len(s)].lib)
           => (DependsOn(s[Len(s)].lib)[s[Len(s)].next] \in Enabled
                 => DependsOn(s[Len(s)].lib)[s[Len(s)].next] \in V)
  PROVE  Chained(Advance(s)) /\ AllPassed(Advance(s), V)
<1> DEFINE t == Advance(s)
<1>1. /\ t \in Seq(Frame) /\ Len(t) = Len(s) /\ Len(s) \in Nat \ {0}
      /\ \A i \in 1 .. (Len(s) - 1) : t[i] = s[i]
      /\ \A i \in 1 .. Len(s) : t[i].lib = s[i].lib
      /\ t[Len(s)].next = s[Len(s)].next + 1
  BY AdvanceFacts, EmptySeq
<1> HIDE DEF t
<1>2. ASSUME NEW i \in 1 .. (Len(s) - 1)
      PROVE  /\ t[i].next \in DOMAIN DependsOn(t[i].lib)
             /\ DependsOn(t[i].lib)[t[i].next] = t[i + 1].lib
  <2>1. i + 1 \in 1 .. Len(s)
    BY <1>1
  <2>2. QED
    BY <1>1, <2>1 DEF Chained
<1>3. Chained(t)
  BY <1>1, <1>2 DEF Chained
<1>4. Passed(t[Len(s)]) \subseteq V
  <2>1. /\ t[Len(s)] \in Frame /\ s[Len(s)] \in Frame
        /\ t[Len(s)].lib = s[Len(s)].lib
    BY <1>1
  <2>2. Passed(s[Len(s)]) \subseteq V
    BY <1>1 DEF AllPassed
  <2>3. QED
    BY <1>1, <2>1, <2>2, PassedNext
<1>5. ASSUME NEW i \in 1 .. Len(t)
      PROVE  Passed(t[i]) \subseteq V
  <2>1. CASE i = Len(s)
    BY <1>4, <2>1
  <2>2. CASE i # Len(s)
    <3>1. i \in 1 .. (Len(s) - 1) /\ i \in 1 .. Len(s)
      BY <1>1, <2>2
    <3>2. QED
      BY <1>1, <3>1 DEF AllPassed
  <2>3. QED
    BY <2>1, <2>2
<1>6. QED
  BY <1>3, <1>5 DEF AllPassed, t

LEMMA ReturnKeeps ==
  ASSUME registry \in Registry, stack \in Seq(Frame), stack # << >>, NEW V,
         Chained(stack), AllPassed(stack, V), Len(stack) > 1 => Top.lib \in V
  PROVE  Chained(Return) /\ AllPassed(Return, V)
<1>1. CASE Len(stack) = 1
  BY <1>1 DEF Return, Chained, AllPassed
<1>2. CASE Len(stack) > 1
  <2>1. /\ Pop \in Seq(Frame) /\ Len(Pop) = Len(stack) - 1
        /\ Len(stack) \in Nat \ {0} /\ Pop # << >> /\ Return = Advance(Pop)
        /\ \A i \in 1 .. (Len(stack) - 1) : Pop[i] = stack[i]
    <3>1. Len(stack) \in Nat \ {0}
      BY EmptySeq
    <3>2. /\ Pop \in Seq(Frame) /\ Len(Pop) = Len(stack) - 1
          /\ \A i \in 1 .. (Len(stack) - 1) : Pop[i] = stack[i]
      BY <1>2, <3>1 DEF Pop
    <3>3. QED
      BY <1>2, <3>1, <3>2 DEF Return
  <2>2. Chained(Pop) /\ AllPassed(Pop, V)
    <3>1. \A i \in 1 .. (Len(Pop) - 1) : /\ i \in 1 .. (Len(stack) - 1)
                                         /\ i + 1 \in 1 .. (Len(stack) - 1)
      BY <2>1
    <3>2. \A i \in 1 .. Len(Pop) : i \in 1 .. Len(stack)
      BY <2>1
    <3>3. QED
      BY <2>1, <3>1, <3>2 DEF Chained, AllPassed
  <2>3. DependsOn(Pop[Len(Pop)].lib)[Pop[Len(Pop)].next] = Top.lib
    <3>1. Len(stack) - 1 \in 1 .. (Len(stack) - 1)
      BY <1>2, <2>1
    <3>2. (Len(stack) - 1) + 1 = Len(stack)
      BY <2>1
    <3>3. QED
      BY <2>1, <3>1, <3>2 DEF Chained, Top
  <2>4. Top.lib \in V
    BY <1>2, <2>1
  <2>5. QED
    BY <2>1, <2>2, <2>3, <2>4, AdvanceKeeps
<1>3. Len(stack) \in Nat \ {0}
  BY EmptySeq
<1>4. \A n \in Nat \ {0} : n = 1 \/ n > 1
  OBVIOUS
<1>5. QED
  BY <1>1, <1>2, <1>3, <1>4

-----------------------------------------------------------------------------
(* The visits in progress.                                                 *)

LEMMA VisitStep ==
  TypeOK /\ MarksInv /\ VisitInv /\ [Next]_vars => VisitInv'
<1> SUFFICES ASSUME TypeOK, MarksInv, VisitInv, [Next]_vars, pc' = "order"
             PROVE  Chained(stack)' /\ AllPassed(stack, visited)'
  BY DEF VisitInv
<1>0. /\ registry' = registry /\ registry \in Registry
      /\ stack \in Seq(Frame) /\ todo \in Seq(Name) /\ Enabled \subseteq Name
  BY RegistryFixed DEF TypeOK, Frame, Enabled, Registry
<1>a. SUFFICES Chained(stack') /\ AllPassed(stack', visited')
  BY <1>0 DEF Chained, AllPassed, Passed, DependsOn, Enabled
<1>b. Chained(<< >>) /\ \A V : AllPassed(<< >>, V)
  BY DEF Chained, AllPassed
<1>c. << >> \in Seq(Frame)
  OBVIOUS
<1>1. CASE SelectAll
  BY <1>1, <1>b DEF MarksInv, SelectAll
<1>2. CASE CollectReturn
  <2>1. stack' = << >>
    BY <1>2 DEF CollectReturn, Return
  <2>2. QED
    BY <2>1, <1>b
<1>3. CASE VisitNext
  <2>1. stack = << >> /\ Chained(<< >>) /\ AllPassed(<< >>, visited)
    BY <1>3, <1>b DEF VisitNext
  <2>2. CASE stack' = Push(<< >>, Head(todo)) /\ visited' = visited
             /\ Head(todo) \in Enabled
    BY <1>0, <1>c, <2>1, <2>2, PushKeeps
  <2>3. CASE stack' = stack /\ visited' = visited
    BY <2>1, <2>3
  <2>4. QED
    BY <1>3, <2>2, <2>3 DEF VisitNext
<1>4. CASE VisitDep
  <2>1. /\ stack # << >> /\ Top.next \in DOMAIN DependsOn(Top.lib)
        /\ Chained(stack) /\ AllPassed(stack, visited) /\ visited' = visited
        /\ Top = stack[Len(stack)] /\ Dep = DependsOn(Top.lib)[Top.next]
    BY <1>4 DEF VisitDep, AtDep, VisitInv, Top, Dep
  <2>2. CASE stack' = Advance(stack) /\ (Dep \in Enabled => Dep \in visited)
    BY <1>0, <2>1, <2>2, AdvanceKeeps
  <2>3. CASE stack' = Push(stack, Dep) /\ Dep \in Enabled
    BY <1>0, <2>1, <2>3, PushKeeps
  <2>4. QED
    BY <1>4, <2>2, <2>3 DEF VisitDep, End
<1>5. CASE VisitReturn
  <2>1. /\ stack # << >> /\ stack' = Return /\ visited' = visited \cup {Top.lib}
        /\ Chained(stack) /\ AllPassed(stack, visited)
    BY <1>5 DEF VisitReturn, AtReturn, VisitInv
  <2>2. AllPassed(stack, visited')
    BY <2>1 DEF AllPassed
  <2>3. QED
    BY <1>0, <2>1, <2>2, ReturnKeeps
<1>6. CASE UNCHANGED vars
  BY <1>6 DEF vars, VisitInv
<1>7. QED
  BY <1>1, <1>2, <1>3, <1>4, <1>5, <1>6
     DEF Next, SelectAlone, SelectUnknown, SelectWithDeps, CollectDep,
         OrderDone, FilterNext, FilterDone, End, TypeOK

-----------------------------------------------------------------------------
(* The order built so far.                                                 *)

(* When a visit returns, its library is new to the order and everything it *)
(* depends on is in it: the step BuildOrderSpec allows.                    *)
LEMMA VisitReturnFacts ==
  ASSUME TypeOK, MarksInv, VisitInv, VisitReturn
  PROVE  /\ Top.lib \in Enabled \ visited
         /\ EnabledDeps(Top.lib) \subseteq visited
<1>1. stack \in Seq(Frame) /\ stack # << >> /\ pc = "order"
  BY DEF TypeOK, Frame, VisitReturn, AtReturn
<1>2. /\ Len(stack) \in Calls /\ Top = stack[Len(stack)] /\ Top \in Frame
      /\ Top.next \notin DOMAIN DependsOn(Top.lib)
  BY <1>1, TopFacts DEF Calls, Top, VisitReturn, AtReturn
<1>3. Top.lib \in temp_mark
  BY <1>1, <1>2 DEF MarksInv
<1>4. Passed(Top) \subseteq visited
  BY <1>1, <1>2 DEF VisitInv, AllPassed, Calls
<1>5. QED
  BY <1>2, <1>3, <1>4, PassedAll DEF MarksInv, TypeOK

LEMMA OrderedStep ==
  TypeOK /\ MarksInv /\ VisitInv /\ OrderedInv /\ [Next]_vars => OrderedInv'
<1> SUFFICES ASSUME TypeOK, MarksInv, VisitInv, OrderedInv, [Next]_vars
             PROVE  OrderedInv'
  OBVIOUS
<1> USE DEF OrderedInv
<1>0. /\ ordered \in Seq(Name)
      /\ \A l : EnabledDeps(l)' = EnabledDeps(l)
  BY RegistryFixed DEF TypeOK
<1>1. CASE VisitReturn
  <2>1. /\ Len(ordered) \in Nat /\ DOMAIN ordered = 1 .. Len(ordered)
        /\ ordered' \in Seq(Name) /\ Len(ordered') = Len(ordered) + 1
        /\ DOMAIN ordered' = 1 .. (Len(ordered) + 1)
        /\ \A i \in 1 .. Len(ordered) : ordered'[i] = ordered[i]
        /\ ordered'[Len(ordered) + 1] = Top.lib
    <3>1. Top.lib \in Name
      BY <1>1, VisitReturnFacts DEF TypeOK, Enabled, Registry
    <3>2. QED
      BY <1>0, <1>1, <3>1, AppendProperties DEF VisitReturn
  <2>2. visited' = {ordered'[i] : i \in DOMAIN ordered'}
    BY <1>1, <2>1 DEF VisitReturn
  <2>3. \A i \in DOMAIN ordered' :
          EnabledDeps(ordered'[i]) \subseteq {ordered'[j] : j \in 1 .. (i - 1)}
    <3> SUFFICES ASSUME NEW i \in DOMAIN ordered'
                 PROVE  EnabledDeps(ordered'[i])
                          \subseteq {ordered'[j] : j \in 1 .. (i - 1)}
      OBVIOUS
    <3>1. CASE i = Len(ordered) + 1
      <4>1. EnabledDeps(Top.lib) \subseteq {ordered[j] : j \in 1 .. Len(ordered)}
        BY <1>1, <2>1, VisitReturnFacts
      <4>2. (Len(ordered) + 1) - 1 = Len(ordered)
        BY <2>1
      <4>3. QED
        BY <2>1, <3>1, <4>1, <4>2
    <3>2. CASE i \in 1 .. Len(ordered)
      <4>1. EnabledDeps(ordered[i]) \subseteq {ordered[j] : j \in 1 .. (i - 1)}
        BY <2>1, <3>2, <1>0
      <4>2. \A j \in 1 .. (i - 1) : j \in 1 .. Len(ordered)
        BY <2>1, <3>2
      <4>3. QED
        BY <2>1, <3>2, <4>1, <4>2
    <3>3. QED
      BY <2>1, <3>1, <3>2
  <2>4. QED
    BY <1>0, <2>2, <2>3
<1>2. CASE ordered' = ordered /\ visited' = visited
  BY <1>0, <1>2
<1>3. QED
  BY <1>1, <1>2
     DEF Next, vars, Locals, SelectAlone, SelectUnknown, SelectWithDeps,
         SelectAll, CollectDep, CollectReturn, VisitNext, VisitDep, OrderDone,
         FilterNext, FilterDone


-----------------------------------------------------------------------------
(* No enabled library is lost on the way.                                  *)

LEMMA CoverStep ==
  TypeOK /\ MarksInv /\ CoverInv /\ [Next]_vars => CoverInv'
<1> SUFFICES ASSUME TypeOK, MarksInv, CoverInv, [Next]_vars PROVE CoverInv'
  OBVIOUS
<1>0. /\ Enabled' = Enabled /\ Enabled \subseteq Name /\ todo \in Seq(Name)
      /\ registry \in Registry
  BY RegistryFixed DEF TypeOK, Enabled, Registry
<1>1. CASE pc' = "order" /\ todo' = Candidates
  <2>1. Enabled \subseteq {todo'[i] : i \in DOMAIN todo'}
    <3>1. /\ Candidates \in Seq(Name)
          /\ Name \subseteq {Candidates[i] : i \in 1 .. Len(Candidates)}
      BY <1>0, CandidatesFacts
    <3>2. DOMAIN Candidates = 1 .. Len(Candidates)
      BY <3>1
    <3>3. QED
      BY <1>0, <1>1, <3>1, <3>2
  <2>2. QED
    BY <1>0, <1>1, <2>1 DEF CoverInv
<1>2. CASE pc' = "done"
  BY <1>2 DEF CoverInv
<1>3. CASE SelectWithDeps \/ CollectDep
  BY <1>3 DEF CoverInv, SelectWithDeps, CollectDep, End
<1>4. CASE CollectReturn /\ pc' # "order"
  BY <1>4 DEF CoverInv, CollectReturn
<1>5. CASE VisitNext
  <2>1. /\ \A i \in DOMAIN todo :
             todo[i] = Head(todo) \/ \E j \in DOMAIN todo' : todo'[j] = todo[i]
    <3> SUFFICES ASSUME NEW i \in DOMAIN todo, i # 1
                 PROVE  \E j \in DOMAIN todo' : todo'[j] = todo[i]
      BY <1>5 DEF VisitNext
    <3>1. /\ todo' \in Seq(Name) /\ Len(todo') = Len(todo) - 1
          /\ \A j \in 1 .. Len(todo') : todo'[j] = todo[j + 1]
          /\ Len(todo) \in Nat /\ DOMAIN todo = 1 .. Len(todo)
          /\ DOMAIN todo' = 1 .. Len(todo')
      BY <1>0, <1>5, HeadTailProperties DEF VisitNext
    <3>2. i - 1 \in 1 .. Len(todo') /\ (i - 1) + 1 = i
      BY <3>1
    <3>3. QED
      BY <3>1, <3>2
  <2>2. Head(todo) \in Enabled => Head(todo) \in visited \cup temp_mark'
    BY <1>5 DEF VisitNext
  <2>3. temp_mark \subseteq temp_mark' /\ visited' = visited /\ pc = "order"
        /\ pc' = "order"
    BY <1>5 DEF VisitNext
  <2>4. QED
    BY <1>0, <2>1, <2>2, <2>3 DEF CoverInv
<1>6. CASE VisitDep
  <2>1. /\ temp_mark \subseteq temp_mark' /\ visited' = visited /\ todo' = todo
        /\ pc = "order" /\ pc' \in {"order", "done"}
    BY <1>6 DEF VisitDep, End
  <2>2. QED
    BY <1>0, <2>1 DEF CoverInv
<1>7. CASE VisitReturn
  <2>1. /\ visited' \cup temp_mark' = visited \cup temp_mark \cup {Top.lib}
        /\ todo' = todo /\ pc = "order" /\ pc' = "order"
    BY <1>7 DEF VisitReturn
  <2>2. QED
    BY <1>0, <2>1 DEF CoverInv
<1>8. CASE OrderDone
  <2>1. temp_mark = {} /\ {todo[i] : i \in DOMAIN todo} = {}
    BY <1>8 DEF OrderDone, MarksInv, Calls
  <2>2. visited = Enabled /\ visited' = visited /\ pc' = "filter"
    BY <1>8, <2>1 DEF OrderDone, Locals, CoverInv, MarksInv
  <2>3. QED
    BY <1>0, <2>2 DEF CoverInv
<1>9. CASE FilterNext
  BY <1>0, <1>9 DEF FilterNext, Locals, CoverInv
<1>10. CASE UNCHANGED vars
  BY <1>0, <1>10 DEF vars, CoverInv
<1>11. QED
  BY <1>1, <1>2, <1>3, <1>4, <1>5, <1>6, <1>7, <1>8, <1>9, <1>10
     DEF Next, SelectAlone, SelectUnknown, SelectAll, CollectReturn,
         FilterDone, End

-----------------------------------------------------------------------------
(* What get_with_dependencies collects.                                    *)

LEMMA CollectStep ==
  TypeOK /\ MarksInv /\ CollectInv /\ [Next]_vars => CollectInv'
<1> SUFFICES ASSUME TypeOK, MarksInv, CollectInv, [Next]_vars
             PROVE  CollectInv'
  OBVIOUS
<1>0. /\ registry' = registry /\ registry \in Registry /\ request' = request
      /\ Enabled' = Enabled /\ \A l : EnabledDeps(l)' = EnabledDeps(l)
      /\ stack \in Seq(Frame) /\ Enabled \subseteq Name
  BY RegistryFixed DEF TypeOK, Frame, Enabled, Registry
<1>a. /\ Chained(stack)' <=> Chained(stack')
      /\ AllPassed(stack, deps)' <=> AllPassed(stack', deps')
  BY <1>0 DEF Chained, AllPassed, Passed, DependsOn, Enabled
<1>1. CASE pc' = "done"
  BY <1>1 DEF CollectInv
<1>2. CASE SelectWithDeps
  <2>1. /\ request.library \in Name /\ << >> \in Seq(Frame)
        /\ Chained(<< >>) /\ AllPassed(<< >>, {})
    BY <1>0, <1>2 DEF SelectWithDeps, Registry, Chained, AllPassed
  <2>2. /\ stack' = Push(<< >>, request.library) /\ deps' = {} /\ pc' = "collect"
        /\ ~request.no_deps
    BY <1>2 DEF SelectWithDeps, MarksInv
  <2>3. Chained(stack') /\ AllPassed(stack', deps')
    BY <1>0, <2>1, <2>2, PushKeeps
  <2>4. Calls' = {1} /\ stack'[1].lib = request.library
    BY <2>2 DEF Push, Call, Calls
  <2>5. QED
    BY <1>0, <1>a, <2>1, <2>2, <2>3, <2>4 DEF CollectInv, Wanted
<1>3. CASE SelectAll
  BY <1>0, <1>3 DEF SelectAll, CollectInv
<1>4. CASE CollectDep /\ pc' # "done"
  <2>0. /\ pc = "collect" /\ pc' = "collect" /\ stack # << >>
        /\ Top.next \in DOMAIN DependsOn(Top.lib)
        /\ Top = stack[Len(stack)] /\ Dep = DependsOn(Top.lib)[Top.next]
        /\ Chained(stack) /\ AllPassed(stack, deps)
        /\ Len(stack) \in Nat \ {0}
    BY <1>0, <1>4, TopFacts DEF CollectDep, AtDep, End, Top, Dep, CollectInv
  <2>1. CASE Dep \notin Enabled
    <3>1. stack' = Advance(stack) /\ deps' = deps
      BY <1>4, <2>1 DEF CollectDep
    <3>2. Chained(stack') /\ AllPassed(stack', deps')
      BY <1>0, <2>0, <2>1, <3>1, AdvanceKeeps
    <3>3. Calls' = Calls /\ \A i \in Calls : stack'[i].lib = stack[i].lib
      BY <1>0, <2>0, <3>1, AdvanceFacts DEF Calls
    <3>4. QED
      BY <1>0, <1>a, <2>0, <3>1, <3>2, <3>3 DEF CollectInv, Wanted
  <2>2. CASE Dep \in Enabled
    <3>1. stack' = Push(stack, Dep) /\ deps' = deps \cup {Dep}
      BY <1>4, <2>2 DEF CollectDep, End
    <3>2. AllPassed(stack, deps')
      BY <2>0, <3>1 DEF AllPassed
    <3>3. Chained(stack') /\ AllPassed(stack', deps')
      BY <1>0, <2>0, <2>2, <3>1, <3>2, PushKeeps
    <3>4. /\ Calls' = Calls \cup {Len(stack) + 1} /\ Len(stack) + 1 \notin Calls
          /\ \A i \in Calls : stack'[i].lib = stack[i].lib
          /\ stack'[Len(stack) + 1].lib = Dep /\ Len(stack) + 1 # 1
      <4>1. /\ Len(stack') = Len(stack) + 1
            /\ \A i \in Calls : stack'[i] = stack[i]
            /\ stack'[Len(stack) + 1].lib = Dep
        BY <1>0, <2>2, <3>1, PushFacts DEF Calls
      <4>2. QED
        BY <2>0, <4>1 DEF Calls
    <3>5. \A i \in Calls' :
            stack'[i].lib \in (IF i = 1 THEN {request.library} ELSE deps')
      BY <2>0, <3>1, <3>4 DEF CollectInv
    <3>6. \A l \in deps' \cup {request.library} :
            EnabledDeps(l) \subseteq deps' \/ \E i \in Calls' : stack'[i].lib = l
      BY <2>0, <3>1, <3>4 DEF CollectInv, Wanted
    <3>7. QED
      BY <1>0, <1>a, <2>0, <3>3, <3>5, <3>6 DEF CollectInv, Wanted
  <2>3. QED
    BY <2>1, <2>2
<1>5. CASE CollectReturn
  <2>0. /\ pc = "collect" /\ stack # << >> /\ stack' = Return /\ deps' = deps
        /\ Chained(stack) /\ AllPassed(stack, deps)
        /\ Len(stack) \in Nat \ {0} /\ Len(stack) \in Calls
        /\ Top = stack[Len(stack)] /\ Top \in Frame
        /\ Top.next \notin DOMAIN DependsOn(Top.lib)
    BY <1>0, <1>5, TopFacts
       DEF CollectReturn, AtReturn, Top, Calls, CollectInv
  <2>1. EnabledDeps(Top.lib) \subseteq deps
    <3>1. Passed(Top) \subseteq deps
      BY <2>0 DEF AllPassed, Calls
    <3>2. QED
      BY <1>0, <2>0, <3>1, PassedAll
  <2>2. CASE Len(stack) = 1
    <3>1. \A i \in Calls : stack[i] = Top
      BY <2>0, <2>2 DEF Calls
    <3>2. pc' = "order"
      BY <1>5, <2>2 DEF CollectReturn
    <3>3. \A l \in Wanted : EnabledDeps(l) \subseteq deps
      BY <2>0, <2>1, <3>1 DEF CollectInv
    <3>4. QED
      BY <1>0, <2>0, <3>2, <3>3 DEF CollectInv, Wanted
  <2>3. CASE Len(stack) # 1
    <3>1. Top.lib \in deps /\ pc' = "collect"
      BY <1>5, <2>0, <2>3 DEF CollectInv, CollectReturn
    <3>2. Chained(stack') /\ AllPassed(stack', deps')
      BY <1>0, <2>0, <3>1, ReturnKeeps
    <3>3. Calls' = Calls \ {Len(stack)} /\ \A i \in Calls' : stack'[i].lib = stack[i].lib
      <4>1. /\ Len(stack') = Len(stack) - 1
            /\ \A i \in 1 .. (Len(stack) - 1) : stack'[i].lib = stack[i].lib
        BY <1>0, <2>0, ReturnFacts
      <4>2. QED
        BY <2>0, <4>1 DEF Calls
    <3>4. \A i \in Calls' :
            stack'[i].lib \in (IF i = 1 THEN {request.library} ELSE deps')
      BY <2>0, <3>3 DEF CollectInv
    <3>5. \A l \in Wanted :
            EnabledDeps(l) \subseteq deps \/ \E i \in Calls' : stack'[i].lib = l
      BY <2>0, <2>1, <3>3 DEF CollectInv
    <3>6. QED
      BY <1>0, <1>a, <2>0, <3>1, <3>2, <3>4, <3>5 DEF CollectInv, Wanted
  <2>4. QED
    BY <2>2, <2>3
<1>6. CASE /\ pc \in {"order", "filter"} /\ pc' \in {"order", "filter"}
           /\ deps' = deps
  BY <1>0, <1>6 DEF CollectInv, Wanted
<1>7. CASE UNCHANGED vars
  BY <1>0, <1>7, <1>a DEF vars, CollectInv, Wanted, Calls
<1>8. QED
  BY <1>1, <1>2, <1>3, <1>4, <1>5, <1>6, <1>7
     DEF Next, SelectAlone, SelectUnknown, VisitNext, VisitDep, VisitReturn,
         OrderDone, FilterNext, FilterDone, End


-----------------------------------------------------------------------------
(* The list given back.                                                    *)

(* What is chosen has its dependencies chosen too.                         *)
LEMMA ChosenClosed ==
  ASSUME CollectInv, pc \in {"order", "filter"}, NEW l, Chosen(l)
  PROVE  \A d \in EnabledDeps(l) : Chosen(d)
  BY DEF CollectInv, Chosen, Wanted

LEMMA FilterStep ==
  TypeOK /\ OrderedInv /\ CollectInv /\ FilterInv /\ [Next]_vars => FilterInv'
<1> SUFFICES ASSUME TypeOK, OrderedInv, CollectInv, FilterInv, [Next]_vars
             PROVE  FilterInv'
  OBVIOUS
<1>0. /\ \A l : EnabledDeps(l)' = EnabledDeps(l)
      /\ request' = request
      /\ ordered \in Seq(Name) /\ todo \in Seq(Name) /\ plan \in Seq(Name)
      /\ Len(ordered) \in Nat /\ DOMAIN ordered = 1 .. Len(ordered)
      /\ Len(todo) \in Nat /\ DOMAIN todo = 1 .. Len(todo)
      /\ Len(plan) \in Nat /\ DOMAIN plan = 1 .. Len(plan)
  BY RegistryFixed DEF TypeOK
<1>1. CASE pc' = "done"
  BY <1>1 DEF FilterInv
<1>2. CASE pc' \in {"select", "collect", "order"} /\ pc # "filter" /\ plan' = plan
  BY <1>2 DEF FilterInv, TypeOK, Next, SelectAlone, SelectUnknown,
         SelectWithDeps, SelectAll, CollectDep, CollectReturn, VisitNext,
         VisitDep, VisitReturn, OrderDone, FilterNext, FilterDone, End, vars
<1>3. CASE OrderDone
  <2>1. /\ todo' = ordered /\ ordered' = ordered /\ plan' = << >>
        /\ pc' = "filter"
    BY <1>3 DEF OrderDone, Locals, FilterInv
  <2>2. Kept' = 0
    BY <1>0, <2>1 DEF Kept
  <2>3. QED
    BY <1>0, <2>1, <2>2 DEF FilterInv
<1>4. CASE FilterNext
  <2> DEFINE x == Head(todo)
             k == Kept
  <2>1. /\ k \in Nat /\ \A i \in DOMAIN todo : todo[i] = ordered[k + i]
        /\ {plan[i] : i \in DOMAIN plan}
             = {l \in {ordered[i] : i \in 1 .. k} : Chosen(l)}
        /\ \A i \in DOMAIN plan :
             EnabledDeps(plan[i]) \subseteq {plan[j] : j \in 1 .. (i - 1)}
        /\ pc = "filter" /\ pc' = "filter" /\ ordered' = ordered /\ deps' = deps
        /\ todo' = Tail(todo)
        /\ plan' = IF Chosen(x) THEN Append(plan, x) ELSE plan
    BY <1>4 DEF FilterNext, Locals, FilterInv
  <2>2. /\ Len(todo) >= 1 /\ x = todo[1] /\ x \in Name
        /\ Len(todo') = Len(todo) - 1 /\ DOMAIN todo' = 1 .. Len(todo')
        /\ \A i \in 1 .. Len(todo') : todo'[i] = todo[i + 1]
    BY <1>0, <1>4, <2>1, HeadTailProperties DEF FilterNext
  <2>3. Kept' = k + 1
    <3>1. Kept' = Len(ordered) - Len(todo')
      BY <2>1 DEF Kept
    <3>2. QED
      BY <1>0, <2>2, <3>1 DEF Kept
  <2>4. k = Len(ordered) - Len(todo)
    BY DEF Kept
  <2> HIDE DEF x, k
  <2>5. x = ordered[k + 1] /\ k + 1 \in 1 .. Len(ordered)
    BY <1>0, <2>1, <2>2, <2>4
  <2>6. \A i \in DOMAIN todo' : todo'[i] = ordered[Kept' + i]
    <3> SUFFICES ASSUME NEW i \in DOMAIN todo' PROVE todo'[i] = ordered[Kept' + i]
      OBVIOUS
    <3>1. i \in 1 .. Len(todo') /\ i + 1 \in DOMAIN todo
      BY <1>0, <2>2
    <3>2. k + (i + 1) = Kept' + i
      BY <2>1, <2>3, <3>1
    <3>3. QED
      BY <2>1, <2>2, <3>1, <3>2
  <2>7. {ordered[i] : i \in 1 .. (k + 1)} = {ordered[i] : i \in 1 .. k} \cup {x}
    BY <2>1, <2>5
  <2>8. \A l : Chosen(l)' <=> Chosen(l)
    BY <1>0, <2>1 DEF Chosen
  <2>12. ASSUME {plan'[i] : i \in DOMAIN plan'}
                   = {l \in {ordered[i] : i \in 1 .. (k + 1)} : Chosen(l)},
                 \A i \in DOMAIN plan' :
                   EnabledDeps(plan'[i]) \subseteq {plan'[j] : j \in 1 .. (i - 1)}
         PROVE  FilterInv'
    <3>1. ({plan[i] : i \in DOMAIN plan}
             = {l \in {ordered[i] : i \in 1 .. Kept} : Chosen(l)})'
      BY <1>0, <2>1, <2>3, <2>12 DEF Chosen
    <3>2. (\A i \in DOMAIN plan :
             EnabledDeps(plan[i]) \subseteq {plan[j] : j \in 1 .. (i - 1)})'
      BY <1>0, <2>12
    <3>3. Kept' \in Nat
      BY <2>1, <2>3
    <3>4. QED
      BY <2>1, <2>6, <3>1, <3>2, <3>3 DEF FilterInv
  <2>9. CASE ~Chosen(x)
    <3>1. plan' = plan
      BY <2>1, <2>9
    <3>2. {l \in {ordered[i] : i \in 1 .. (k + 1)} : Chosen(l)}
            = {l \in {ordered[i] : i \in 1 .. k} : Chosen(l)}
      BY <2>7, <2>9
    <3>3. QED
      BY <2>1, <2>12, <3>1, <3>2
  <2>10. CASE Chosen(x)
    <3>1. /\ plan' = Append(plan, x) /\ Len(plan') = Len(plan) + 1
          /\ DOMAIN plan' = 1 .. (Len(plan) + 1)
          /\ \A i \in 1 .. Len(plan) : plan'[i] = plan[i]
          /\ plan'[Len(plan) + 1] = x
      BY <1>0, <2>1, <2>2, <2>10, AppendProperties
    <3>2. {plan'[i] : i \in DOMAIN plan'}
            = {l \in {ordered[i] : i \in 1 .. (k + 1)} : Chosen(l)}
      <4>1. {plan'[i] : i \in DOMAIN plan'} = {plan[i] : i \in DOMAIN plan} \cup {x}
        BY <1>0, <3>1
      <4>2. QED
        BY <2>1, <2>7, <2>10, <4>1
    <3>3. EnabledDeps(x) \subseteq {plan[j] : j \in 1 .. Len(plan)}
      <4>1. EnabledDeps(x) \subseteq {ordered[j] : j \in 1 .. k}
        <5>1. (k + 1) - 1 = k
          BY <2>1
        <5>2. QED
          BY <1>0, <2>5, <5>1 DEF OrderedInv
      <4>2. \A d \in EnabledDeps(x) : Chosen(d)
        BY <2>1, <2>10, ChosenClosed
      <4>3. QED
        BY <1>0, <2>1, <4>1, <4>2
    <3>4. \A i \in DOMAIN plan' :
            EnabledDeps(plan'[i]) \subseteq {plan'[j] : j \in 1 .. (i - 1)}
      <4> SUFFICES ASSUME NEW i \in DOMAIN plan'
                   PROVE  EnabledDeps(plan'[i])
                            \subseteq {plan'[j] : j \in 1 .. (i - 1)}
        OBVIOUS
      <4>1. CASE i = Len(plan) + 1
        <5>1. i - 1 = Len(plan)
          BY <1>0, <4>1
        <5>2. QED
          BY <3>1, <3>3, <4>1, <5>1
      <4>2. CASE i \in 1 .. Len(plan)
        <5>1. \A j \in 1 .. (i - 1) : j \in 1 .. Len(plan)
          BY <1>0, <4>2
        <5>2. EnabledDeps(plan[i]) \subseteq {plan[j] : j \in 1 .. (i - 1)}
          BY <1>0, <2>1, <4>2
        <5>3. QED
          BY <3>1, <4>2, <5>1, <5>2
      <4>3. \A n \in Nat : \A m \in 1 .. (n + 1) : m = n + 1 \/ m \in 1 .. n
        OBVIOUS
      <4>4. QED
        BY <1>0, <3>1, <4>1, <4>2, <4>3
    <3>5. QED
      BY <2>12, <3>2, <3>4
  <2>11. QED
    BY <2>9, <2>10
<1>5. CASE UNCHANGED vars
  <2>1. /\ pc' = pc /\ plan' = plan /\ todo' = todo /\ ordered' = ordered
        /\ deps' = deps /\ Kept' = Kept
    BY <1>5 DEF vars, Kept
  <2>2. CASE pc = "filter"
    <3>1. /\ {plan[i] : i \in DOMAIN plan}
               = {l \in {ordered[i] : i \in 1 .. Kept} : Chosen(l)}
          /\ \A i \in DOMAIN plan :
               EnabledDeps(plan[i]) \subseteq {plan[j] : j \in 1 .. (i - 1)}
      BY <2>2 DEF FilterInv
    <3>2. (\A i \in DOMAIN plan :
             EnabledDeps(plan[i]) \subseteq {plan[j] : j \in 1 .. (i - 1)})'
      BY <1>0, <2>1, <3>1
    <3>3. ({plan[i] : i \in DOMAIN plan}
             = {l \in {ordered[i] : i \in 1 .. Kept} : Chosen(l)})'
      BY <1>0, <2>1, <3>1 DEF Chosen
    <3>4. QED
      BY <2>1, <2>2, <3>2, <3>3 DEF FilterInv
  <2>3. CASE pc # "filter"
    BY <2>1, <2>3 DEF FilterInv
  <2>4. QED
    BY <2>2, <2>3
<1>6. QED
  BY <1>1, <1>2, <1>3, <1>4, <1>5
     DEF Next, SelectAlone, SelectUnknown, SelectWithDeps, SelectAll,
         CollectDep, CollectReturn, VisitNext, VisitDep, VisitReturn,
         FilterDone, End, TypeOK


-----------------------------------------------------------------------------
(* The verdicts.                                                           *)

(* A set of enabled libraries that all wait for one another has no first   *)
(* member in the order.                                                    *)
LEMMA OrderedIsAcyclic ==
  ASSUME OrderedInv, ordered \in Seq(Name), visited = Enabled
  PROVE  ~Cyclic
<1> SUFFICES ASSUME NEW S \in SUBSET Enabled, S # {},
                    \A l \in S : EnabledDeps(l) \cap S # {}
             PROVE  FALSE
  BY DEF Cyclic
<1> DEFINE T == {i \in DOMAIN ordered : ordered[i] \in S}
<1>1. DOMAIN ordered = 1 .. Len(ordered) /\ Len(ordered) \in Nat
  OBVIOUS
<1>2. T \subseteq Nat /\ T # {}
  BY <1>1 DEF OrderedInv
<1>3. PICK m \in T : \A y \in T : ~(<<y, m>> \in OpToRel(<, Nat))
  BY <1>2, NatLessThanWellFounded, WFMin
<1>4. \A y \in T : ~(y < m)
  BY <1>2, <1>3 DEF OpToRel
<1>5. PICK d \in EnabledDeps(ordered[m]) : d \in S
  OBVIOUS
<1>6. PICK j \in 1 .. (m - 1) : d = ordered[j]
  BY <1>5 DEF OrderedInv
<1>7. j \in T /\ j < m
  BY <1>1, <1>2, <1>5, <1>6
<1>8. QED
  BY <1>4, <1>7

(* When visit meets a library whose visit is in progress, the calls from   *)
(* that one to the top form a cycle.                                       *)
LEMMA MarkedIsCyclic ==
  ASSUME TypeOK, MarksInv, VisitInv, pc = "order", AtDep, Dep \in Enabled,
         Dep \in temp_mark
  PROVE  Cyclic
<1>1. /\ stack \in Seq(Frame) /\ stack # << >> /\ Len(stack) \in Nat \ {0}
      /\ Top = stack[Len(stack)] /\ Top.next \in DOMAIN DependsOn(Top.lib)
      /\ Dep = DependsOn(Top.lib)[Top.next] /\ Chained(stack)
  BY TopFacts DEF TypeOK, Frame, AtDep, Top, Dep, VisitInv
<1>2. PICK i \in Calls : Dep = stack[i].lib
  BY DEF MarksInv
<1> DEFINE S == {stack[j].lib : j \in i .. Len(stack)}
<1>3. S \subseteq Enabled /\ Dep \in S
  <2>1. \A j \in i .. Len(stack) : j \in Calls
    BY <1>1 DEF Calls
  <2>2. i \in i .. Len(stack)
    BY <1>1 DEF Calls
  <2>3. QED
    BY <1>2, <2>1, <2>2 DEF MarksInv
<1>4. ASSUME NEW j \in i .. Len(stack)
      PROVE  EnabledDeps(stack[j].lib) \cap S # {}
  <2>1. CASE j = Len(stack)
    BY <1>1, <1>3, <2>1 DEF EnabledDeps
  <2>2. CASE j # Len(stack)
    <3>1. j \in 1 .. (Len(stack) - 1) /\ j + 1 \in i .. Len(stack)
      BY <1>1, <2>2 DEF Calls
    <3>2. /\ stack[j].next \in DOMAIN DependsOn(stack[j].lib)
          /\ DependsOn(stack[j].lib)[stack[j].next] = stack[j + 1].lib
      BY <1>1, <3>1 DEF Chained
    <3>3. stack[j + 1].lib \in S
      BY <3>1
    <3>4. QED
      BY <1>3, <3>2, <3>3 DEF EnabledDeps
  <2>3. QED
    BY <2>1, <2>2
<1>5. \A l \in S : EnabledDeps(l) \cap S # {}
  BY <1>4
<1> HIDE DEF S
<1>6. QED
  BY <1>3, <1>5 DEF Cyclic

LEMMA VerdictStep ==
  IInv /\ [Next]_vars /\ CoverInv' /\ OrderedInv'
    => CycleVerdict' /\ PlanClosed' /\ PlanComplete'
<1> SUFFICES ASSUME IInv, [Next]_vars, CoverInv', OrderedInv'
             PROVE  CycleVerdict' /\ PlanClosed' /\ PlanComplete'
  OBVIOUS
<1>0. /\ \A l : EnabledDeps(l)' = EnabledDeps(l)
      /\ request' = request /\ Enabled' = Enabled
      /\ TypeOK /\ MarksInv /\ VisitInv /\ CycleVerdict /\ FilterInv
      /\ ordered \in Seq(Name)
  BY RegistryFixed DEF IInv, TypeOK
<1>1. Cyclic' <=> Cyclic
  BY <1>0 DEF Cyclic
<1>2. CycleVerdict'
  <2>1. CASE VisitDep /\ outcome' = "circular"
    <3>1. Cyclic
      BY <1>0, <2>1, MarkedIsCyclic DEF VisitDep, MarksInv, End
    <3>2. QED
      BY <1>1, <2>1, <3>1 DEF CycleVerdict, VisitDep, End
  <2>2. CASE OrderDone
    <3>1. ~Cyclic
      <4>1. visited' = visited /\ ordered' = ordered /\ pc' = "filter"
        BY <2>2 DEF OrderDone, Locals
      <4>2. visited = Enabled
        BY <1>0, <4>1 DEF CoverInv
      <4>3. QED
        BY <1>0, <4>2, OrderedIsAcyclic DEF IInv
    <3>2. QED
      BY <1>0, <1>1, <2>2, <3>1 DEF CycleVerdict, OrderDone, MarksInv
  <2>3. CASE /\ outcome' \in {outcome, "planned", "unknown", "unavailable",
                              "nothing", "recursion"}
             /\ pc' = "filter" => pc = "filter"
    BY <1>0, <1>1, <2>3 DEF CycleVerdict
  <2>4. QED
    BY <2>1, <2>2, <2>3
       DEF Next, vars, Locals, SelectAlone, SelectUnknown, SelectWithDeps,
           SelectAll, CollectDep, CollectReturn, VisitNext, VisitDep,
           VisitReturn, FilterNext, FilterDone, End
<1>3. PlanClosed'
  <2>1. CASE FilterDone
    <3>1. /\ plan' = plan
          /\ \A i \in DOMAIN plan :
               EnabledDeps(plan[i]) \subseteq {plan[j] : j \in 1 .. (i - 1)}
      BY <1>0, <2>1 DEF FilterDone, FilterInv
    <3>2. QED
      BY <1>0, <3>1 DEF PlanClosed
  <2>2. CASE SelectAlone
    BY <1>0, <2>2 DEF PlanClosed, SelectAlone
  <2>3. CASE outcome' # "planned"
    BY <2>3 DEF PlanClosed
  <2>4. CASE UNCHANGED vars
    <3>1. PlanClosed
      BY DEF IInv
    <3>2. QED
      BY <1>0, <2>4, <3>1 DEF PlanClosed, vars
  <2>5. QED
    BY <1>0, <2>1, <2>2, <2>3, <2>4
       DEF Next, MarksInv, Locals, SelectUnknown, SelectWithDeps,
           SelectAll, CollectDep, CollectReturn, VisitNext, VisitDep,
           VisitReturn, OrderDone, FilterNext, End
<1>4. PlanComplete'
  <2>1. CASE FilterDone /\ request.library = NoLibrary
    <3>1. Kept = Len(ordered)
      BY <1>0, <2>1 DEF FilterDone, Kept
    <3>2. {plan[i] : i \in DOMAIN plan}
            = {l \in {ordered[i] : i \in 1 .. Kept} : Chosen(l)}
      BY <1>0, <2>1 DEF FilterDone, FilterInv
    <3>3. {ordered[i] : i \in 1 .. Len(ordered)} = Enabled
      BY <1>0, <2>1 DEF FilterDone, IInv, CoverInv, OrderedInv
    <3>4. \A l : Chosen(l)
      BY <2>1 DEF Chosen
    <3>5. {plan[i] : i \in DOMAIN plan} = Enabled /\ plan' = plan
      BY <2>1, <3>1, <3>2, <3>3, <3>4 DEF FilterDone
    <3>6. QED
      BY <1>0, <3>5 DEF PlanComplete
  <2>2. CASE request.library # NoLibrary \/ outcome' # "planned"
    BY <1>0, <2>2 DEF PlanComplete
  <2>3. CASE UNCHANGED vars
    <3>1. PlanComplete
      BY DEF IInv
    <3>2. QED
      BY <1>0, <2>3, <3>1 DEF PlanComplete, vars
  <2>4. QED
    BY <1>0, <2>1, <2>2, <2>3
       DEF Next, MarksInv, Locals, SelectAlone, SelectUnknown, SelectWithDeps,
           SelectAll, CollectDep, CollectReturn, VisitNext, VisitDep,
           VisitReturn, OrderDone, FilterNext, End
<1>5. QED
  BY <1>2, <1>3, <1>4

-----------------------------------------------------------------------------
(* The theorems.                                                           *)

LEMMA IInvInit == Init => IInv
<1> SUFFICES ASSUME Init PROVE IInv
  OBVIOUS
<1>1. TypeOK
  BY TypeInit
<1>2. QED
  BY <1>1 DEF Init, IInv, MarksInv, VisitInv, OrderedInv, CoverInv,
     CollectInv, FilterInv, CycleVerdict, PlanClosed, PlanComplete

LEMMA IInvStep == IInv /\ [Next]_vars => IInv'
  BY TypeStep, MarksStep, VisitStep, OrderedStep, CoverStep, CollectStep,
     FilterStep, VerdictStep DEF IInv

(* The inductive invariant holds for every registry and request.           *)
THEOREM Invariant == Spec => []IInv
  BY IInvInit, IInvStep, PTL DEF Spec

(* A library is in the plan only after everything it needs: main's loop    *)
(* never starts a library before one it depends on (build.py:367-382).     *)
THEOREM PlanIsClosed == Spec => []PlanClosed
<1>1. IInv => PlanClosed
  BY DEF IInv
<1>2. QED
  BY <1>1, Invariant, PTL

(* Without --library, no enabled library is lost.                          *)
THEOREM PlanIsComplete == Spec => []PlanComplete
<1>1. IInv => PlanComplete
  BY DEF IInv
<1>2. QED
  BY <1>1, Invariant, PTL

(* get_build_order raises for cyclic registries and for no other.          *)
THEOREM CyclesAreCaught == Spec => []CycleVerdict
<1>1. IInv => CycleVerdict
  BY DEF IInv
<1>2. QED
  BY <1>1, Invariant, PTL


(* The registry implements BuildOrderSpec: every step of the selection     *)
(* either appends a library all of whose dependencies are already ordered, *)
(* or leaves the order as it is.                                           *)
THEOREM Refinement == Spec => ImplementsBuildOrderSpec
<1>1. Init => Abs!AInit
  BY RegistriesAssumption
     DEF Init, Abs!AInit, Registry, Enabled, EnabledDeps, DependsOn
<1>2. IInv /\ [Next]_vars => [Abs!ANext]_(Abs!avars)
  <2> SUFFICES ASSUME IInv, [Next]_vars PROVE [Abs!ANext]_(Abs!avars)
    OBVIOUS
  <2>0. /\ Enabled' = Enabled /\ \A l : EnabledDeps(l)' = EnabledDeps(l)
        /\ TypeOK /\ MarksInv /\ VisitInv /\ OrderedInv
        /\ visited \subseteq Name
    BY RegistryFixed DEF IInv, TypeOK
  <2>1. CASE VisitReturn
    <3>1. /\ Top.lib \in Enabled \ visited /\ EnabledDeps(Top.lib) \subseteq visited
          /\ Top.lib \in Name
      BY <2>0, <2>1, VisitReturnFacts DEF TypeOK, Enabled, Registry
    <3>2. Abs!Emitted = visited
      BY <2>0 DEF Abs!Emitted, OrderedInv
    <3>3. Abs!Emit(Top.lib)
      BY <2>0, <2>1, <3>1, <3>2 DEF Abs!Emit, VisitReturn
    <3>4. QED
      BY <3>1, <3>3 DEF Abs!ANext
  <2>2. CASE ordered' = ordered
    BY <2>0, <2>2 DEF Abs!avars
  <2>3. QED
    BY <2>1, <2>2
       DEF Next, vars, Locals, SelectAlone, SelectUnknown, SelectWithDeps,
           SelectAll, CollectDep, CollectReturn, VisitNext, VisitDep,
           OrderDone, FilterNext, FilterDone
<1>3. QED
  BY <1>1, <1>2, Invariant, PTL DEF Spec, Abs!ASpec, ImplementsBuildOrderSpec

-----------------------------------------------------------------------------
(* A request is answered with what it needs, and with itself.              *)

(* What is reachable from R holds the enabled part of R and is closed under*)
(* dependencies: Reach, defined from above, can be used from below.        *)
LEMMA ReachFacts ==
  ASSUME NEW R
  PROVE  /\ R \cap Enabled \subseteq Reach(R)
         /\ \A l \in Reach(R) : EnabledDeps(l) \subseteq Reach(R)
         /\ Reach(R) \subseteq Enabled
<1>1. ASSUME NEW l \in Reach(R), NEW d \in EnabledDeps(l)
      PROVE  d \in Reach(R)
  <2>1. d \in Enabled
    BY DEF EnabledDeps
  <2>2. ASSUME NEW S \in SUBSET Enabled, R \subseteq S,
               \A k \in S : EnabledDeps(k) \subseteq S
        PROVE  d \in S
    BY <2>2 DEF Reach
  <2>3. QED
    BY <2>1, <2>2 DEF Reach
<1>2. QED
  BY <1>1 DEF Reach

(* Nothing is reachable from nothing.                                      *)
LEMMA ReachOfNothing == Reach({}) = {}
<1>1. {} \in SUBSET Enabled /\ \A l \in {} : EnabledDeps(l) \subseteq {}
  OBVIOUS
<1>2. QED
  BY <1>1 DEF Reach

(* The dependencies collected so far are reachable from the library asked  *)
(* for, which is registered: get_with_dependencies says so before it starts*)
(* to collect.                                                             *)
RequestInv ==
  /\ pc \in {"collect", "order", "filter"} /\ request.library # NoLibrary =>
       /\ request.library \in registry.libs
       /\ deps \subseteq Reach(EnabledDeps(request.library))
  /\ registry \in Registries

(* What a call collects is a dependency of the request or of what has been *)
(* collected.                                                              *)
LEMMA RequestStep ==
  TypeOK /\ MarksInv /\ CollectInv /\ RequestInv /\ [Next]_vars => RequestInv'
<1> SUFFICES ASSUME TypeOK, MarksInv, CollectInv, RequestInv, [Next]_vars
             PROVE  RequestInv'
  OBVIOUS
<1>0. /\ registry' = registry /\ request' = request
      /\ Enabled' = Enabled /\ \A l : EnabledDeps(l)' = EnabledDeps(l)
  BY RegistryFixed
<1>a. Reach(EnabledDeps(request.library))' = Reach(EnabledDeps(request.library))
  BY <1>0 DEF Reach
<1>1. CASE SelectWithDeps
  <2>1. deps' = {} /\ request.library \in registry.libs
    BY <1>1 DEF SelectWithDeps, MarksInv
  <2>2. QED
    BY <1>0, <2>1 DEF RequestInv
<1>2. CASE SelectAll \/ pc' = "done"
  BY <1>0, <1>2 DEF RequestInv, SelectAll
<1>3. CASE CollectDep
  <2>1. /\ pc = "collect" /\ stack # << >>
        /\ Dep \in {DependsOn(Top.lib)[i] : i \in DOMAIN DependsOn(Top.lib)}
    BY <1>3 DEF CollectDep, AtDep, Dep
  <2>2. deps' = IF Dep \in Enabled THEN deps \cup {Dep} ELSE deps
    BY <1>3 DEF CollectDep
  <2>3. Top.lib \in {request.library} \cup deps
    <3>1. stack \in Seq(Frame)
      BY DEF TypeOK, Frame
    <3>2. Len(stack) \in Calls /\ Top = stack[Len(stack)]
      BY <2>1, <3>1, TopFacts DEF Calls, Top
    <3>3. QED
      BY <2>1, <3>2 DEF CollectInv
  <2>4. CASE request.library # NoLibrary
    <3> DEFINE R == EnabledDeps(request.library)
    <3>1. /\ request.library \in registry.libs /\ deps \subseteq Reach(R)
      BY <2>1, <2>4 DEF RequestInv
    <3>2. R \subseteq Reach(R) /\ \A l \in Reach(R) : EnabledDeps(l) \subseteq Reach(R)
      <4>1. R \subseteq Enabled
        BY DEF EnabledDeps
      <4>2. QED
        BY <4>1, ReachFacts
    <3> HIDE DEF R
    <3>3. EnabledDeps(Top.lib) \subseteq Reach(R)
      BY <2>3, <3>1, <3>2 DEF R
    <3>4. Dep \in Enabled => Dep \in Reach(R)
      BY <2>1, <3>3 DEF EnabledDeps
    <3>5. deps' \subseteq Reach(R)
      BY <2>2, <3>1, <3>4
    <3>6. QED
      BY <1>0, <1>a, <3>1, <3>5 DEF RequestInv, R
  <2>5. CASE request.library = NoLibrary
    BY <1>0, <2>5 DEF RequestInv
  <2>6. QED
    BY <2>4, <2>5
<1>4. CASE /\ pc \in {"collect", "order", "filter"} /\ deps' = deps
  BY <1>0, <1>a, <1>4 DEF RequestInv
<1>5. CASE UNCHANGED vars
  BY <1>0, <1>a, <1>5 DEF vars, RequestInv
<1>6. QED
  BY <1>1, <1>2, <1>3, <1>4, <1>5
     DEF Next, Locals, SelectAlone, SelectUnknown, CollectReturn, VisitNext,
         VisitDep, VisitReturn, OrderDone, FilterNext, FilterDone, End

(* What is known of the list at the moment it is final.                    *)
LEMMA FinalPlan ==
  ASSUME IInv, FilterDone
  PROVE  {plan[i] : i \in DOMAIN plan} = {l \in Enabled : Chosen(l)}
<1>1. /\ pc = "filter" /\ todo = << >> /\ ordered \in Seq(Name)
      /\ FilterInv /\ CoverInv /\ OrderedInv
  BY DEF FilterDone, IInv, TypeOK
<1>2. Kept = Len(ordered)
  BY <1>1 DEF Kept
<1>3. {plan[i] : i \in DOMAIN plan}
        = {l \in {ordered[i] : i \in 1 .. Kept} : Chosen(l)}
  BY <1>1 DEF FilterInv
<1>4. {ordered[i] : i \in 1 .. Len(ordered)} = Enabled
  BY <1>1 DEF CoverInv, OrderedInv
<1>5. QED
  BY <1>2, <1>3, <1>4

(* A final list is the whole platform's, a request's without dependencies, *)
(* or was there before.                                                    *)
LEMMA WhenPlanned ==
  ASSUME IInv, [Next]_vars, outcome' = "planned", request.library # NoLibrary
  PROVE  \/ FilterDone /\ plan' = plan /\ plan # << >>
         \/ plan' = <<request.library>>
         \/ outcome = "planned" /\ plan' = plan
<1>1. pc # "done" => outcome = "none"
  BY DEF IInv, MarksInv
<1>2. CASE FilterDone
  BY <1>2 DEF FilterDone, End
<1>3. CASE SelectAlone
  BY <1>3 DEF SelectAlone, End
<1>4. CASE UNCHANGED vars
  BY <1>4 DEF vars
<1>5. QED
  BY <1>1, <1>2, <1>3, <1>4
     DEF Next, Locals, SelectUnknown, SelectWithDeps, SelectAll, CollectDep,
         CollectReturn, VisitNext, VisitDep, VisitReturn, OrderDone,
         FilterNext, End

(* --library X builds X and what X needs, and nothing else.                *)
THEOREM PlanIsMinimal == Spec => []PlanMinimal
<1> DEFINE MInv == IInv /\ RequestInv /\ PlanMinimal
<1>1. Init => MInv
  BY IInvInit DEF Init, RequestInv, PlanMinimal
<1>2. MInv /\ [Next]_vars => MInv'
  <2> SUFFICES ASSUME MInv, [Next]_vars PROVE MInv'
    OBVIOUS
  <2>1. IInv' /\ RequestInv'
    BY IInvStep, RequestStep DEF IInv
  <2>2. /\ request' = request
        /\ Enabled' = Enabled /\ \A l : EnabledDeps(l)' = EnabledDeps(l)
    BY RegistryFixed
  <2>3. Reach(EnabledDeps(request.library))' = Reach(EnabledDeps(request.library))
    BY <2>2 DEF Reach
  <2>4. ASSUME outcome' = "planned", request.library # NoLibrary
        PROVE  {plan'[i] : i \in DOMAIN plan'}
                 \subseteq {request.library} \cup Reach(EnabledDeps(request.library))
    <3>1. CASE FilterDone /\ plan' = plan
      <4>1. {plan[i] : i \in DOMAIN plan} = {l \in Enabled : Chosen(l)}
        BY <3>1, FinalPlan
      <4>2. deps \subseteq Reach(EnabledDeps(request.library))
        BY <2>4, <3>1 DEF FilterDone, RequestInv
      <4>3. QED
        BY <2>4, <3>1, <4>1, <4>2 DEF Chosen
    <3>2. CASE plan' = <<request.library>>
      BY <3>2
    <3>3. CASE outcome = "planned" /\ plan' = plan
      BY <2>4, <3>3 DEF PlanMinimal
    <3>4. QED
      BY <2>4, <3>1, <3>2, <3>3, WhenPlanned
  <2>5. PlanMinimal'
    BY <2>2, <2>3, <2>4 DEF PlanMinimal
  <2>6. QED
    BY <2>1, <2>5
<1>3. QED
  BY <1>1, <1>2, PTL DEF Spec

(* Whether a request is enabled is never asked (config.py:457-475), so a   *)
(* request for a library disabled on the platform fails only because       *)
(* nothing is left of it.  In registries whose disabled libraries need no  *)
(* enabled one, a plan for a request contains the request.                 *)
THEOREM RequestsArePlanned == Spec => []RequestIsPlanned
<1> DEFINE MInv == IInv /\ RequestInv /\ RequestIsPlanned
<1>1. Init => MInv
  BY IInvInit DEF Init, RequestInv, RequestIsPlanned
<1>2. MInv /\ [Next]_vars => MInv'
  <2> SUFFICES ASSUME MInv, [Next]_vars PROVE MInv'
    OBVIOUS
  <2>1. IInv' /\ RequestInv' /\ request' = request
    BY IInvStep, RequestStep, RegistryFixed DEF IInv
  <2>2. registry' = registry
    BY RegistryFixed DEF IInv
  <2>3. DisabledNeedNothing' = DisabledNeedNothing
    BY <2>2 DEF DisabledNeedNothing, EnabledDeps, DependsOn, Enabled
  <2>4. ASSUME outcome' = "planned", request.library # NoLibrary,
               DisabledNeedNothing
        PROVE  request.library \in {plan'[i] : i \in DOMAIN plan'}
    <3>1. CASE FilterDone /\ plan' = plan /\ plan # << >>
      <4>1. {plan[i] : i \in DOMAIN plan} = {l \in Enabled : Chosen(l)}
        BY <3>1, FinalPlan
      <4>2. CASE request.library \in Enabled
        BY <3>1, <4>1, <4>2 DEF Chosen
      <4>3. CASE request.library \notin Enabled
        <5>1. /\ request.library \in registry.libs \cap registry.disabled
              /\ deps \subseteq Reach(EnabledDeps(request.library))
          BY <2>4, <3>1, <4>3 DEF FilterDone, RequestInv, Enabled
        <5>2. EnabledDeps(request.library) = {}
          BY <2>4, <5>1 DEF DisabledNeedNothing
        <5>3. deps = {}
          BY <5>1, <5>2, ReachOfNothing
        <5>4. {plan[i] : i \in DOMAIN plan} = {}
          BY <2>4, <4>1, <4>3, <5>3 DEF Chosen
        <5>5. plan \in Seq(Name) /\ 1 \in DOMAIN plan
          BY <3>1, EmptySeq DEF IInv, TypeOK
        <5>6. QED
          BY <5>4, <5>5
      <4>4. QED
        BY <4>2, <4>3
    <3>2. CASE plan' = <<request.library>>
      BY <3>2
    <3>3. CASE outcome = "planned" /\ plan' = plan
      BY <2>4, <3>3 DEF RequestIsPlanned
    <3>4. QED
      BY <2>4, <3>1, <3>2, <3>3, WhenPlanned
  <2>5. RequestIsPlanned'
    BY <2>1, <2>3, <2>4 DEF RequestIsPlanned
  <2>6. QED
    BY <2>1, <2>5
<1>3. QED
  BY <1>1, <1>2, PTL DEF Spec

-----------------------------------------------------------------------------
(* The recursion of get_with_dependencies.                                 *)

(* The libraries of the calls above the first one, and of the call to make.*)
Deep == [k \in 1 .. Len(stack) |-> IF k < Len(stack) THEN stack[k + 1].lib ELSE Dep]

(* More pending calls than enabled libraries repeat one of them, and the   *)
(* calls between the two form a cycle.                                     *)
LEMMA DeepIsCyclic ==
  ASSUME TypeOK, CollectInv, pc = "collect", AtDep, Dep \in Enabled,
         IsFiniteSet(Enabled), Cardinality(Enabled) < Len(stack)
  PROVE  Cyclic
<1>1. /\ stack \in Seq(Frame) /\ stack # << >> /\ Len(stack) \in Nat \ {0}
      /\ Top = stack[Len(stack)] /\ Top.next \in DOMAIN DependsOn(Top.lib)
      /\ Dep = DependsOn(Top.lib)[Top.next] /\ Chained(stack)
      /\ deps \subseteq Enabled
  BY TopFacts DEF TypeOK, Frame, AtDep, Top, Dep, CollectInv
<1>2. \A i \in Calls : i # 1 => stack[i].lib \in Enabled
  BY <1>1 DEF CollectInv
<1>3. Deep \in [1 .. Len(stack) -> Enabled]
  <2>1. ASSUME NEW k \in 1 .. Len(stack), k < Len(stack)
        PROVE  stack[k + 1].lib \in Enabled
    BY <1>1, <1>2, <2>1 DEF Calls
  <2>2. QED
    BY <2>1 DEF Deep
<1>4. IsFiniteSet(1 .. Len(stack)) /\ Cardinality(1 .. Len(stack)) = Len(stack)
  BY <1>1, FS_Interval
<1>5. PICK x, y \in 1 .. Len(stack) : x # y /\ Deep[x] = Deep[y]
  BY <1>3, <1>4, FS_PigeonHole
<1>6. PICK i, j \in 1 .. Len(stack) : i < j /\ Deep[i] = Deep[j]
  BY <1>1, <1>5
<1> DEFINE S == {Deep[k] : k \in i .. j}
<1>7. \A k \in i .. j : k \in 1 .. Len(stack)
  BY <1>1
<1>8. S \subseteq Enabled /\ S # {}
  BY <1>1, <1>3, <1>6, <1>7
<1>9. ASSUME NEW k \in 1 .. (Len(stack) - 1)
      PROVE  Deep[k + 1] \in EnabledDeps(Deep[k])
  <2>1. /\ k + 1 \in 1 .. Len(stack) /\ k \in 1 .. Len(stack) /\ k < Len(stack)
    BY <1>1
  <2>2. Deep[k] = stack[k + 1].lib /\ Deep[k + 1] \in Enabled
    BY <1>3, <2>1 DEF Deep
  <2>3. CASE k + 1 = Len(stack)
    <3>1. Deep[k + 1] = Dep /\ Deep[k] = Top.lib
      BY <1>1, <2>1, <2>2, <2>3 DEF Deep
    <3>2. QED
      BY <1>1, <2>2, <3>1 DEF EnabledDeps
  <2>4. CASE k + 1 # Len(stack)
    <3>1. k + 1 \in 1 .. (Len(stack) - 1)
      BY <1>1, <2>1, <2>4
    <3>2. Deep[k + 1] = stack[(k + 1) + 1].lib
      BY <2>1, <3>1 DEF Deep
    <3>3. /\ stack[k + 1].next \in DOMAIN DependsOn(stack[k + 1].lib)
          /\ DependsOn(stack[k + 1].lib)[stack[k + 1].next] = stack[(k + 1) + 1].lib
      BY <1>1, <3>1 DEF Chained
    <3>4. QED
      BY <2>2, <3>2, <3>3 DEF EnabledDeps
  <2>5. QED
    BY <2>3, <2>4
<1>10. ASSUME NEW k \in i .. j
       PROVE  EnabledDeps(Deep[k]) \cap S # {}
  <2>1. CASE k < j
    <3>1. k \in 1 .. (Len(stack) - 1) /\ k + 1 \in i .. j
      BY <1>1, <1>6, <2>1
    <3>2. Deep[k + 1] \in S
      BY <3>1
    <3>3. QED
      BY <1>9, <3>1, <3>2
  <2>2. CASE k = j
    <3>1. i \in 1 .. (Len(stack) - 1) /\ i + 1 \in i .. j
      BY <1>1, <1>6
    <3>2. Deep[i + 1] \in S /\ Deep[k] = Deep[i]
      BY <1>6, <2>2, <3>1
    <3>3. QED
      BY <1>9, <3>1, <3>2
  <2>3. QED
    BY <2>1, <2>2
<1>11. \A l \in S : EnabledDeps(l) \cap S # {}
  BY <1>10
<1> HIDE DEF S
<1>12. QED
  BY <1>8, <1>11 DEF Cyclic

(* With a stack deeper than the registry, get_with_dependencies overflows  *)
(* it on a cyclic registry only, although it keeps no visited set: the     *)
(* diamonds it walks twice do not make it deeper.                          *)
THEOREM RecursionErrorMeansCycle ==
  ASSUME \A r \in Registries : /\ IsFiniteSet(r.libs \ r.disabled)
                               /\ Cardinality(r.libs \ r.disabled) < RecursionLimit
  PROVE  Spec => []RecursionErrorOnlyIfCyclic
<1> DEFINE MInv == IInv /\ RequestInv /\ RecursionErrorOnlyIfCyclic
<1>1. Init => MInv
  BY IInvInit DEF Init, RequestInv, RecursionErrorOnlyIfCyclic
<1>2. MInv /\ [Next]_vars => MInv'
  <2> SUFFICES ASSUME MInv, [Next]_vars PROVE MInv'
    OBVIOUS
  <2>1. IInv' /\ RequestInv'
    BY IInvStep, RequestStep DEF IInv
  <2>2. Cyclic' <=> Cyclic
    BY RegistryFixed DEF Cyclic
  <2>3. CASE CollectDep /\ outcome' = "recursion"
    <3>1. /\ pc = "collect" /\ AtDep /\ Dep \in Enabled /\ TypeOK /\ CollectInv
          /\ Len(stack) >= RecursionLimit
      BY <2>3 DEF CollectDep, IInv, MarksInv
    <3>2. IsFiniteSet(Enabled) /\ Cardinality(Enabled) < RecursionLimit
      BY DEF RequestInv, Enabled
    <3>3. Len(stack) \in Nat /\ Cardinality(Enabled) \in Nat
      BY <3>1, <3>2, FS_CardinalityType DEF TypeOK
    <3>4. Cardinality(Enabled) < Len(stack)
      BY <3>1, <3>2, <3>3, RecursionLimitAssumption
    <3>5. Cyclic
      BY <3>1, <3>2, <3>4, DeepIsCyclic
    <3>6. QED
      BY <2>1, <2>2, <3>5 DEF RecursionErrorOnlyIfCyclic
  <2>4. CASE outcome' = "recursion" => outcome = "recursion"
    BY <2>1, <2>2, <2>4 DEF RecursionErrorOnlyIfCyclic
  <2>5. QED
    BY <2>3, <2>4
       DEF Next, vars, Locals, SelectAlone, SelectUnknown, SelectWithDeps,
           SelectAll, CollectDep, CollectReturn, VisitNext, VisitDep,
           VisitReturn, OrderDone, FilterNext, FilterDone, End
<1>3. QED
  BY <1>1, <1>2, PTL DEF Spec

-----------------------------------------------------------------------------
(* The order and base_order.                                               *)

(* The names of base_order the outer loop has taken.                       *)
At == Len(Candidates) - Len(todo)

(* The loop takes the names of base_order one after the other; those it is *)
(* through with are in the order, and all that is being visited is needed  *)
(* by the last one it took.                                                *)
LoopInv ==
  pc = "order" =>
    /\ At \in 0 .. Len(Candidates)
    /\ \A k \in DOMAIN todo : todo[k] = Candidates[At + k]
    /\ \A b \in 1 .. At :
         Candidates[b] \in Enabled =>
           Candidates[b] \in visited \/ (stack # << >> /\ b = At)
    /\ stack # << >> => At >= 1 /\ stack[1].lib = Candidates[At]
    /\ \A k \in Calls : stack[k].lib \in Reach({stack[1].lib})

(* A library is in the order when its turn had come, or that of a library  *)
(* that needs it, and everything with an earlier turn is before it.        *)
InTurn(s, i) ==
  \E a \in 1 .. Len(Candidates) :
    /\ Candidates[a] \in Enabled
    /\ s[i] \in Reach({Candidates[a]})
    /\ \A b \in 1 .. (a - 1) :
         Candidates[b] \in Enabled => \E k \in 1 .. (i - 1) : s[k] = Candidates[b]

RankInv ==
  /\ \A i \in DOMAIN ordered : InTurn(ordered, i)
  /\ \A i, j \in DOMAIN ordered : ordered[i] = ordered[j] => i = j

(* The registry does not change, and neither does what is reachable in it. *)
LEMMA ReachFixed ==
  ASSUME [Next]_vars, NEW R
  PROVE  Reach(R)' = Reach(R)
  BY RegistryFixed DEF Reach

(* A step along depends_on stays within what is reachable.                 *)
LEMMA ReachStep ==
  ASSUME NEW R, NEW l \in Reach(R), NEW d \in EnabledDeps(l)
  PROVE  d \in Reach(R)
  BY ReachFacts

(* An enabled library reaches itself.                                      *)
LEMMA ReachItself ==
  ASSUME NEW l \in Enabled
  PROVE  l \in Reach({l})
  BY ReachFacts

(* Each step of get_build_order keeps to its place in base_order.          *)
LEMMA LoopStep ==
  TypeOK /\ MarksInv /\ LoopInv /\ [Next]_vars => LoopInv'
<1> SUFFICES ASSUME TypeOK, MarksInv, LoopInv, [Next]_vars, pc' = "order"
             PROVE  LoopInv'
  BY DEF LoopInv
<1> DEFINE C == Candidates
           n == Len(C) - Len(todo')
<1>0. /\ registry' = registry /\ registry \in Registry
      /\ Enabled' = Enabled /\ Enabled \subseteq Name
      /\ Candidates' = C
      /\ stack \in Seq(Frame) /\ todo \in Seq(Name)
  BY RegistryFixed DEF TypeOK, Frame, Enabled, Registry, Candidates
<1>c. C \in Seq(Name) /\ Len(C) \in Nat /\ DOMAIN C = 1 .. Len(C)
  BY <1>0, CandidatesFacts
<1>r. \A R : Reach(R)' = Reach(R)
  BY ReachFixed
<1>a. SUFFICES /\ n \in 0 .. Len(C)
               /\ \A k \in DOMAIN todo' : todo'[k] = C[n + k]
               /\ \A b \in 1 .. n :
                    C[b] \in Enabled =>
                      C[b] \in visited' \/ (stack' # << >> /\ b = n)
               /\ stack' # << >> => n >= 1 /\ stack'[1].lib = C[n]
               /\ \A k \in 1 .. Len(stack') :
                    stack'[k].lib \in Reach({stack'[1].lib})
  BY <1>0, <1>r DEF LoopInv, At, Calls
<1>l. pc = "order" =>
        /\ At \in 0 .. Len(C)
        /\ \A k \in DOMAIN todo : todo[k] = C[At + k]
        /\ \A b \in 1 .. At :
             C[b] \in Enabled => C[b] \in visited \/ (stack # << >> /\ b = At)
        /\ stack # << >> => At >= 1 /\ stack[1].lib = C[At]
        /\ \A k \in 1 .. Len(stack) : stack[k].lib \in Reach({stack[1].lib})
  BY DEF LoopInv, Calls
<1>e. At = Len(C) - Len(todo)
  BY DEF At
<1> HIDE DEF C
<1>1. CASE todo' = C /\ stack' = << >>
  <2>1. n = 0
    BY <1>1, <1>c
  <2> HIDE DEF n
  <2>2. QED
    BY <1>1, <1>c, <2>1
<1>2. CASE VisitNext
  <2>1. /\ pc = "order" /\ stack = << >> /\ todo # << >> /\ todo' = Tail(todo)
        /\ visited' = visited
    BY <1>2 DEF VisitNext
  <2>2. /\ Len(todo) \in Nat /\ Len(todo) >= 1 /\ Len(todo') = Len(todo) - 1
        /\ Head(todo) = todo[1] /\ DOMAIN todo' = 1 .. (Len(todo) - 1)
        /\ \A k \in 1 .. (Len(todo) - 1) : todo'[k] = todo[k + 1]
        /\ DOMAIN todo = 1 .. Len(todo)
    BY <1>0, <2>1, HeadTailProperties
  <2>3. n = At + 1 /\ At \in Nat /\ n \in 0 .. Len(C) /\ n >= 1
    BY <1>c, <1>e, <1>l, <2>1, <2>2
  <2> HIDE DEF n
  <2>4. \A k \in DOMAIN todo' : todo'[k] = C[n + k]
    <3> SUFFICES ASSUME NEW k \in DOMAIN todo' PROVE todo'[k] = C[n + k]
      OBVIOUS
    <3>1. k \in 1 .. (Len(todo) - 1) /\ k + 1 \in DOMAIN todo
      BY <2>2
    <3>2. At + (k + 1) = n + k
      BY <2>3, <3>1
    <3>3. todo[k + 1] = C[At + (k + 1)]
      BY <1>l, <2>1, <3>1
    <3>4. QED
      BY <2>2, <3>1, <3>2, <3>3
  <2>5. Head(todo) = C[n]
    <3>1. 1 \in DOMAIN todo
      BY <2>2
    <3>2. todo[1] = C[At + 1]
      BY <1>l, <2>1, <3>1
    <3>3. QED
      BY <2>2, <2>3, <3>2
  <2>6. \A b \in 1 .. n : (b # n /\ C[b] \in Enabled) => C[b] \in visited
    <3> SUFFICES ASSUME NEW b \in 1 .. n, b # n, C[b] \in Enabled
                 PROVE  C[b] \in visited
      OBVIOUS
    <3>1. b \in 1 .. At
      BY <2>3
    <3>2. QED
      BY <1>l, <2>1, <3>1
  <2>7. CASE Head(todo) \in Enabled \ visited
    <3>1. stack' = Push(<< >>, Head(todo))
      BY <1>2, <2>7 DEF VisitNext
    <3>2. stack' # << >> /\ Len(stack') = 1 /\ stack'[1].lib = Head(todo)
      BY <3>1 DEF Push, Call
    <3>3. Head(todo) \in Reach({Head(todo)})
      BY <2>7, ReachItself
    <3>4. \A k \in 1 .. Len(stack') : stack'[k].lib \in Reach({stack'[1].lib})
      <4>1. \A k \in 1 .. Len(stack') : k = 1
        BY <3>2
      <4>2. QED
        BY <3>2, <3>3, <4>1
    <3>5. QED
      BY <2>1, <2>3, <2>4, <2>5, <2>6, <3>2, <3>4
  <2>8. CASE Head(todo) \notin Enabled \ visited
    <3>1. stack' = << >> /\ Len(stack') = 0
      BY <1>2, <2>1, <2>8 DEF VisitNext
    <3>2. C[n] \in Enabled => C[n] \in visited
      BY <2>5, <2>8
    <3>3. \A b \in 1 .. n : C[b] \in Enabled => C[b] \in visited
      BY <2>6, <3>2
    <3>4. \A k \in 1 .. Len(stack') : FALSE
      BY <3>1
    <3>5. QED
      BY <2>1, <2>3, <2>4, <3>1, <3>3, <3>4
  <2>9. QED
    BY <2>7, <2>8
<1>3. CASE VisitDep
  <2>1. /\ pc = "order" /\ stack # << >> /\ todo' = todo /\ visited' = visited
        /\ Dep \in {DependsOn(Top.lib)[i] : i \in DOMAIN DependsOn(Top.lib)}
    BY <1>3 DEF VisitDep, AtDep, Dep
  <2>2. n = At
    BY <1>e, <2>1
  <2>3. /\ Len(stack) \in Nat \ {0} /\ Len(stack) \in 1 .. Len(stack)
        /\ 1 \in 1 .. Len(stack) /\ Top = stack[Len(stack)]
    BY <1>0, <2>1, TopFacts DEF Top
  <2>4. Top.lib \in Reach({stack[1].lib})
    BY <1>l, <2>1, <2>3
  <2> HIDE DEF n
  <2>a. ASSUME stack' # << >>, stack'[1].lib = stack[1].lib,
               \A k \in 1 .. Len(stack') : stack'[k].lib \in Reach({stack[1].lib})
        PROVE  /\ n \in 0 .. Len(C)
               /\ \A k \in DOMAIN todo' : todo'[k] = C[n + k]
               /\ \A b \in 1 .. n :
                    C[b] \in Enabled =>
                      C[b] \in visited' \/ (stack' # << >> /\ b = n)
               /\ stack' # << >> => n >= 1 /\ stack'[1].lib = C[n]
               /\ \A k \in 1 .. Len(stack') :
                    stack'[k].lib \in Reach({stack'[1].lib})
    BY <1>l, <2>1, <2>2, <2>a
  <2>5. CASE stack' = Advance(stack)
    <3>1. /\ Len(stack') = Len(stack)
          /\ \A k \in 1 .. Len(stack) : stack'[k].lib = stack[k].lib
          /\ stack' \in Seq(Frame)
      BY <1>0, <2>1, <2>5, AdvanceFacts
    <3>2. stack' # << >>
      BY <2>3, <3>1
    <3>3. stack'[1].lib = stack[1].lib
      BY <2>3, <3>1
    <3>4. \A k \in 1 .. Len(stack') : stack'[k].lib \in Reach({stack[1].lib})
      BY <1>l, <2>1, <3>1
    <3>5. QED
      BY <2>a, <3>2, <3>3, <3>4
  <2>6. CASE Dep \in Enabled /\ stack' = Push(stack, Dep)
    <3>1. /\ Len(stack') = Len(stack) + 1
          /\ \A k \in 1 .. Len(stack) : stack'[k] = stack[k]
          /\ stack'[Len(stack) + 1].lib = Dep
          /\ stack' \in Seq(Frame)
      BY <1>0, <2>6, PushFacts
    <3>2. stack' # << >>
      BY <2>3, <3>1
    <3>3. stack'[1].lib = stack[1].lib
      BY <2>3, <3>1
    <3>4. Dep \in Reach({stack[1].lib})
      <4>1. Dep \in EnabledDeps(Top.lib)
        BY <2>1, <2>6 DEF EnabledDeps
      <4>2. QED
        BY <2>4, <4>1, ReachStep
    <3>5. \A k \in 1 .. Len(stack') : stack'[k].lib \in Reach({stack[1].lib})
      <4>1. \A k \in 1 .. Len(stack') : k \in 1 .. Len(stack) \/ k = Len(stack) + 1
        BY <2>3, <3>1
      <4>2. \A k \in 1 .. Len(stack) : stack'[k].lib \in Reach({stack[1].lib})
        BY <1>l, <2>1, <3>1
      <4>3. QED
        BY <3>1, <3>4, <4>1, <4>2
    <3>6. QED
      BY <2>a, <3>2, <3>3, <3>5
  <2>7. QED
    BY <1>3, <2>5, <2>6 DEF VisitDep, End
<1>4. CASE VisitReturn
  <2>1. /\ pc = "order" /\ stack # << >> /\ todo' = todo
        /\ visited' = visited \cup {Top.lib} /\ stack' = Return
    BY <1>4 DEF VisitReturn, AtReturn
  <2>2. n = At
    BY <1>e, <2>1
  <2>3. Len(stack) \in Nat \ {0} /\ Top = stack[Len(stack)]
    BY <1>0, <2>1, TopFacts DEF Top
  <2>4. /\ stack' \in Seq(Frame) /\ Len(stack') = Len(stack) - 1
        /\ \A k \in 1 .. (Len(stack) - 1) : stack'[k].lib = stack[k].lib
    BY <1>0, <2>1, ReturnFacts
  <2> HIDE DEF n
  <2>5. /\ n \in 0 .. Len(C) /\ \A k \in DOMAIN todo' : todo'[k] = C[n + k]
    BY <1>l, <2>1, <2>2
  <2>6. CASE Len(stack) = 1
    <3>1. stack' = << >> /\ \A k \in 1 .. Len(stack') : FALSE
      BY <2>1, <2>6 DEF Return
    <3>2. C[n] = Top.lib
      BY <1>l, <2>1, <2>2, <2>3, <2>6
    <3>3. \A b \in 1 .. n : C[b] \in Enabled => C[b] \in visited'
      BY <1>l, <2>1, <2>2, <3>2
    <3>4. QED
      BY <2>5, <3>1, <3>3
  <2>7. CASE Len(stack) # 1
    <3>1. /\ stack' # << >> /\ 1 \in 1 .. (Len(stack) - 1)
      BY <2>3, <2>4, <2>7
    <3>2. stack'[1].lib = stack[1].lib
      BY <2>4, <3>1
    <3>3. \A k \in 1 .. Len(stack') : stack'[k].lib \in Reach({stack'[1].lib})
      <4>1. \A k \in 1 .. Len(stack') : k \in 1 .. Len(stack) /\ k \in 1 .. (Len(stack) - 1)
        BY <2>3, <2>4
      <4>2. QED
        BY <1>l, <2>1, <2>4, <3>2, <4>1
    <3>4. n >= 1 /\ stack'[1].lib = C[n]
      BY <1>l, <2>1, <2>2, <3>2
    <3>5. \A b \in 1 .. n : C[b] \in Enabled => C[b] \in visited' \/ b = n
      BY <1>l, <2>1, <2>2
    <3>6. QED
      BY <2>5, <3>1, <3>3, <3>4, <3>5
  <2>8. QED
    BY <2>6, <2>7
<1>5. CASE UNCHANGED vars
  <2>1. /\ pc = "order" /\ stack' = stack /\ todo' = todo /\ visited' = visited
    BY <1>5 DEF vars
  <2>2. n = At
    BY <1>e, <2>1
  <2> HIDE DEF n
  <2>3. QED
    BY <1>l, <2>1, <2>2
<1>6. CASE SelectAll
  BY <1>1, <1>6 DEF SelectAll, MarksInv, C
<1>7. CASE CollectReturn
  <2>1. Len(stack) = 1 /\ todo' = C
    BY <1>7 DEF CollectReturn, C
  <2>2. stack' = << >>
    BY <1>7, <2>1 DEF CollectReturn, Return
  <2>3. QED
    BY <1>1, <2>1, <2>2
<1>8. QED
  BY <1>2, <1>3, <1>4, <1>5, <1>6, <1>7
     DEF Next, SelectAlone, SelectUnknown, SelectWithDeps, CollectDep,
         OrderDone, FilterNext, FilterDone, End, TypeOK

(* What a visit appends has its turn, and was not in the order before.     *)
LEMMA RankStep ==
  TypeOK /\ MarksInv /\ VisitInv /\ OrderedInv /\ LoopInv /\ RankInv /\ [Next]_vars
    => RankInv'
<1> SUFFICES ASSUME TypeOK, MarksInv, VisitInv, OrderedInv, LoopInv, RankInv,
                    [Next]_vars
             PROVE  RankInv'
  OBVIOUS
<1> DEFINE C == Candidates
<1>0. /\ registry' = registry /\ Enabled' = Enabled /\ Candidates' = C
      /\ registry \in Registry /\ Enabled \subseteq Name
      /\ ordered \in Seq(Name) /\ stack \in Seq(Frame)
  BY RegistryFixed DEF TypeOK, Frame, Enabled, Registry, Candidates
<1>c. Len(C) \in Nat
  BY <1>0, CandidatesFacts
<1>r. \A R : Reach(R)' = Reach(R)
  BY ReachFixed
<1>t. ASSUME NEW s, NEW i PROVE InTurn(s, i)' <=> InTurn(s, i)
  BY <1>0, <1>r DEF InTurn
<1>a. SUFFICES /\ \A i \in DOMAIN ordered' : InTurn(ordered', i)
               /\ \A i, j \in DOMAIN ordered' :
                    ordered'[i] = ordered'[j] => i = j
  BY <1>t DEF RankInv
<1> HIDE DEF C
<1>1. CASE VisitReturn
  <2>1. /\ pc = "order" /\ stack # << >> /\ ordered' = Append(ordered, Top.lib)
    BY <1>1 DEF VisitReturn, AtReturn
  <2>2. /\ Len(stack) \in Nat \ {0} /\ Len(stack) \in 1 .. Len(stack)
        /\ 1 \in 1 .. Len(stack) /\ Top = stack[Len(stack)] /\ Top.lib \in Name
    BY <1>0, <2>1, TopFacts DEF Top
  <2> DEFINE m == Len(ordered) + 1
  <2>3. /\ Len(ordered) \in Nat /\ DOMAIN ordered = 1 .. Len(ordered)
        /\ DOMAIN ordered' = 1 .. m
        /\ \A i \in 1 .. Len(ordered) : ordered'[i] = ordered[i]
        /\ ordered'[m] = Top.lib /\ m - 1 = Len(ordered)
    BY <1>0, <2>1, <2>2, AppendProperties
  <2>4. \A i \in 1 .. m : i = m \/ i \in 1 .. Len(ordered)
    BY <2>3
  <2> HIDE DEF m
  <2>5. Top.lib \notin visited /\ visited = {ordered[i] : i \in 1 .. Len(ordered)}
    BY <1>1, <2>3, VisitReturnFacts DEF OrderedInv
  <2>6. /\ At \in 1 .. Len(C) /\ stack[1].lib = C[At]
        /\ Top.lib \in Reach({C[At]})
        /\ \A b \in 1 .. (At - 1) : C[b] \in Enabled => C[b] \in visited
    <3>1. /\ At \in 0 .. Len(C) /\ At >= 1 /\ stack[1].lib = C[At]
          /\ \A b \in 1 .. At : C[b] \in Enabled => C[b] \in visited \/ b = At
          /\ stack[Len(stack)].lib \in Reach({stack[1].lib})
      BY <2>1, <2>2 DEF LoopInv, Calls, C
    <3>2. At \in 1 .. Len(C)
      BY <1>c, <3>1
    <3>3. \A b \in 1 .. (At - 1) : b \in 1 .. At /\ b # At
      BY <3>2
    <3>4. QED
      BY <2>2, <3>1, <3>2, <3>3
  <2>7. C[At] \in Enabled
    <3>1. stack[1].lib \in temp_mark
      BY <2>1, <2>2 DEF MarksInv, Calls
    <3>2. QED
      BY <2>6, <3>1 DEF MarksInv
  <2>8. ASSUME NEW i \in 1 .. m
        PROVE  InTurn(ordered', i)
    <3>1. CASE i = m
      <4>1. ASSUME NEW b \in 1 .. (At - 1), C[b] \in Enabled
            PROVE  \E k \in 1 .. (i - 1) : ordered'[k] = C[b]
        <5>1. PICK k \in 1 .. Len(ordered) : ordered[k] = C[b]
          BY <2>5, <2>6, <4>1
        <5>2. k \in 1 .. (i - 1) /\ ordered'[k] = C[b]
          BY <2>3, <3>1, <5>1
        <5>3. QED
          BY <5>2
      <4>2. ordered'[i] \in Reach({C[At]})
        BY <2>3, <2>6, <3>1
      <4>3. QED
        BY <2>6, <2>7, <4>1, <4>2 DEF InTurn, C
    <3>2. CASE i \in 1 .. Len(ordered)
      <4>1. PICK a \in 1 .. Len(C) :
              /\ C[a] \in Enabled
              /\ ordered[i] \in Reach({C[a]})
              /\ \A b \in 1 .. (a - 1) :
                   C[b] \in Enabled => \E k \in 1 .. (i - 1) : ordered[k] = C[b]
        BY <2>3, <3>2 DEF RankInv, InTurn, C
      <4>2. \A k \in 1 .. (i - 1) : ordered'[k] = ordered[k]
        <5>1. \A k \in 1 .. (i - 1) : k \in 1 .. Len(ordered)
          BY <2>3, <3>2
        <5>2. QED
          BY <2>3, <5>1
      <4>3. ordered'[i] = ordered[i]
        BY <2>3, <3>2
      <4>4. \A b \in 1 .. (a - 1) :
              C[b] \in Enabled => \E k \in 1 .. (i - 1) : ordered'[k] = C[b]
        BY <4>1, <4>2
      <4>5. QED
        BY <4>1, <4>3, <4>4 DEF InTurn, C
    <3>3. QED
      BY <2>4, <3>1, <3>2
  <2>9. ASSUME NEW i \in 1 .. m, NEW j \in 1 .. m, ordered'[i] = ordered'[j]
        PROVE  i = j
    <3>1. \A k \in 1 .. Len(ordered) : ordered'[k] # Top.lib
      BY <2>3, <2>5
    <3>2. CASE i \in 1 .. Len(ordered) /\ j \in 1 .. Len(ordered)
      BY <2>3, <2>9, <3>2 DEF RankInv
    <3>3. CASE ~(i \in 1 .. Len(ordered) /\ j \in 1 .. Len(ordered))
      BY <2>3, <2>4, <2>9, <3>1, <3>3
    <3>4. QED
      BY <3>2, <3>3
  <2>10. QED
    BY <2>3, <2>8, <2>9
<1>2. CASE ordered' = ordered
  BY <1>2 DEF RankInv
<1>3. QED
  BY <1>1, <1>2
     DEF Next, vars, Locals, SelectAlone, SelectUnknown, SelectWithDeps,
         SelectAll, CollectDep, CollectReturn, VisitNext, VisitDep, OrderDone,
         FilterNext, FilterDone

(* The names base_order is made of, in their order: what Candidates goes   *)
(* through before it meets l, it lists no later than l.                    *)
LEMMA CandidatesInOrder ==
  ASSUME registry \in Registry, NEW l, NEW a \in 1 .. Len(Candidates),
         \A b \in 1 .. (a - 1) : Candidates[b] # l
  PROVE  AtOrBefore(Candidates[a], l)
<1> DEFINE o == registry.order
<1>1. o \in Seq(Name) /\ Alphabet \in Seq(Name)
  BY AlphabetAssumption DEF Registry
<1>2. /\ Len(Candidates) = Len(o) + Len(Alphabet)
      /\ \A i \in 1 .. Len(Candidates) :
           Candidates[i] = IF i <= Len(o) THEN o[i] ELSE Alphabet[i - Len(o)]
  BY <1>1, ConcatProperties DEF Candidates
<1>3. /\ Len(o) \in Nat /\ DOMAIN o = 1 .. Len(o)
      /\ Len(Alphabet) \in Nat /\ DOMAIN Alphabet = 1 .. Len(Alphabet)
  BY <1>1
<1> HIDE DEF o
<1>4. CASE a <= Len(o)
  <2>1. a \in DOMAIN o /\ o[a] = Candidates[a]
    BY <1>2, <1>3, <1>4
  <2>2. \A b \in 1 .. (a - 1) : o[b] # l
    <3>1. \A b \in 1 .. (a - 1) : b \in 1 .. Len(Candidates) /\ b <= Len(o)
      BY <1>2, <1>3, <1>4
    <3>2. QED
      BY <1>2, <3>1
  <2>3. QED
    BY <2>1, <2>2 DEF AtOrBefore, NoLater, o
<1>5. CASE a > Len(o)
  <2>1. a - Len(o) \in DOMAIN Alphabet /\ Alphabet[a - Len(o)] = Candidates[a]
    BY <1>2, <1>3, <1>5
  <2>2. ASSUME NEW b \in 1 .. ((a - Len(o)) - 1)
        PROVE  Alphabet[b] # l
    <3>1. /\ b + Len(o) \in 1 .. (a - 1) /\ b + Len(o) \in 1 .. Len(Candidates)
          /\ ~(b + Len(o) <= Len(o)) /\ (b + Len(o)) - Len(o) = b
      BY <1>2, <1>3, <1>5
    <3>2. QED
      BY <1>2, <3>1
  <2>3. ASSUME NEW b \in DOMAIN o PROVE o[b] # l
    <3>1. b \in 1 .. (a - 1) /\ b \in 1 .. Len(Candidates) /\ b <= Len(o)
      BY <1>2, <1>3, <1>5
    <3>2. QED
      BY <1>2, <3>1
  <2>4. NoLater(Alphabet, Candidates[a], l)
    BY <2>1, <2>2 DEF NoLater
  <2>5. QED
    BY <2>3, <2>4 DEF AtOrBefore, o
<1>6. QED
  BY <1>2, <1>3, <1>4, <1>5

(* Two libraries of the order, the later one listed before the earlier one:*)
(* then it would be in the order already when the earlier one came.        *)
LEMMA RankedIsRespected ==
  ASSUME TypeOK, MarksInv, OrderedInv, RankInv
  PROVE  OrderRespectsBase
<1> SUFFICES ASSUME NEW i \in DOMAIN ordered, NEW j \in DOMAIN ordered, i < j
             PROVE  \E r \in Enabled : /\ AtOrBefore(r, ordered[j])
                                       /\ ordered[i] \in Reach({r})
  BY DEF OrderRespectsBase
<1>1. /\ ordered \in Seq(Name) /\ DOMAIN ordered = 1 .. Len(ordered)
      /\ Len(ordered) \in Nat /\ registry \in Registry
  BY DEF TypeOK
<1>2. PICK a \in 1 .. Len(Candidates) :
        /\ Candidates[a] \in Enabled
        /\ ordered[i] \in Reach({Candidates[a]})
        /\ \A b \in 1 .. (a - 1) :
             Candidates[b] \in Enabled =>
               \E k \in 1 .. (i - 1) : ordered[k] = Candidates[b]
  BY DEF RankInv, InTurn
<1>3. ordered[j] \in Enabled
  BY DEF OrderedInv, MarksInv
<1>4. ASSUME NEW b \in 1 .. (a - 1), Candidates[b] = ordered[j]
      PROVE  FALSE
  <2>1. PICK k \in 1 .. (i - 1) : ordered[k] = ordered[j]
    BY <1>2, <1>3, <1>4
  <2>2. k \in DOMAIN ordered /\ k # j
    BY <1>1
  <2>3. QED
    BY <2>1, <2>2 DEF RankInv
<1>5. AtOrBefore(Candidates[a], ordered[j])
  BY <1>1, <1>4, CandidatesInOrder
<1>6. QED
  BY <1>2, <1>5

(* The configured order decides between libraries that do not need one     *)
(* another, the alphabet between those it does not list.                   *)
THEOREM BaseOrderIsRespected == Spec => []OrderRespectsBase
<1> DEFINE OInv == IInv /\ LoopInv /\ RankInv
<1>1. Init => OInv
  BY IInvInit DEF Init, LoopInv, RankInv
<1>2. OInv /\ [Next]_vars => OInv'
  BY IInvStep, LoopStep, RankStep DEF IInv
<1>3. OInv => OrderRespectsBase
  BY RankedIsRespected DEF IInv
<1>4. QED
  BY <1>1, <1>2, <1>3, PTL DEF Spec

(* What comes no later than r, and r no later than l, comes no later than l. *)
LEMMA NoLaterChain ==
  ASSUME NEW s \in Seq(Name), NEW x, NEW r, NEW l, NoLater(s, x, r), NoLater(s, r, l)
  PROVE  NoLater(s, x, l)
<1>1. PICK a \in DOMAIN s : s[a] = x /\ \A b \in 1 .. (a - 1) : s[b] # r
  BY DEF NoLater
<1>2. PICK c \in DOMAIN s : s[c] = r /\ \A b \in 1 .. (c - 1) : s[b] # l
  BY DEF NoLater
<1>3. DOMAIN s = 1 .. Len(s) /\ Len(s) \in Nat
  OBVIOUS
<1>4. c >= a
  BY <1>1, <1>2, <1>3
<1>5. \A b \in 1 .. (a - 1) : b \in 1 .. (c - 1)
  BY <1>3, <1>4
<1>6. QED
  BY <1>1, <1>2, <1>5 DEF NoLater

LEMMA AtOrBeforeChain ==
  ASSUME registry \in Registry, NEW x, NEW r, NEW l, AtOrBefore(x, r), AtOrBefore(r, l)
  PROVE  AtOrBefore(x, l)
<1>1. registry.order \in Seq(Name) /\ Alphabet \in Seq(Name)
  BY AlphabetAssumption DEF Registry
<1> DEFINE Unlisted(n) == \A a \in DOMAIN registry.order : registry.order[a] # n
<1>2. ASSUME NEW n, NEW m, NoLater(registry.order, n, m) PROVE ~Unlisted(n)
  BY <1>2 DEF NoLater
<1>3. CASE NoLater(registry.order, r, l)
  <2>1. NoLater(registry.order, x, r)
    BY <1>2, <1>3 DEF AtOrBefore
  <2>2. QED
    BY <1>1, <1>3, <2>1, NoLaterChain DEF AtOrBefore
<1>4. CASE Unlisted(l) /\ NoLater(Alphabet, r, l)
  <2>1. CASE NoLater(registry.order, x, r)
    <3>1. NoLater(registry.order, x, l)
      <4>1. PICK a \in DOMAIN registry.order : registry.order[a] = x
        BY <2>1 DEF NoLater
      <4>2. DOMAIN registry.order = 1 .. Len(registry.order) /\ Len(registry.order) \in Nat
        BY <1>1
      <4>3. \A b \in 1 .. (a - 1) : b \in DOMAIN registry.order
        BY <4>2
      <4>4. QED
        BY <1>4, <4>1, <4>3 DEF NoLater
    <3>2. QED
      BY <3>1 DEF AtOrBefore
  <2>2. CASE NoLater(Alphabet, x, r)
    BY <1>1, <1>4, <2>2, NoLaterChain DEF AtOrBefore
  <2>3. QED
    BY <2>1, <2>2 DEF AtOrBefore
<1>5. QED
  BY <1>3, <1>4 DEF AtOrBefore

(* What a library reaches is listed before it, if dependencies are.        *)
LEMMA ReachIsListedBefore ==
  ASSUME registry \in Registry, ListsDependenciesFirst,
         NEW r \in Enabled, NEW x \in Reach({r})
  PROVE  x = r \/ AtOrBefore(x, r)
<1> DEFINE B == {y \in Enabled : y = r \/ AtOrBefore(y, r)}
<1>1. B \in SUBSET Enabled /\ {r} \subseteq B
  OBVIOUS
<1>2. ASSUME NEW l \in B PROVE EnabledDeps(l) \subseteq B
  <2> SUFFICES ASSUME NEW d \in EnabledDeps(l) PROVE d \in B
    OBVIOUS
  <2>1. d \in Enabled /\ AtOrBefore(d, l)
    BY DEF ListsDependenciesFirst, EnabledDeps
  <2>2. AtOrBefore(d, r)
    BY <2>1, AtOrBeforeChain
  <2>3. QED
    BY <2>1, <2>2
<1> HIDE DEF B
<1>3. x \in B
  BY <1>1, <1>2 DEF Reach
<1>4. QED
  BY <1>3 DEF B

(* A registry that lists dependencies first is built in the listed order:  *)
(* the sort of get_build_order moves nothing.                              *)
THEOREM ListedOrderIsKept == Spec => []ListedOrderHolds
<1> DEFINE OInv == IInv /\ LoopInv /\ RankInv
<1>1. Init => OInv
  BY IInvInit DEF Init, LoopInv, RankInv
<1>2. OInv /\ [Next]_vars => OInv'
  BY IInvStep, LoopStep, RankStep DEF IInv
<1>3. OInv => ListedOrderHolds
  <2> SUFFICES ASSUME OInv, ListsDependenciesFirst, pc = "filter"
               PROVE  ListedOrderHolds
    BY DEF ListedOrderHolds
  <2>1. registry \in Registry /\ OrderRespectsBase
    BY RankedIsRespected DEF IInv, TypeOK
  <2>2. {ordered[i] : i \in DOMAIN ordered} = Enabled
    BY DEF IInv, CoverInv, OrderedInv
  <2>3. ASSUME NEW i \in DOMAIN ordered, NEW j \in DOMAIN ordered, i < j
        PROVE  ordered[i] # ordered[j] /\ AtOrBefore(ordered[i], ordered[j])
    <3>1. i # j
      BY <2>3 DEF IInv, TypeOK
    <3>2. PICK r \in Enabled : /\ AtOrBefore(r, ordered[j])
                               /\ ordered[i] \in Reach({r})
      BY <2>1, <2>3 DEF OrderRespectsBase
    <3>3. ordered[i] = r \/ AtOrBefore(ordered[i], r)
      BY <2>1, <3>2, ReachIsListedBefore
    <3>4. AtOrBefore(ordered[i], ordered[j])
      BY <2>1, <3>2, <3>3, AtOrBeforeChain
    <3>5. QED
      BY <3>1, <3>4 DEF RankInv
  <2>4. QED
    BY <2>2, <2>3 DEF ListedOrderHolds
<1>4. QED
  BY <1>1, <1>2, <1>3, PTL DEF Spec

-----------------------------------------------------------------------------
(* What main goes on with: a list that is not empty, of enabled libraries, *)
(* none of them twice.                                                     *)
PlanIsProper ==
  /\ \A i, j \in DOMAIN plan : plan[i] = plan[j] => i = j
  /\ outcome = "planned" =>
       /\ plan # << >>
       /\ \A i \in DOMAIN plan : plan[i] \in Enabled

(* What the filter takes over comes from one more place of the order.      *)
LEMMA ProperStep ==
  IInv /\ RankInv /\ PlanIsProper /\ [Next]_vars => PlanIsProper'
<1> SUFFICES ASSUME IInv, RankInv, PlanIsProper, [Next]_vars PROVE PlanIsProper'
  OBVIOUS
<1>0. /\ Enabled' = Enabled /\ ordered \in Seq(Name) /\ plan \in Seq(Name)
      /\ todo \in Seq(Name)
      /\ pc # "done" => outcome # "planned"
      /\ \A i \in DOMAIN ordered, j \in DOMAIN ordered :
           ordered[i] = ordered[j] => i = j
  BY RegistryFixed DEF IInv, TypeOK, MarksInv, RankInv
<1>1. CASE SelectAlone
  <2>1. CASE plan' = <<request.library>> /\ request.library \in Enabled
    BY <1>0, <2>1 DEF PlanIsProper
  <2>2. CASE plan' = plan /\ outcome' # "planned"
    BY <2>2 DEF PlanIsProper
  <2>3. QED
    BY <1>1, <2>1, <2>2 DEF SelectAlone, End
<1>2. CASE FilterNext
  <2> DEFINE x == Head(todo)
             k == Kept
  <2>1. /\ pc = "filter" /\ todo # << >> /\ outcome' = outcome
        /\ plan' = IF Chosen(x) THEN Append(plan, x) ELSE plan
    BY <1>2 DEF FilterNext
  <2>2. /\ k \in Nat /\ \A i \in DOMAIN todo : todo[i] = ordered[k + i]
        /\ {plan[i] : i \in DOMAIN plan}
             = {l \in {ordered[i] : i \in 1 .. k} : Chosen(l)}
    BY <2>1 DEF IInv, FilterInv
  <2>3. /\ 1 \in DOMAIN todo /\ x = todo[1] /\ x \in Name
        /\ k = Len(ordered) - Len(todo) /\ Len(todo) \in Nat /\ Len(todo) >= 1
    <3>1. /\ Len(todo) \in Nat /\ Len(todo) >= 1 /\ DOMAIN todo = 1 .. Len(todo)
      BY <1>0, <2>1, EmptySeq
    <3>2. Head(todo) = todo[1] /\ 1 \in DOMAIN todo
      BY <1>0, <2>1, <3>1
    <3>3. QED
      BY <1>0, <3>1, <3>2 DEF Kept
  <2> HIDE DEF x, k
  <2>4. x = ordered[k + 1] /\ k + 1 \in DOMAIN ordered
    BY <1>0, <2>2, <2>3
  <2>5. \A i \in 1 .. k : i \in DOMAIN ordered /\ i # k + 1
    BY <1>0, <2>2, <2>4
  <2>6. x \notin {ordered[i] : i \in 1 .. k}
    BY <1>0, <2>4, <2>5
  <2>7. \A i \in DOMAIN plan : plan[i] # x
    BY <2>2, <2>6
  <2>8. \A i, j \in DOMAIN plan' : plan'[i] = plan'[j] => i = j
    <3>1. CASE plan' = Append(plan, x)
      <4>1. /\ DOMAIN plan = 1 .. Len(plan) /\ Len(plan) \in Nat
            /\ DOMAIN plan' = 1 .. (Len(plan) + 1) /\ plan'[Len(plan) + 1] = x
            /\ \A i \in 1 .. Len(plan) : plan'[i] = plan[i]
        BY <1>0, <2>3, <3>1, AppendProperties
      <4>2. \A i \in DOMAIN plan' : i \in DOMAIN plan \/ i = Len(plan) + 1
        BY <4>1
      <4>3. QED
        BY <2>7, <4>1, <4>2 DEF PlanIsProper
    <3>2. CASE plan' = plan
      BY <3>2 DEF PlanIsProper
    <3>3. QED
      BY <2>1, <3>1, <3>2
  <2>9. QED
    BY <1>0, <2>1, <2>8 DEF PlanIsProper
<1>3. CASE FilterDone
  <2>1. /\ plan' = plan /\ {plan[i] : i \in DOMAIN plan} \subseteq Enabled
        /\ outcome' = "planned" => plan # << >>
    BY <1>3, FinalPlan DEF FilterDone, End
  <2>2. QED
    BY <1>0, <2>1 DEF PlanIsProper
<1>4. CASE plan' = plan /\ (outcome' = "planned" => outcome = "planned")
  BY <1>0, <1>4 DEF PlanIsProper
<1>5. QED
  BY <1>1, <1>2, <1>3, <1>4
     DEF Next, vars, Locals, SelectUnknown, SelectWithDeps, SelectAll,
         CollectDep, CollectReturn, VisitNext, VisitDep, VisitReturn,
         OrderDone, End

(* What RequestsAssumption of BuildRun says of the lists main builds: not  *)
(* empty, and no library in them twice.                                    *)
THEOREM PlanIsProperList == Spec => []PlanIsProper
<1> DEFINE PInv == IInv /\ LoopInv /\ RankInv /\ PlanIsProper
<1>1. Init => PInv
  BY IInvInit DEF Init, LoopInv, RankInv, PlanIsProper
<1>2. PInv /\ [Next]_vars => PInv'
  BY IInvStep, LoopStep, RankStep, ProperStep DEF IInv
<1>3. QED
  BY <1>1, <1>2, PTL DEF Spec

=============================================================================
